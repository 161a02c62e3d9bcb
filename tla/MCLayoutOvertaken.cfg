CONSTANTS
    Late = 1
    Episode = 2
    MaxPosted = 4
SPECIFICATION SwitchSpec
INVARIANTS LastRequestWins
