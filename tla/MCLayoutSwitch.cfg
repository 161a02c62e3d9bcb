CONSTANTS
    Late = 2
    Episode = 3
    MaxPosted = 5
SPECIFICATION SwitchSpec
INVARIANT RightAlphabet
PROPERTIES SwitchArrives
