CONSTANTS
    a = a
    b = b
    c = c
    None = None
    Words = {a, b, c}
    Hash <- MCHash
    Real <- MCReal
    Pairs <- MCPairs
    MidPairs <- MCMidPairs
    Slots = 3
    MaxWords = 2
    Share = 2
    MaxCount = 4
    MaxFixes = 1
    MaxClock = 5
    MaxRestarts = 1
SPECIFICATION Spec
INVARIANTS TypeOK WordsAreFindable RepairsAreEarned
PROPERTIES KnownStaysKnown ImplementsVocabulary
CHECK_DEADLOCK FALSE
