CONSTANTS
    v = v
    w = w
    Words = {v, w}
    PartialReads = TRUE
    MaxEdits = 2
SPECIFICATION Spec
PROPERTIES HandEditsWin
