CONSTANTS
    v = v
    w = w
    Words = {v, w}
    PartialReads = FALSE
    MaxEdits = 2
SPECIFICATION Spec
INVARIANTS TypeOK ForgottenStaysForgotten FileIsWhole
PROPERTIES HandEditsWin StopsWithoutLoss LearnedReachesDisk
