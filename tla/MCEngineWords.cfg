SPECIFICATION MCSpec
CONSTANTS
  Keys = {"k"}
  Layouts = {"A", "B", "other"}
  Persian = "B"
  MaxWord = 3
  MaxHistoryWords = 1
  MaxHistoryChars = 2
  MaxPhraseWords = 1
  MaxPhraseChars = 4
  MinLive = 2
  MinBoundary = 1
  Attempts = {"word", "mixed"}
  HotkeyInWord = FALSE
  MaxScreen = 3
  MaxDisturbances = 1
INVARIANTS TypeOK ModelMatchesScreen UndoMatchesScreen UnmixedMeansUniform
PROPERTY ShowsWhatWasTyped
CHECK_DEADLOCK FALSE
