SPECIFICATION MCSpec
CONSTANTS
  Keys = {"k"}
  Layouts = {"A", "B"}
  Persian = "B"
  MaxWord = 1
  MaxHistoryWords = 1
  MaxHistoryChars = 1
  MaxPhraseWords = 2
  MaxPhraseChars = 3
  MinLive = 2
  MinBoundary = 1
  Attempts = {"phrase", "text"}
  HotkeyInWord = FALSE
  MaxScreen = 4
  MaxDisturbances = 1
INVARIANTS ModelMatchesScreen UndoMatchesScreen
PROPERTY ShowsWhatWasTyped
CHECK_DEADLOCK FALSE
