SPECIFICATION MCSpec
CONSTANTS
  Keys = {"k"}
  Layouts = {"A", "B"}
  Persian = "B"
  MaxWord = 2
  MaxHistoryWords = 1
  MaxHistoryChars = 2
  MaxPhraseWords = 1
  MaxPhraseChars = 4
  MinLive = 2
  MinBoundary = 1
  Attempts = {"word"}
  HotkeyInWord = TRUE
  MaxScreen = 4
  MaxDisturbances = 1
INVARIANT ModelMatchesScreen
CHECK_DEADLOCK FALSE
