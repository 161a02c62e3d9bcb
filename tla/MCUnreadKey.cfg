SPECIFICATION MCSpec
CONSTANTS
  Keys = {"k"}
  Layouts = {"A", "B"}
  Persian = "B"
  MaxWord = 3
  MaxHistoryWords = 1
  MaxHistoryChars = 2
  MaxPhraseWords = 1
  MaxPhraseChars = 4
  MinLive = 2
  MinBoundary = 1
  Attempts = {"word"}
  HotkeyInWord = FALSE
  MaxScreen = 4
  MaxDisturbances = 1
PROPERTY LeftAlone
CHECK_DEADLOCK FALSE
