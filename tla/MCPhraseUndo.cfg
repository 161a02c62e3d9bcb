SPECIFICATION MCSpec
CONSTANTS
  Keys = {"k"}
  Layouts = {"A", "B"}
  Persian = "B"
  MaxWord = 1
  MaxHistoryWords = 2
  MaxHistoryChars = 2
  MaxPhraseWords = 2
  MaxPhraseChars = 3
  MinLive = 1
  MinBoundary = 1
  Attempts = {"phrase"}
  HotkeyInWord = FALSE
  MaxScreen = 4
  MaxDisturbances = 0
PROPERTY ExactOriginal
CHECK_DEADLOCK FALSE
