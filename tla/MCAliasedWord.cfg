SPECIFICATION DSpec
CONSTANTS
  Windows = {"editor", "mail"}
  Words <- SomeWords
  Phrases <- EarlierWords
  Sensitivity = 1
  Latin = {"A"}
  Modes = {"auto", "A", "B"}
PROPERTIES TwoKeysNeverGuessed
