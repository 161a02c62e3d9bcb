SPECIFICATION DSpec
CONSTANTS
  Windows = {"editor", "mail"}
  Words <- SomeWords
  Phrases <- EarlierWords
  Sensitivity = 2
  Latin = {"A"}
  Modes = {"auto", "A", "B"}
INVARIANTS EvidenceOfTheSentence TurnedStays
PROPERTIES WeighsInAuto TwoKeysNeedContext
