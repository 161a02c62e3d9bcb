SPECIFICATION Spec
CONSTANTS
  MaxRetries = 5
  Troubles = {"slow", "busy"}
  Owners = {"program"}
  MaxCopies = 2
  MaxRuns = 2
INVARIANTS LeftAsFound PastesOnlyTheSelection
PROPERTIES NeverClobbersNewerCopy CleanupEnds
CHECK_DEADLOCK FALSE
