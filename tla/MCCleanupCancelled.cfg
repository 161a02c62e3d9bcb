SPECIFICATION Spec
CONSTANTS
  MaxRetries = 5
  Troubles = {}
  Owners = {"program"}
  MaxCopies = 2
  MaxRuns = 2
INVARIANT GivenBackWhenCancelled
CHECK_DEADLOCK FALSE
