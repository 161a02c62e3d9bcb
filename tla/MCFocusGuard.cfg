SPECIFICATION Spec
CONSTANTS
  Fields = {"login", "form"}
  Passwords = {"login"}
  Turning = {"form"}
  SlowReplies = TRUE
  MaxRounds = 2
  MaxMoves = 3
  MaxChanges = 2
  MaxEvents = 2
INVARIANT PasswordsAreLeftAlone
PROPERTIES WordKeepsItsCorrection UnknownIsAnswered
CHECK_DEADLOCK FALSE
