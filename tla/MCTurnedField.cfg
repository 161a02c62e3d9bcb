SPECIFICATION Spec
CONSTANTS
  Fields = {"login", "form"}
  Passwords = {"login"}
  Turning = {"form"}
  SlowReplies = FALSE
  MaxRounds = 2
  MaxMoves = 3
  MaxChanges = 2
  MaxEvents = 2
INVARIANT TurnedIsNoticed
CHECK_DEADLOCK FALSE
