CONSTANTS
    Interval = 2
    Limit = 1
    Slack = 0
    Retry = 4
    Idle = 2
SPECIFICATION Spec
INVARIANT NoKeyMissing
PROPERTIES NoChurn KeyboardComesBack
