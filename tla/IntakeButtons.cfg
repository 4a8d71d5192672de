\* One button pressed by a trusted user.
SPECIFICATION Spec
CONSTANTS
    PollCap = 1
    InjectCap = 1
    MaxUpdates = 2
    MaxInjected = 1
    MaxRestarts = 0
INVARIANT ButtonsWork
CHECK_DEADLOCK FALSE
