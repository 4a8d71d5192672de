\* Channels of one, four updates, two injected texts, one restart.
SPECIFICATION FairSpec
CONSTANTS
    PollCap = 1
    InjectCap = 1
    MaxUpdates = 4
    MaxInjected = 2
    MaxRestarts = 1
INVARIANTS InOrder Accounted
PROPERTY ReachesLoop
CHECK_DEADLOCK FALSE
