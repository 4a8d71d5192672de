\* Pruning is switched off between the offer of compress and its call.
SPECIFICATION Spec
CONSTANTS
    Tools = {"read", "write"}
    Protected = {"write"}
    Cap = 2
    PurgeTurns = 1
    NudgeFrequency = 2
    Replies <- MCReplies
    CompressArgs <- MCCompressArgs
    Usages = {"mid", "high"}
    WindowKnown = TRUE
    DcpToggles = 1
    MaxSteps = 3
    MaxMsgs = 8
INVARIANT CompressIsIntercepted
CHECK_DEADLOCK FALSE
