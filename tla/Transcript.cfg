\* Tasks of one session; pruning is switched off or on once while they run.
SPECIFICATION Spec
CONSTANTS
    Tools = {"read", "write"}
    Protected = {"write"}
    Cap = 2
    PurgeTurns = 1
    NudgeFrequency = 2
    Replies <- MCReplies
    CompressArgs <- MCCompressArgs
    Usages = {"mid", "high"}
    WindowKnown = TRUE
    DcpToggles = 1
    MaxSteps = 3
    MaxMsgs = 8
INVARIANTS NothingLost DuplicateHasOriginal PurgedAreOld RequestWellFormed ExecutedIsShown
PROPERTIES CompressionIsExact
CHECK_DEADLOCK FALSE
