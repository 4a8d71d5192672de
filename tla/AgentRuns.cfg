\* Two tasks, one of them whitelisted, so that two Handles of the chat overlap by
\* the whitelist and by the registration window, and so that one is queued.
SPECIFICATION FairSpec
CONSTANTS
    Tasks = {t1, t2}
    Bypass = {t2}
    Stop = stop
    Abort = abort
    Button = button
    None = none
    MaxSteps = 2
    MaxRetries = 1
CHECK_DEADLOCK FALSE
INVARIANTS TypeOK RegistryExact KeptUnlessRaced InOnePlace StopBoundsWork
    StoppableUnlessRaced
PROPERTIES ChatFreeIfToolsEnd
