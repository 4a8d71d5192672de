\* Three versions, so that target, current and newest may all differ; a channel
\* of one (the code's is four), so that two requests overflow it into next.json.
SPECIFICATION FairSpec
CONSTANTS
    Versions = {v0, v1, v2}
    V0 = v0
    Dash = dash
    None = none
    UpgradeCap = 1
    MaxRequests = 2
INVARIANTS TypeOK BadOnlyIfCurrent PointerDurable
PROPERTIES QueueDrains AgentComesBack
