\* The instance of Supervisor.cfg; safety only, so no fairness is needed.
SPECIFICATION Spec
CONSTANTS
    Versions = {v0, v1, v2}
    V0 = v0
    Dash = dash
    None = none
    UpgradeCap = 1
    MaxRequests = 2
INVARIANT BadNeverUsedAgain
