\* Three contents, one of which does not pass the smoke test.
SPECIFICATION FairSpec
CONSTANTS
    Sources = {s0, s1, bad}
    Good = {s0, s1}
    Source0 = s0
    None = none
    Jobs = {j1, j2}
    MaxCommits = 2
    MaxSaves = 1
    MaxBegun = 2
INVARIANTS RunsTested CommitTxtExact ResumedOnce
PROPERTIES RollbackExact 
