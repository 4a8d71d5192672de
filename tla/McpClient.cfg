\* Three calls over pipes that hold one line each, so that writes and answers
\* block one another; one notification among the answers.
SPECIFICATION FairSpec
CONSTANTS
    Calls = {c1, c2, c3}
    None = none
    Failed = failed
    StdinCap = 1
    StdoutCap = 1
    MaxNotes = 1
CHECK_DEADLOCK FALSE
INVARIANTS PendingExact ReaderNeverBlocks
PROPERTIES AnswersAreOwn CallsEndIfServerReads
