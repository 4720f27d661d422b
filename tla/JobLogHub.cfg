SPECIFICATION FairSpec
CONSTANTS
    r1 = r1
    r2 = r2
    Readers = {r1, r2}
    Cap = 2
    TailMax = 3
    MaxLines = 4
INVARIANTS TypeOK InOrder NoGap
PROPERTIES JobNeverWaits LiveStreamsDrain
CHECK_DEADLOCK FALSE
