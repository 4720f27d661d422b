SPECIFICATION FairSpec
CONSTANTS
    a = a
    b = b
    c = c
    Ids = {a, b, c}
    MaxJobs = 3
    MaxCancels = 1
INVARIANTS TypeOK NeedsFirst OutcomeRight
PROPERTIES Terminates RefinesDagRun
CHECK_DEADLOCK FALSE
