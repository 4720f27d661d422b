SPECIFICATION FairSpec
CONSTANTS
    main = main
    b1 = b1
    b2 = b2
    r1 = r1
    t1 = t1
    t2 = t2
    hi = hi
    Tenants = {t1, t2}
    Default = t1
    Repos = {r1}
    Branches = {main, b1}
    Main = main
    Plain = {hi}
    Seeded = {}
    Procs = {"handler", "reconciler", "tool"}
    MaxOps = 2
    MaxCommits = 1
    MaxCuts = 1
    MaxLosses = 1
    MaxFails = 1
    MaxBlinds = 1
    MaxTools = 1
    MaxTrouble = 1
CONSTRAINT Modest
PROPERTY Converges
CHECK_DEADLOCK FALSE
