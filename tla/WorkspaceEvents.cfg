SPECIFICATION Spec
CONSTANTS
    main = main
    b1 = b1
    b2 = b2
    r1 = r1
    t1 = t1
    t2 = t2
    hi = hi
    Tenants = {t1}
    Default = t1
    Repos = {r1}
    Branches = {main, b1, b2}
    Main = main
    Plain = {}
    Seeded = {r1}
    Procs = {"handler"}
    MaxOps = 4
    MaxCommits = 1
    MaxCuts = 1
    MaxLosses = 0
    MaxFails = 2
    MaxBlinds = 0
    MaxTools = 0
    MaxTrouble = 2
SYMMETRY Symmetry
INVARIANTS TypeOK RowsOneToOne DrainedBranches
PROPERTIES BranchesNeverReset RefinesMapping
CHECK_DEADLOCK FALSE
