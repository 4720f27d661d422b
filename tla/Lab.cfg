SPECIFICATION HistSpec
CONSTANTS
    c1 = c1
    c2 = c2
    c3 = c3
    c4 = c4
    Calls = {c1, c2, c3}
    main = main
    dev = dev
    v1 = v1
    f1 = f1
    u1 = u1
    loop = loop
    Branches = {main, dev}
    Tags = {}
    Main = main
    Files = {f1}
    Urls = {u1}
    Loop = loop
    Ops <- AllOps
    MaxParents = 1
    MaxFails = 1
SYMMETRY CallSymmetry
INVARIANTS
    TypeOK
    BranchesResolve
    SerialWritesSurvive
    MirrorClean
PROPERTIES
    BranchesIndependent
CHECK_DEADLOCK FALSE
