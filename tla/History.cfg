SPECIFICATION HistSpec
CONSTANTS
    c1 = c1
    c2 = c2
    c3 = c3
    c4 = c4
    Calls = {c1, c2, c3, c4}
    main = main
    dev = dev
    v1 = v1
    f1 = f1
    u1 = u1
    loop = loop
    Branches = {main}
    Tags = {}
    Main = main
    Files = {f1}
    Urls = {}
    Loop = loop
    Ops <- HistoryOps
    MaxParents = 2
    MaxFails = 0
SYMMETRY CallSymmetry
INVARIANTS
    GraphSound
    FetchClosed
CHECK_DEADLOCK FALSE
