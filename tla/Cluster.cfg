SPECIFICATION Spec
CONSTANTS
    c1 = c1
    c2 = c2
    c3 = c3
    j1 = j1
    j2 = j2
    j3 = j3
    s1 = s1
    s2 = s2
    api = api
    Calls = {c1, c2, c3}
    Services = {api}
    Sessions = {s1, s2}
    Ports = {80, 8080, 9090}
    Spoofed = {80}
    ToolPort = 8080
    Scales = {0}
    Ops <- AllOps
    MaxFails = 2
    Jobs = {j1}
    MaxCommands = 2
    MaxRestarts = 1
    MaxBegun = 3
SYMMETRY Symmetry
INVARIANTS
    TypeOK
    AnswersHold
    PodsEnd
    
PROPERTIES
    ScaleKeepsLaunch
CHECK_DEADLOCK FALSE
