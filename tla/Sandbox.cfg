SPECIFICATION ToolSpec
CONSTANTS
    c1 = c1
    c2 = c2
    c3 = c3
    c4 = c4
    x = x
    y = y
    Nothing = Nothing
    Empty = y
    Kinds <- SomeTools
    Direct = {"delete"}
    Calls = {c1, c2, c3}
    Trees = {x, y}
    Exclusive = {"launch", "delete"}
    MaxCommits = 1
    MaxRestarts = 1
    MaxFails = 1
CONSTRAINT Calm
SYMMETRY Symmetry
INVARIANTS ToolsTypeOK BootMeansPushed LastCallWins WritesSurvive
PROPERTY SkipSound
CHECK_DEADLOCK FALSE
