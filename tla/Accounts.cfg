SPECIFICATION Spec
CONSTANTS
    c1 = c1
    c2 = c2
    c3 = c3
    c4 = c4
    alice = alice
    operator = operator
    Default = Default
    Chart = Chart
    Early = Early
    Nobody = Nobody
    Operator = operator
    Calls = {c1, c2, c3}
    Names = {alice, operator}
    MaxUsers = 3
    MaxFails = 1
    MaxRestarts = 1
SYMMETRY Symmetry
INVARIANTS TypeOK BindingsHold AnswersHold
CHECK_DEADLOCK FALSE
