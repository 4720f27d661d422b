SPECIFICATION Spec
CONSTANTS
    c1 = c1
    c2 = c2
    c3 = c3
    c4 = c4
    n1 = n1
    n2 = n2
    w1 = w1
    w2 = w2
    Nowhere = Nowhere
    Calls = {c1, c2, c3, c4}
    Names = {n1}
    Workers = {w1, w2}
    MaxCommits = 0
    MaxRestarts = 1
    MaxLosses = 0
SYMMETRY Symmetry
PROPERTY SkipMeansPushed
CHECK_DEADLOCK FALSE
