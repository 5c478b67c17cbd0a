CONSTANTS
    a1 = a1  a2 = a2  p1 = p1  p2 = p2
    Workers = {w1}
    Rows = {a1, a2, p1, p2}
    TableOf <- MCTableOf
    Limit <- MCLimit
    MaxBatches = 2
    MaxBusy = 1
SPECIFICATION FairSpec
INVARIANT HintSound
PROPERTY Drains
