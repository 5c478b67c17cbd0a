CONSTANTS
    Clients = {c1, c2}
    ClientLimit = 1
    GlobalLimit = 3
    Span = 1
    Retention = 1
    NoRow = NoRow
    MaxNow = 2
    Servers = {s1}
    Purgers = {m1}
    Free = Free
    CleanupLimit = 1
    QuotaLimit = 2
SYMMETRY Interchangeable
SPECIFICATION SharedSpec
INVARIANT ClientBudget
