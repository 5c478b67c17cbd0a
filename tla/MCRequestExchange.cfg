CONSTANTS
    Clients = {c1, c2}
    ClientLimit = 2
    GlobalLimit = 3
    Span = 2
    Retention = 1
    NoRow = NoRow
    MaxNow = 3
    PurgeLimit = 1
    Posts = {1, 2}
    Page = c1
    Bodies <- MCBodies
    Whole <- MCWhole
    NoBody = NoBody
    Limit = 1
SPECIFICATION ExchangeSpec
INVARIANT CountersCount
INVARIANT AnswersTruthful
INVARIANT ClaimStands
PROPERTY ImplementsBudget
