CONSTANTS
    None = None
    Orders = {o1}
    ProviderOf <- MCProviderOf
    Operators = {p1, p2}
    Dashboards = {d1}
    MaxMoves = 2
    MaxOpens = 2
    MaxLosses = 1
SPECIFICATION BoardSpec
CHECK_DEADLOCK FALSE
INVARIANTS
    BoardTypeOK
    BoardShowsCommitted
    OnlyGapsMislead
    NoOrderIsHidden
SYMMETRY Interchangeable
