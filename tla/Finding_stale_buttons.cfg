CONSTANTS
    None = None
    Orders = {o1}
    ProviderOf <- MCProviderOf
    Operators = {p1}
    Dashboards = {d1}
    MaxMoves = 2
    MaxOpens = 1
    MaxLosses = 0
SPECIFICATION BoardSpec
CHECK_DEADLOCK FALSE
INVARIANT
    ButtonsAreAccepted
