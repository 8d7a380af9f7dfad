CONSTANTS
    None = None
    Orders = {o1}
    ProviderOf <- MCProviderOf
    Operators = {p1, p2}
    MaxMoves = 4
SPECIFICATION Spec
CHECK_DEADLOCK FALSE
PROPERTY
    StatusFollowsTable
