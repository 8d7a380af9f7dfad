CONSTANTS
    None = None
    Orders = {o1}
    ProviderOf <- MCProviderOf
    Operators = {p1, p2, simulator}
    Simulator = simulator
    MaxMoves = 2
SPECIFICATION ReadsSpec
CHECK_DEADLOCK FALSE
INVARIANTS
    TypeOK
    TrailEndsAtStatus
    EntriesAreLegal
    FeedIsCommitted
    SummaryIsRecent
    NudgeRefusedOnlyIfOvertaken
SYMMETRY Interchangeable
