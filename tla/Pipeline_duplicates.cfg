CONSTANTS
    e1 = e1
    e2 = e2
    e3 = e3
    k1 = k1
    k2 = k2
    None = None
    Events = {e1, e2}
    Keys = {k1, k2}
    KeyOf <- MCKeyOf
    Malformed = {}
    Poison = {}
    Requests = {r1, r2}
    Workers = {w1, w2}
    Calls = {}
    Attempts = 2
    MaxStalls = 1
    MaxCrashes = 1
    MaxExpiries = 1
SPECIFICATION Spec
CHECK_DEADLOCK FALSE
INVARIANTS
    SuccessMeansOrder
    AnnouncedOnceAfterCommit
    StoredIsAccounted
SYMMETRY Interchangeable
