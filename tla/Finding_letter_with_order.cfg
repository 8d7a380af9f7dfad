CONSTANTS
    e1 = e1
    e2 = e2
    e3 = e3
    k1 = k1
    k2 = k2
    None = None
    Events = {e1}
    Keys = {k1, k2}
    KeyOf <- MCKeyOf
    Malformed = {}
    Poison = {}
    Requests = {r1}
    Workers = {w1}
    Calls = {}
    Attempts = 2
    MaxStalls = 1
    MaxCrashes = 0
    MaxExpiries = 0
SPECIFICATION Spec
CHECK_DEADLOCK FALSE
INVARIANT
    LetterMeansNoOrder
