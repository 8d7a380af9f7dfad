CONSTANTS
    e1 = e1
    e2 = e2
    e3 = e3
    k1 = k1
    k2 = k2
    None = None
    Events = {e1, e2, e3}
    Keys = {k1, k2}
    KeyOf <- MCKeyOf
    Malformed = {e3}
    Poison = {e2}
    Requests = {r1}
    Workers = {w1}
    Calls = {c1}
    Attempts = 2
    MaxStalls = 1
    MaxCrashes = 1
    MaxExpiries = 0
SPECIFICATION IndicatorSpec
CHECK_DEADLOCK FALSE
PROPERTIES
    JobsSettle
    AcceptedIsOrderOrLetter
    CountSettles
