CONSTANTS
    None = None
    MaxInt = 5000
    MenuCop = {3, 9}
    MenuMxnCents = {41, 65}
    MaxLines = 2
    MaxUnits = 2
    Fractions = {4, 9, 500}
SPECIFICATION Spec
CHECK_DEADLOCK FALSE
INVARIANTS
    TypeOK
    TakenIffSigned
    SimulatedIsStored
    RoundingIsBounded
PROPERTY
    RepairedInOneGo
