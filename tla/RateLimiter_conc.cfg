SPECIFICATION Spec
CONSTANTS
    Requests = {r1, r2, r3, r4, r5}
    Ips = {a}
    MaxRequests = 2
    SensitiveMax = 1
    Window = 2
    BanDuration = 5
    MaxSkew = 1
    MaxInFlight = 2
    MaxClock = 6
    NoBan = NoBan
SYMMETRY Symmetry
INVARIANTS
    TypeOK
    WindowBound
    RefusalEarned
    UncontestedBanHolds
    VecBounded
PROPERTY ImplementsWindowQuota
CHECK_DEADLOCK FALSE
