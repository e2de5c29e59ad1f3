SPECIFICATION Spec
CONSTANTS
    Requests = {r1, r2, r3, r4}
    Ips = {a}
    Scores = {1, 2}
    MaxScore = 3
    Threshold = 2
    BanDurations = {3, 6}
    DecayAfter = 1
    MaxSkew = 1
    MaxInFlight = 2
    MaxPast = 1
    None = None
SYMMETRY Symmetry
INVARIANTS
    TypeOK
    TotalEarned
    RefusalEarned
    UncontestedBanHolds
    ServedBanForgiven
CHECK_DEADLOCK FALSE
