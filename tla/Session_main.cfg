SPECIFICATION Spec
CONSTANTS
    Ips = {a, b}
    Scores = {1, 3}
    Modulus = 100
    Warn = 1
    Challenge = 2
    Block = 3
    MaxRequests = 2
    Window = 2
    MaxClock = 5
    MaxRecords = 5
    NoSession = NoSession
INVARIANTS
    EscalationEarned
    TwiceTheThresholdIsCaught
    NoStepBack
CHECK_DEADLOCK FALSE
