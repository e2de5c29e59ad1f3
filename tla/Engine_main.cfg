SPECIFICATION Spec
CONSTANTS
    Requests = {r1, r2, r3}
    Ips = {a, b, w}
    AllowedIps = {w}
    BlockedIps = {b}
    Modes = {"block"}
    ChallengeSettings = {TRUE}
    CompileSettings = {TRUE, FALSE}
    Scores = {1, 3}
    ScoreThreshold = 2
    RepThreshold = 3
    RepBan = 3
    RepDecay = 3
    SessionChallenge = 4
    SessionBlock = 6
    SessionMax = 3
    SessionWindow = 1
    RateLimits = {1, 2}
    RateWindow = 3
    RateBan = 2
    MaxSkew = 1
    MaxClock = 4
    MaxStops = 1
    None = None
SYMMETRY Symmetry
VIEW Live
INVARIANTS
    SessionWithinReputation
    ForwardedBound
CHECK_DEADLOCK FALSE
