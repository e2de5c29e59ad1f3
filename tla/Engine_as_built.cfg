SPECIFICATION FairSpec
CONSTANTS
    Requests = {r1, r2, r3}
    Ips = {a}
    AllowedIps = {}
    BlockedIps = {}
    Modes = {"block", "detect"}
    ChallengeSettings = {TRUE, FALSE}
    CompileSettings = {FALSE}
    Scores = {1, 2}
    ScoreThreshold = 2
    RepThreshold = 3
    RepBan = 3
    RepDecay = 3
    SessionChallenge = 2
    SessionBlock = 3
    SessionMax = 2
    SessionWindow = 1
    RateLimits = {1, 2}
    RateWindow = 2
    RateBan = 2
    MaxSkew = 1
    MaxClock = 2
    MaxStops = 0
    None = None
PROPERTY EveryRequestAnswered
CHECK_DEADLOCK FALSE
