SPECIFICATION Spec
CONSTANTS
    Addresses = {a, b}
    Nonces = {0, 1, 2}
    Digest <- MCDigest
    Difficulty = 4
    Zeros = 1
    Requests = {r1, r2}
    Contents = {"none", "data", "binary", "over"}
    ChallengeSettings = {TRUE, FALSE}
    MaxRestarts = 1
    None = None
INVARIANTS TypeOK SameBody FileAhead FileTellsAnswer EachNotifiedOnce OwnTokenPasses
PROPERTY AnsweredWhenServed
CHECK_DEADLOCK FALSE
