SPECIFICATION Spec
CONSTANTS
    Addresses = {a, b}
    Nonces = {0, 1, 2}
    Digest <- MCDigest
    Difficulty = 4
    Zeros = 1
    Requests = {r1, r2, r3}
    Contents = {"none"}
    ChallengeSettings = {TRUE}
    MaxRestarts = 0
    None = None
INVARIANT SolvedChallengePasses
SYMMETRY Symmetry
CHECK_DEADLOCK FALSE
