SPECIFICATION Spec
CONSTANTS
    Requests = {r1, r2}
    Workers = 1
    Settings <- MCSettings
    Off = Off
    MaxRestarts = 1
INVARIANT FailureDoesNotSuppress
PROPERTY Served
CHECK_DEADLOCK FALSE
