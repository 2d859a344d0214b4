CONSTANTS
    Conns = {c1, c2}
    MaxConns = 2
    MaxAttempts = 2
    GuessBound = 1
    MaxRestarts = 0
    MaxRevokes = 1
    Boot = Boot
    Nothing = Nothing
SPECIFICATION AdmissionSpec
CHECK_DEADLOCK FALSE
INVARIANT
    RevokeNeverRaisesTrust
