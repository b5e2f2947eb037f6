CONSTANTS
    q1 = q1
    q2 = q2
    Requests <- TwoRequests
    MaxRate = 2
    Window = 2
    MaxFailures = 2
    Lockout = 3
    MaxSessions = 1
    MaxLate = 1
SPECIFICATION Spec
INVARIANTS
    TypeOK
    RateBound
    LockoutBound
    StaleSessionsBound
PROPERTIES
    LockoutEnds
