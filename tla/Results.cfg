CONSTANTS
    a1 = a1
    a2 = a2
    q1 = q1
    q2 = q2
    A = A
    B = B
    Admins <- TwoAdmins
    Outcomes <- OneOutcome
    Requests <- TwoRequests
    MaxResults = 3
SPECIFICATION Spec
INVARIANTS
    TypeOK
    FourEyes
    ResultNeverLost
PROPERTIES
    SettledOnce
CHECK_DEADLOCK FALSE
SYMMETRY Symmetry
