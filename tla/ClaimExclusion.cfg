CONSTANTS
    t1 = t1
    t2 = t2
    q1 = q1
    Tokens <- TwoTokens
    Periods <- ThreePeriods
    Requests <- OneRequest
    MaxDay = 3
SPECIFICATION Spec
INVARIANT ExclusionHolds
CHECK_DEADLOCK FALSE
