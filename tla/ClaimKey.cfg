CONSTANTS
    u1 = u1
    u2 = u2
    k1 = k1
    k2 = k2
    k3 = k3
    h1 = h1
    h2 = h2
    Users <- TwoUsers
    Keys <- ThreeKeys
    Amounts <- SmallAmounts
    Requests <- SharedKey
    Handlers <- TwoHandlers
    DailyCap = 2
SPECIFICATION Spec
INVARIANT FailedKeyIsFree
