CONSTANTS
    q1 = q1
    q2 = q2
    q3 = q3
    Values <- LowAndHigh
    Default = 2
    Stakes <- SmallStakes
    Funds = 4
    Requests <- ThreeRequests
    MaxDay = 2
SPECIFICATION Spec
INVARIANTS
    TypeOK
    StakeStillFits
    LastWordCounts
PROPERTIES
    RaiseWaits
SYMMETRY Symmetry
