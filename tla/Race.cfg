CONSTANTS
    u1 = u1
    u2 = u2
    s = s
    w1 = w1
    w2 = w2
    A = A
    B = B
    Users <- Bettors
    Streamer = s
    Outcomes <- TwoOutcomes
    Stakes <- SmallStakes
    Funding <- Even
    CommissionBps = 5000
    Workers <- TwoWorkers
    MaxOrders = 2
SPECIFICATION Spec
INVARIANTS
    LockedBacksOpenOrders
    EscrowBacksActive
    Conservation
    WalletExplained
    ReportIsExact
CHECK_DEADLOCK FALSE
SYMMETRY SymmetryWithWorkers
