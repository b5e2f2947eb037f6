CONSTANTS
    u1 = u1
    u2 = u2
    s = s
    w1 = w1
    w2 = w2
    A = A
    B = B
    Users <- BettorsAndStreamer
    Streamer = s
    Outcomes <- TwoOutcomes
    Stakes <- SmallStakes
    Funding <- LessForStreamer
    CommissionBps = 5000
    Workers <- OneWorker
    MaxOrders = 3
SPECIFICATION Spec
INVARIANTS
    TypeOK
    LockedBacksOpenOrders
    OrdersAccountForStakes
    WalletExplained
    BookNeverCrossed
    CleanCounterparties
PROPERTIES
    TimePriority
CHECK_DEADLOCK FALSE
SYMMETRY Symmetry
