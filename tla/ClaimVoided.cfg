CONSTANTS
    u1 = u1
    u2 = u2
    s = s
    w1 = w1
    w2 = w2
    A = A
    B = B
    Users <- Bettors
    Streamer = s
    Outcomes <- TwoOutcomes
    Stakes <- UnitStake
    Funding <- Even
    CommissionBps = 5000
    Workers <- OneWorker
    MaxOrders = 2
SPECIFICATION Spec
PROPERTY VoidEmptiesEscrow
CHECK_DEADLOCK FALSE
