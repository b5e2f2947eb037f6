CONSTANTS
    m1 = m1
    t1 = t1
    t2 = t2
    Users = {1, 2}
    Markets <- OneMarket
    Txns <- TwoTxns
    Standing <- Resters
    Orders <- ThinBook
    Attempts = 3
SPECIFICATION Spec
INVARIANTS
    TypeOK
    PlansStayValid
    CyclesNeedPlacement
    CyclesNeedWallet
PROPERTIES
    TransactionsEnd
