SPECIFICATION FairRequestSpec
CONSTANTS
    n1 = n1
    n2 = n2
    n3 = n3
    n4 = n4
    EUR = EUR
    Workers = {w1, w2}
    Numbers = {n1, n2, n3}
    Currencies = {EUR}
    Deposits <- DepositOne
    Transactions <- ChainRequests
    NoAccount = NoAccount
    NoTransaction = NoTransaction
    MaxBalance = 2
    Isolated = FALSE
    FaultyOps = {"read", "update", "ack"}
    MayCrash = FALSE
    GcClears = FALSE
    CloseMayFail = FALSE
INVARIANTS RequestTypeOK InProcessHasOwner
PROPERTY MarksCleared
CHECK_DEADLOCK FALSE
