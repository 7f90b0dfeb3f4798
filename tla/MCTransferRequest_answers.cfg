SPECIFICATION FairRequestSpec
CONSTANTS
    n1 = n1
    n2 = n2
    n3 = n3
    n4 = n4
    EUR = EUR
    Workers = {w1, w2}
    Numbers = {n1, n2}
    Currencies = {EUR}
    Deposits <- DepositOne
    Transactions <- WebRequests
    NoAccount = NoAccount
    NoTransaction = NoTransaction
    MaxBalance = 2
    Isolated = FALSE
    FaultyOps = {"read", "update", "ack"}
    MayCrash = FALSE
    GcClears = TRUE
    CloseMayFail = TRUE
INVARIANT HonestFailure
PROPERTY RequestsAnswered
CHECK_DEADLOCK FALSE
