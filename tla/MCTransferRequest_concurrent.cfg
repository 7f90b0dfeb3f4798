SPECIFICATION RequestSpec
CONSTANTS
    n1 = n1
    n2 = n2
    n3 = n3
    n4 = n4
    EUR = EUR
    Workers = {w1, w2}
    Numbers = {n1, n2}
    Currencies = {EUR}
    Deposits <- DepositOne
    Transactions <- ContendedRequests
    NoAccount = NoAccount
    NoTransaction = NoTransaction
    MaxBalance = 4
    Isolated = FALSE
    FaultyOps = {}
    MayCrash = FALSE
    GcClears = FALSE
    CloseMayFail = FALSE
SYMMETRY WorkerSymmetry
PROPERTY ImplementsLedger
CHECK_DEADLOCK FALSE
