SPECIFICATION RequestSpec
CONSTANTS
    n1 = n1
    n2 = n2
    n3 = n3
    n4 = n4
    EUR = EUR
    Workers = {w1, w2}
    Numbers = {n1, n2}
    Currencies = {EUR}
    Deposits <- DepositOne
    Transactions <- WebRequests
    NoAccount = NoAccount
    NoTransaction = NoTransaction
    MaxBalance = 2
    Isolated = FALSE
    FaultyOps = {}
    MayCrash = FALSE
    GcClears = FALSE
    CloseMayFail = FALSE
SYMMETRY WorkerSymmetry
INVARIANT FailuresReported
CHECK_DEADLOCK FALSE
