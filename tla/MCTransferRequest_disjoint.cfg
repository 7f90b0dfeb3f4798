SPECIFICATION RequestSpec
CONSTANTS
    n1 = n1
    n2 = n2
    n3 = n3
    n4 = n4
    EUR = EUR
    Workers = {w1, w2}
    Numbers = {n1, n2, n3, n4}
    Currencies = {EUR}
    Deposits <- DepositOne
    Transactions <- DisjointRequests
    NoAccount = NoAccount
    NoTransaction = NoTransaction
    MaxBalance = 2
    Isolated = TRUE
    FaultyOps = {"update", "ack"}
    MayCrash = TRUE
    GcClears = FALSE
    CloseMayFail = FALSE
SYMMETRY WorkerSymmetry
INVARIANT ReadsStayCurrent
PROPERTIES ImplementsLedger MoneyConserved OnlyFaultsLose
CHECK_DEADLOCK FALSE
