SPECIFICATION Spec
CONSTANTS
    n1 = n1
    n2 = n2
    EUR = EUR
    USD = USD
    Workers = {w1, w2}
    Numbers = {n1, n2}
    Currencies = {EUR, USD}
    Deposits <- DepositOne
    Transactions <- SharedTransfers
    NoAccount = NoAccount
    NoTransaction = NoTransaction
    MaxBalance = 4
    Isolated = FALSE
    FaultyOps = {}
    MayCrash = FALSE
SYMMETRY WorkerSymmetry
INVARIANT SelfTransfersRefused
CHECK_DEADLOCK FALSE
