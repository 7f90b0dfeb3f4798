SPECIFICATION Spec
CONSTANTS
    n1 = n1
    n2 = n2
    EUR = EUR
    USD = USD
    Workers = {w1, w2}
    Numbers = {n1, n2}
    Currencies = {EUR, USD}
    Deposits <- DepositOne
    Transactions <- PairTransfers
    NoAccount = NoAccount
    NoTransaction = NoTransaction
    MaxBalance = 4
    Isolated = TRUE
    FaultyOps = {"update"}
    MayCrash = FALSE
SYMMETRY WorkerSymmetry
INVARIANT ThrowsLeaveNoTrace
