SPECIFICATION ListingSpec
CONSTANTS
    n1 = n1
    n2 = n2
    EUR = EUR
    Workers = {w1, w2}
    Numbers = {n1, n2}
    Currencies = {EUR}
    Deposits <- Deposited
    Transactions <- StoredTransfers
    NoAccount = NoAccount
    NoTransaction = NoTransaction
    MaxBalance = 6
    Isolated = FALSE
    FaultyOps = {"read", "update", "ack"}
    MayCrash = FALSE
    PoolSize = 3
    PageSize = 3
    GcClears = TRUE
INVARIANTS ListingTypeOK SelfTransfersFiltered
PROPERTY ListingsEnd
CHECK_DEADLOCK FALSE
