SPECIFICATION RegistrySpec
CONSTANTS
    Clients = {c1, c2}
    Ids = {i1, i2, i3}
    Numbers = {n1, n2}
    Balances <- TwoBalances
    LastDate = 2
    NoRow = NoRow
    Unknown = Unknown
SYMMETRY RegistrySymmetry
INVARIANTS RegistryTypeOK LookupsReadLastWrite ListedOnce
PROPERTY DuplicatesStayHidden
