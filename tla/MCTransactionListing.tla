------------------------ MODULE MCTransactionListing ------------------------
(* Instances of TransactionListing.                                        *)
EXTENDS TransactionListing

CONSTANTS n1, n2, EUR

Transfer(f, t, a, y) ==
    [from |-> f, to |-> t, amount |-> a, type |-> y, currency |-> EUR]

(* Half a unit, which is stored as a whole one, and a transfer of an       *)
(* account to itself.                                                      *)
StoredTransfers ==
    { Transfer(n1, n2, 1, -1), Transfer(n1, n2, 2, -1), Transfer(n2, n2, 2, 1) }

Deposited == {2, 4}
=============================================================================
