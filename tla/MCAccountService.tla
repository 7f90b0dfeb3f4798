-------------------------- MODULE MCAccountService --------------------------
(* Instances of AccountService: the transactions and deposits of each run, *)
(* named for the question it asks.                                         *)
EXTENDS AccountService, TLC

CONSTANTS n1, n2, EUR, USD

Transfer(f, t, a, y, c) ==
    [from |-> f, to |-> t, amount |-> a, type |-> y, currency |-> c]

(* Between different accounts.                                             *)
PairTransfers == { Transfer(n1, n2, 2, 1, EUR), Transfer(n2, n1, 2, -1, EUR) }

(* Accounts that everybody shares, both directions, both branches, the     *)
(* type no branch takes, half a unit, a wrong currency and a transfer to   *)
(* oneself.                                                                *)
SharedTransfers ==
    { Transfer(n1, n2, 2, 1, EUR), Transfer(n2, n1, 1, -1, EUR),
      Transfer(n1, n2, 2, 0, EUR), Transfer(n1, n2, 2, 1, USD),
      Transfer(n1, n1, 2, 1, EUR) }

(* The workers are interchangeable where no liveness is checked.           *)
WorkerSymmetry == Permutations(Workers)

DepositOne == {2}
(* Stored as a whole unit.                                                 *)
DepositHalf == {1}
=============================================================================
