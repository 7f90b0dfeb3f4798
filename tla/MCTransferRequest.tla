-------------------------- MODULE MCTransferRequest --------------------------
(* Instances of TransferRequest.                                           *)
EXTENDS TransferRequest, TLC

CONSTANTS n1, n2, n3, n4, EUR

Transfer(f, t, a, y) ==
    [from |-> f, to |-> t, amount |-> a, type |-> y, currency |-> EUR]

(* Both directions and both types, and one of neither.  An account may not *)
(* be open yet, or empty: lookups fail, transfers are refused.             *)
WebRequests ==
    { Transfer(n1, n2, 2, 1), Transfer(n2, n1, 2, -1), Transfer(n1, n2, 2, 0) }

(* Requests that have one account in common.                               *)
ChainRequests == { Transfer(n1, n2, 2, 1), Transfer(n2, n3, 2, 1) }

(* Two accounts, a transfer each way.                                      *)
ContendedRequests == { Transfer(n1, n2, 2, 1), Transfer(n2, n1, 2, 1) }

(* Pairs of accounts that can be in progress together when Isolated, one   *)
(* transfer across the pairs, and an amount with half a unit.              *)
DisjointRequests ==
    { Transfer(n1, n2, 2, 1), Transfer(n3, n4, 1, -1), Transfer(n2, n4, 2, -1) }

DepositOne == {2}

WorkerSymmetry == Permutations(Workers)
=============================================================================
