------------------------------- MODULE Ledger -------------------------------
(***************************************************************************)
(* What the account service promises: a book of accounts in which money    *)
(* only ever moves, in one step, between two open accounts of the same     *)
(* currency.  It has no workers, no database sessions and no intermediate  *)
(* balances; AccountService implements it under the hypotheses stated      *)
(* there, and its assumptions on the constants hold of these.              *)
(***************************************************************************)
EXTENDS Money, Functions

CONSTANTS
    Numbers,      \* account numbers (BankAccount.accountNumber)
    Currencies,   \* ISO codes (BankAccount.currencyUnit)
    Deposits,     \* opening balances
    Amounts,      \* amounts of transfers
    NoAccount,    \* marks a number no row carries
    Lossy         \* TRUE when a transfer may stop after its debit

VARIABLE book

Entries == [balance : Int, currency : Currencies]

IsOpen(n) == book[n] # NoAccount

Init == book = [n \in Numbers |-> NoAccount]

(* AccountServiceImpl.putAccount: the row is inserted with its balance.    *)
Open(n, b, c) ==
    /\ ~IsOpen(n)
    /\ book' = [book EXCEPT ![n] = [balance |-> Stored(b), currency |-> c]]

(* AccountServiceImpl.transactInAccounts as its callers see it: the amount *)
(* leaves one account and arrives in the other.  Each side is rounded on   *)
(* its own, so a fraction of a unit is not taken and yet arrives.          *)
Move(f, t, a) ==
    /\ f # t /\ IsOpen(f) /\ IsOpen(t)
    /\ book[f].currency = book[t].currency
    /\ book[f].balance >= a
    /\ book' = [book EXCEPT ![f].balance = @ - Taken(a),
                            ![t].balance = @ + Stored(a)]

(* What a debit that stands alone may take.                                *)
Losses == {Taken(a) : a \in Amounts} \union {0}

(* Transfers that stop between their two UPDATEs: their debits stand       *)
(* alone.  A crash of the process may stop several at once.                *)
Forfeit ==
    /\ Lossy
    /\ book' = [n \in Numbers |-> book'[n]]
    /\ \A n \in Numbers :
          \/ book'[n] = book[n]
          \/ /\ IsOpen(n)
             /\ \E loss \in Losses :
                   /\ book[n].balance >= loss
                   /\ book'[n] = [book[n] EXCEPT !.balance = @ - loss]

Next ==
    \/ \E n \in Numbers, b \in Deposits, c \in Currencies : Open(n, b, c)
    \/ \E f, t \in Numbers, a \in Amounts : Move(f, t, a)
    \/ Forfeit

Spec == Init /\ [][Next]_book

-----------------------------------------------------------------------------
(* The balances of the accounts in S, added up. *)
Holdings(b, S) == SumFunctionOnSet([n \in S |-> b[n].balance], S)

(* Over the accounts of currency c that are open before a step, what their *)
(* total changes by in it.                                                 *)
Change(c) ==
    LET held == {n \in Numbers : IsOpen(n) /\ book[n].currency = c}
    IN  Holdings(book', held) - Holdings(book, held)

(* No step destroys money.                                                 *)
NothingLost == \A c \in Currencies : Change(c) >= 0

(* No step creates money beyond the rounding of one transfer.              *)
NothingMade ==
    \A c \in Currencies :
        Change(c) =< 0 \/ \E a \in Amounts : Change(c) = Stored(a) - Taken(a)

(* Each currency's total is kept by every step, but for the rounding and   *)
(* for the debits of transfers that stop half way.                         *)
Conservation == [][NothingMade /\ (NothingLost \/ Lossy)]_book
=============================================================================
