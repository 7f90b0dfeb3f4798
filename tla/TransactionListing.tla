------------------------- MODULE TransactionListing -------------------------
(***************************************************************************)
(* getAllTransactions of the test profile (TransactionServiceImpl4Test):   *)
(* it lists the stored transactions joined with the accounts they name and *)
(* processes every row of the join, one after the other, before it closes  *)
(* the session that holds the list.  Each row goes through the functor     *)
(* 4Accounts and AccountServiceImpl4Test, which routes the transfer to     *)
(* AccountServiceImpl.transactInAccounts; no row is ever closed, and the   *)
(* next listing processes it again.                                        *)
(*                                                                         *)
(* A listing holds one connection of the pool for its whole life, and      *)
(* every statement of the transfers inside it needs another.  No check-out *)
(* time-out is configured: a statement waits for a connection as long as   *)
(* it takes.                                                               *)
(*                                                                         *)
(* Nothing in the service keeps listings apart, and the model lets several *)
(* run at once.  In the repository only a sequential test calls it         *)
(* (BankTransactionReadTests), one listing at a time.                      *)
(***************************************************************************)
EXTENDS AccountService, Functions

CONSTANTS
    PoolSize,   \* connections of the pool
    PageSize,   \* rows a listing takes at most (setMaxResults)
    GcClears    \* TRUE: the collector may clear a weak reference

ASSUME ListingAssumption ==
    /\ PoolSize \in Nat \ {0}
    /\ PageSize \in Nat
    /\ GcClears \in BOOLEAN
    /\ \A t \in Transactions : [t EXCEPT !.amount = Stored(@)] \in Transactions

VARIABLES
    stored,  \* the rows of bank_transaction
    inUse,   \* connections held by listings
    phase,   \* phase[w]: where w's listing is
    rows,    \* rows[w][t]: rows of the join for t that w has not processed
    row      \* row[w]: the transaction w processes

listingLocals == <<phase, rows, row>>
listingVars == <<vars, stored, inUse, listingLocals>>

Phases == {"idle", "listing", "lookupFrom", "lookupTo", "transact"}

NoRows == [t \in Transactions |-> 0]

ListingInit ==
    /\ Init
    /\ stored = {}
    /\ inUse = 0
    /\ phase = [w \in Workers |-> "idle"]
    /\ rows = [w \in Workers |-> NoRows]
    /\ row = [w \in Workers |-> NoTransaction]

(* A statement outside the listings borrows a connection and gives it back *)
(* within its step.                                                        *)
FreeConnection == inUse < PoolSize

Proceed(w, p) == phase' = [phase EXCEPT ![w] = p]

InsertAccount(n, b, c) ==
    /\ FreeConnection
    /\ PutAccount(n, b, c)
    /\ UNCHANGED <<stored, inUse, listingLocals>>

(* The column rounds the amount.  The bound: each row is stored once.      *)
PutTransaction(t) ==
    LET kept == [t EXCEPT !.amount = Stored(@)]
    IN  /\ FreeConnection
        /\ kept \notin stored
        /\ stored' = stored \union {kept}
        /\ UNCHANGED <<vars, inUse, listingLocals>>

-----------------------------------------------------------------------------
(* Mutant of JoinRows: the WHERE clause is left out.                       *)
JoinRowsUnfiltered(t) ==
    IF t \in stored THEN Cardinality({n \in Parties(t) : IsOpen(n)}) ELSE 0

(* The join has a row for each account that a transaction names, and none  *)
(* for a transaction from an account to itself.                            *)
JoinRows(t) ==
    IF t \in stored /\ t.from # t.to
    THEN Cardinality({n \in Parties(t) : IsOpen(n)})
    ELSE 0

(* What the limit lets through, in whatever order the database has them.   *)
Page ==
    LET joined == [t \in Transactions |-> JoinRows(t)]
        total == SumFunction(joined)
    IN  { page \in [Transactions -> 0..2] :
            /\ \A t \in Transactions : page[t] =< joined[t]
            /\ SumFunction(page) = IF total < PageSize THEN total ELSE PageSize }

(* The listing opens its session and reads its rows.  (The bound on the    *)
(* balances applies to the whole listing.)                                 *)
BeginListing(w) ==
    /\ phase[w] = "idle"
    /\ FreeConnection
    /\ \A t \in stored : WithinBound(t)
    /\ inUse' = inUse + 1
    /\ rows' \in { [rows EXCEPT ![w] = page] : page \in Page }
    /\ Proceed(w, "listing")
    /\ UNCHANGED <<vars, stored, row>>

(* The next row, in a ConcurrencyAccess of its own.                        *)
NextRow(w) ==
    /\ phase[w] = "listing"
    /\ \E t \in Transactions :
          /\ rows[w][t] > 0
          /\ rows' = [rows EXCEPT ![w][t] = @ - 1]
          /\ row' = [row EXCEPT ![w] = t]
    /\ Proceed(w, "lookupFrom")
    /\ UNCHANGED <<vars, stored, inUse>>

LookupFrom(w) ==
    /\ phase[w] = "lookupFrom"
    /\ FreeConnection
    /\ IsOpen(row[w].from)
    /\ Proceed(w, "lookupTo")
    /\ UNCHANGED <<vars, stored, inUse, rows, row>>

LookupTo(w) ==
    /\ phase[w] = "lookupTo"
    /\ FreeConnection
    /\ IsOpen(row[w].to)
    /\ BeginTransact(w, row[w])
    /\ Proceed(w, "transact")
    /\ UNCHANGED <<stored, inUse, rows, row>>

(* A row is left: whatever was thrown has been logged on the way up.       *)
LeaveRow(w) ==
    /\ row' = [row EXCEPT ![w] = NoTransaction]
    /\ Proceed(w, "listing")
    /\ UNCHANGED <<stored, inUse, rows>>

(* Before the transfer starts: an account is missing, a SELECT fails, or   *)
(* one of the two weakly referenced locks has been cleared.                *)
AbandonRow(w) ==
    /\ \/ phase[w] = "lookupFrom" /\ GcClears
       \/ /\ phase[w] = "lookupFrom"
          /\ FreeConnection
          /\ ~IsOpen(row[w].from) \/ "read" \in FaultyOps
       \/ /\ phase[w] = "lookupTo"
          /\ FreeConnection
          /\ ~IsOpen(row[w].to) \/ "read" \in FaultyOps
    /\ LeaveRow(w)
    /\ UNCHANGED vars

(* The steps of the transfer, each with a statement of its own.            *)
ProcessRow(w) ==
    /\ phase[w] = "transact"
    /\ FreeConnection
    /\ Advance(w)
    /\ UNCHANGED <<stored, inUse, listingLocals>>

ProcessFault(w) ==
    /\ phase[w] = "transact"
    /\ FreeConnection
    /\ Fail(w)
    /\ UNCHANGED <<stored, inUse, listingLocals>>

(* Returned or thrown, the listing goes on.                                *)
RowDone(w) ==
    /\ phase[w] = "transact"
    /\ Return(w)
    /\ LeaveRow(w)

(* Mutant of EndListing: the session is left open.                         *)
EndListingOpen(w) ==
    /\ phase[w] = "listing"
    /\ rows[w] = NoRows
    /\ Proceed(w, "idle")
    /\ UNCHANGED <<vars, stored, inUse, rows, row>>

(* The last row is done: commit, and the session is closed.                *)
EndListing(w) ==
    /\ phase[w] = "listing"
    /\ rows[w] = NoRows
    /\ inUse' = inUse - 1
    /\ Proceed(w, "idle")
    /\ UNCHANGED <<vars, stored, rows, row>>

ListingStep(w) ==
    \/ NextRow(w) \/ LookupFrom(w) \/ LookupTo(w) \/ AbandonRow(w)
    \/ ProcessRow(w) \/ RowDone(w) \/ EndListing(w)

ListingNext ==
    \/ \E n \in Numbers, b \in Deposits, c \in Currencies : InsertAccount(n, b, c)
    \/ \E t \in Transactions : PutTransaction(t)
    \/ \E w \in Workers :
          BeginListing(w) \/ ListingStep(w) \/ ProcessFault(w)

(* A thread that has a connection to take, or needs none, takes its step.  *)
ListingSpec ==
    /\ ListingInit
    /\ [][ListingNext]_listingVars
    /\ \A w \in Workers : WF_listingVars(ListingStep(w))

-----------------------------------------------------------------------------
(* A connection is held for each listing in progress, and by nobody else.  *)
ListingTypeOK ==
    /\ TypeOK
    /\ stored \subseteq Transactions
    /\ phase \in [Workers -> Phases]
    /\ inUse = Cardinality({w \in Workers : phase[w] # "idle"})
    /\ inUse =< PoolSize
    /\ rows \in [Workers -> [Transactions -> 0..2]]
    /\ \A w \in Workers :
          /\ phase[w] = "idle" => rows[w] = NoRows
          /\ IF phase[w] \in {"idle", "listing"}
             THEN row[w] = NoTransaction
             ELSE row[w] \in stored
          /\ IsActive(w) <=> phase[w] = "transact"

(* A stored transfer from an account to itself never reaches the service,  *)
(* which would execute it: the join leaves it out, however often it is     *)
(* listed and whichever accounts exist by then.                            *)
SelfTransfersFiltered ==
    \A w \in Workers : IsActive(w) => tx[w].from # tx[w].to

(* Every listing ends, whatever fails in its rows, as long as the pool has *)
(* a connection more than there are listings at once.                      *)
ListingsEnd ==
    \A w \in Workers : phase[w] = "listing" ~> phase[w] = "idle"
=============================================================================
