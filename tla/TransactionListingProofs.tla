---------------------- MODULE TransactionListingProofs ----------------------
(***************************************************************************)
(* Theorems about TransactionListing, for every set of workers, accounts   *)
(* and transactions and every size of the pool and of a page.              *)
(*                                                                         *)
(* A listing, too, is a caller of the account service, one that may call   *)
(* for the same accounts as others at the same time.                       *)
(***************************************************************************)
EXTENDS TransactionListing, AccountServiceProofs, FiniteSetTheorems

USE ConstantsAssumption, MarksAssumption

Busy == {w \in Workers : phase[w] # "idle"}

(* Every connection held is a listing's, and their number is finite        *)
(* whatever the number of threads.                                         *)
PoolInv ==
    /\ IsFiniteSet(Busy)
    /\ inUse = Cardinality(Busy)
    /\ inUse =< PoolSize

ListingTypes ==
    /\ stored \subseteq Transactions
    /\ phase \in [Workers -> Phases]
    /\ rows \in [Workers -> [Transactions -> 0..2]]
    /\ row \in [Workers -> Transactions \union {NoTransaction}]

(* A listing, its rows and its call fit together.  What it has still to    *)
(* process, or processes, is stored and moves money between two accounts.  *)
ListingFits(w) ==
    /\ phase[w] = "idle" => rows[w] = NoRows
    /\ phase[w] \in {"idle", "listing"} => row[w] = NoTransaction
    /\ phase[w] \notin {"idle", "listing"} =>
          row[w] \in stored /\ row[w].from # row[w].to
    /\ IsActive(w) <=> phase[w] = "transact"
    /\ IsActive(w) => tx[w] = row[w]
    /\ \A t \in Transactions : rows[w][t] > 0 => t \in stored /\ t.from # t.to

ListingInv ==
    TypeInv /\ ListingTypes /\ PoolInv /\ \A w \in Workers : ListingFits(w)

(* What a listing's own thread does. *)
ListsFor(w) == BeginListing(w) \/ ListingStep(w) \/ ProcessFault(w)

-----------------------------------------------------------------------------
(* Every step of the listings is one of the service among its callers, or  *)
(* none of it.                                                             *)
LEMMA ListingIsService ==
    ListingInv /\ [ListingNext]_listingVars => [ServiceNext]_vars
<1> SUFFICES ASSUME ListingInv, [ListingNext]_listingVars
             PROVE  [ServiceNext]_vars
  OBVIOUS
<1>1. ASSUME NEW w \in Workers, LookupTo(w)
      PROVE  ServiceNext
  <2>1. row[w] \in Transactions
    BY <1>1 DEF LookupTo, ListingInv, ListingTypes, ListingFits
  <2> QED BY <1>1, <2>1 DEF LookupTo, ServiceNext
<1>2. ASSUME NEW w \in Workers, ProcessRow(w) \/ ProcessFault(w) \/ RowDone(w)
      PROVE  ServiceNext
  BY <1>2 DEF ProcessRow, ProcessFault, RowDone, ServiceNext
<1>3. ASSUME NEW w \in Workers,
             \/ BeginListing(w) \/ NextRow(w) \/ LookupFrom(w) \/ AbandonRow(w)
             \/ EndListing(w)
      PROVE  UNCHANGED vars
  BY <1>3 DEF BeginListing, NextRow, LookupFrom, AbandonRow, EndListing
<1>4. ASSUME NEW n \in Numbers, NEW b \in Deposits, NEW c \in Currencies,
             InsertAccount(n, b, c)
      PROVE  ServiceNext
  BY <1>4 DEF InsertAccount, ServiceNext
<1>5. ASSUME NEW t \in Transactions, PutTransaction(t)
      PROVE  UNCHANGED vars
  BY <1>5 DEF PutTransaction
<1>6. CASE UNCHANGED listingVars
  BY <1>6 DEF listingVars
<1> QED BY <1>1, <1>2, <1>3, <1>4, <1>5, <1>6 DEF ListingNext, ListingStep

(* A listing's step leaves other listings alone.                           *)
LEMMA OtherListings ==
    ASSUME ListingInv, NEW w \in Workers, ListsFor(w), NEW v \in Workers \ {w}
    PROVE  /\ phase'[v] = phase[v] /\ rows'[v] = rows[v] /\ row'[v] = row[v]
           /\ pc'[v] = pc[v] /\ tx'[v] = tx[v]
<1> USE DEF ListingInv, ListingTypes
<1>1. phase'[v] = phase[v] /\ rows'[v] = rows[v] /\ row'[v] = row[v]
  BY DEF ListsFor, ListingStep, BeginListing, NextRow, LookupFrom, LookupTo,
         AbandonRow, ProcessRow, ProcessFault, RowDone, EndListing, LeaveRow,
         Proceed, listingLocals
<1>2. CASE ProcessRow(w) \/ ProcessFault(w) \/ RowDone(w) \/ LookupTo(w)
  <2>1. \/ Advance(w) \/ Fail(w) \/ Return(w)
        \/ \E t \in Transactions : BeginTransact(w, t)
    BY <1>2 DEF ProcessRow, ProcessFault, RowDone, LookupTo, ListingFits
  <2> QED BY <1>1, <2>1, OthersUntouched DEF TypeInv
<1>3. CASE \/ BeginListing(w) \/ NextRow(w) \/ LookupFrom(w) \/ AbandonRow(w)
           \/ EndListing(w)
  BY <1>1, <1>3 DEF BeginListing, NextRow, LookupFrom, AbandonRow, EndListing, vars,
                    locals
<1> QED BY <1>2, <1>3 DEF ListsFor, ListingStep

-----------------------------------------------------------------------------
(* A page has only rows of the join: of stored transactions between two    *)
(* accounts.                                                               *)
LEMMA PageRows ==
    ASSUME NEW page \in Page
    PROVE  /\ page \in [Transactions -> 0..2]
           /\ \A t \in Transactions : page[t] > 0 => t \in stored /\ t.from # t.to
<1>1. page \in [Transactions -> 0..2] /\ \A t \in Transactions : page[t] =< JoinRows(t)
  BY DEF Page
<1>2. ASSUME NEW t \in Transactions, page[t] > 0
      PROVE  t \in stored /\ t.from # t.to
  <2>1. page[t] \in 0..2 /\ page[t] =< JoinRows(t)
    BY <1>1
  <2>2. JoinRows(t) # 0
    BY <1>2, <2>1
  <2> QED BY <2>2 DEF JoinRows
<1> QED BY <1>1, <1>2

(* What is stored stays stored.                                            *)
LEMMA StoredGrows ==
    ASSUME ListingInv, [ListingNext]_listingVars
    PROVE  stored \subseteq stored' /\ stored' \subseteq Transactions
<1>1. ASSUME NEW t \in Transactions, PutTransaction(t)
      PROVE  stored \subseteq stored' /\ stored' \subseteq Transactions
  BY <1>1, ListingAssumption DEF PutTransaction, ListingInv, ListingTypes
<1>2. ASSUME stored' = stored
      PROVE  stored \subseteq stored' /\ stored' \subseteq Transactions
  BY <1>2 DEF ListingInv, ListingTypes
<1> QED BY <1>1, <1>2
        DEF ListingNext, InsertAccount, BeginListing, ListingStep, NextRow, LookupFrom,
            LookupTo, AbandonRow, ProcessRow, ProcessFault, RowDone, EndListing,
            LeaveRow, listingVars

(* A listing's step leaves the pages and the pool well typed.              *)
LEMMA ListingTypesStep ==
    ASSUME ListingInv, NEW w \in Workers, ListsFor(w)
    PROVE  ListingTypes'
<1> USE DEF ListingInv, ListingTypes, Phases
<1>1. CASE BeginListing(w)
  <2>1. PICK page \in Page : rows' = [rows EXCEPT ![w] = page]
    BY <1>1 DEF BeginListing
  <2>2. rows' \in [Workers -> [Transactions -> 0..2]]
    BY <2>1, PageRows
  <2> QED BY <1>1, <2>2 DEF BeginListing, Proceed
<1>2. CASE NextRow(w)
  <2>1. PICK t \in Transactions : /\ rows[w][t] > 0
                                  /\ rows' = [rows EXCEPT ![w][t] = @ - 1]
                                  /\ row' = [row EXCEPT ![w] = t]
    BY <1>2 DEF NextRow
  <2>2. rows[w][t] - 1 \in 0..2
    BY <2>1
  <2>3. rows' \in [Workers -> [Transactions -> 0..2]]
    BY <2>1, <2>2
  <2>4. row' \in [Workers -> Transactions \union {NoTransaction}]
    BY <2>1
  <2> QED BY <1>2, <2>3, <2>4 DEF NextRow, Proceed
<1>3. CASE LookupFrom(w) \/ LookupTo(w) \/ EndListing(w)
  BY <1>3 DEF LookupFrom, LookupTo, EndListing, Proceed
<1>4. CASE AbandonRow(w) \/ RowDone(w)
  BY <1>4 DEF AbandonRow, RowDone, LeaveRow, Proceed
<1>5. CASE ProcessRow(w) \/ ProcessFault(w)
  BY <1>5 DEF ProcessRow, ProcessFault, listingLocals
<1> QED BY <1>1, <1>2, <1>3, <1>4, <1>5 DEF ListsFor, ListingStep

(* A listing's step leaves it with the rows and the call its next phase    *)
(* needs.                                                                  *)
LEMMA OwnListingFits ==
    ASSUME ListingInv, NEW w \in Workers, ListsFor(w)
    PROVE  ListingFits(w)'
<1> USE DEF ListingInv, ListingTypes, ListingFits, IsActive
<1>1. CASE BeginListing(w)
  <2>1. PICK page \in Page : rows' = [rows EXCEPT ![w] = page]
    BY <1>1 DEF BeginListing
  <2>2. rows'[w] = page
    BY <2>1
  <2> QED BY <1>1, <2>2, PageRows DEF BeginListing, Proceed, vars, locals
<1>2. CASE NextRow(w)
  <2>1. PICK t \in Transactions : /\ rows[w][t] > 0
                                  /\ rows' = [rows EXCEPT ![w][t] = @ - 1]
                                  /\ row' = [row EXCEPT ![w] = t]
    BY <1>2 DEF NextRow
  <2>2. row'[w] = t /\ t \in stored /\ t.from # t.to
    BY <2>1
  <2>3. ASSUME NEW s \in Transactions, rows'[w][s] > 0
        PROVE  rows[w][s] > 0
    <3>1. rows[w][s] \in 0..2
      OBVIOUS
    <3>2. CASE s = t
      BY <2>1, <3>2
    <3>3. CASE s # t
      BY <2>1, <2>3, <3>3
    <3> QED BY <3>2, <3>3
  <2> QED BY <1>2, <2>2, <2>3 DEF NextRow, Proceed, vars, locals
<1>3. CASE LookupFrom(w) \/ EndListing(w)
  BY <1>3 DEF LookupFrom, EndListing, Proceed, vars, locals
<1>4. CASE LookupTo(w)
  BY <1>4 DEF LookupTo, BeginTransact, Proceed, TypeInv, TypeOK
<1>5. CASE AbandonRow(w)
  BY <1>5 DEF AbandonRow, LeaveRow, Proceed, vars, locals
<1>6. CASE RowDone(w)
  <2>1. pc'[w] = "idle"
    BY <1>6 DEF RowDone, Return, Goto, TypeInv, TypeOK
  <2> QED BY <1>6, <2>1 DEF RowDone, LeaveRow, Proceed
<1>7. CASE ProcessRow(w) \/ ProcessFault(w)
  <2>1. pc[w] # "idle" /\ pc'[w] # "idle" /\ tx'[w] = tx[w]
    BY <1>7 DEF ProcessRow, ProcessFault, Advance, Reject, Execute, Skip, ReadFrom,
                ReadTo, UpdateFrom, UpdateTo, Fail, ReadFails, UpdateFails, AckLost,
                NextElement, Goto, locals, TypeInv, TypeOK
  <2> QED BY <1>7, <2>1 DEF ProcessRow, ProcessFault, listingLocals
<1> QED BY <1>1, <1>2, <1>3, <1>4, <1>5, <1>6, <1>7 DEF ListsFor, ListingStep

-----------------------------------------------------------------------------
(* A pool has at least one connection.                                     *)
LEMMA PoolSizes == PoolSize \in Nat \ {0}
  BY ListingAssumption, Zenon

(* A connection is taken and given back with each listing.                 *)
LEMMA PoolStep ==
    ASSUME ListingInv, NEW w \in Workers, ListsFor(w)
    PROVE  PoolInv'
<1> USE DEF ListingInv, ListingTypes, PoolInv
<1>1. CASE BeginListing(w)
  <2>1. w \notin Busy /\ Busy' = Busy \union {w}
    BY <1>1 DEF BeginListing, Proceed, Busy
  <2>2. IsFiniteSet(Busy') /\ Cardinality(Busy') = Cardinality(Busy) + 1
    BY <2>1, FS_AddElement
  <2>3. Cardinality(Busy) \in Nat
    BY FS_CardinalityType
  <2>4. inUse' = inUse + 1 /\ inUse < PoolSize
    BY <1>1 DEF BeginListing, FreeConnection
  <2> QED BY <2>2, <2>3, <2>4, PoolSizes
<1>2. CASE EndListing(w)
  <2>1. w \in Busy /\ Busy' = Busy \ {w}
    BY <1>2 DEF EndListing, Proceed, Busy
  <2>2. IsFiniteSet(Busy') /\ Cardinality(Busy') = Cardinality(Busy) - 1
    BY <2>1, FS_RemoveElement
  <2>3. Cardinality(Busy) \in Nat
    BY FS_CardinalityType
  <2>4. inUse' = inUse - 1
    BY <1>2 DEF EndListing
  <2> QED BY <2>2, <2>3, <2>4, PoolSizes
<1>3. CASE \/ NextRow(w) \/ LookupFrom(w) \/ LookupTo(w) \/ AbandonRow(w)
           \/ ProcessRow(w) \/ ProcessFault(w) \/ RowDone(w)
  <2>1. phase[w] # "idle" /\ phase'[w] # "idle" /\ inUse' = inUse
    BY <1>3 DEF NextRow, LookupFrom, LookupTo, AbandonRow, ProcessRow, ProcessFault,
                RowDone, LeaveRow, Proceed, listingLocals
  <2>2. Busy' = Busy
    BY <1>3, <2>1, OtherListings DEF Busy, ListsFor, ListingStep
  <2> QED BY <2>1, <2>2
<1> QED BY <1>1, <1>2, <1>3 DEF ListsFor, ListingStep

(* At first no listing is in progress and every connection is free.        *)
LEMMA ListingInit0 == ListingInit => ListingInv
<1> SUFFICES ASSUME ListingInit
             PROVE  ListingInv
  OBVIOUS
<1>1. TypeInv
  BY TypeInit DEF ListingInit
<1>2. ListingTypes
  BY DEF ListingInit, ListingTypes, NoRows, Phases
<1>3. ASSUME NEW w \in Workers
      PROVE  ListingFits(w)
  BY DEF ListingInit, Init, ListingFits, NoRows, IsActive
<1>4. Busy = {}
  BY DEF ListingInit, Busy
<1>5. IsFiniteSet(Busy) /\ Cardinality(Busy) = 0
  BY <1>4, FS_EmptySet
<1>6. PoolInv
  BY <1>5, PoolSizes DEF PoolInv, ListingInit
<1> QED BY <1>1, <1>2, <1>3, <1>6 DEF ListingInv

(* Every step leaves listings that fit their phase and a pool that adds    *)
(* up.                                                                     *)
LEMMA ListingInvStep ==
    ListingInv /\ [ListingNext]_listingVars => ListingInv'
<1> SUFFICES ASSUME ListingInv, [ListingNext]_listingVars
             PROVE  ListingInv'
  OBVIOUS
<1>1. TypeInv'
  BY ListingIsService, TypeStep DEF ListingInv
<1>2. ASSUME NEW w \in Workers, ListsFor(w)
      PROVE  ListingTypes' /\ PoolInv' /\ \A v \in Workers : ListingFits(v)'
  <2>1. stored \subseteq stored'
    BY <1>2, StoredGrows DEF ListsFor, ListingNext
  <2>2. ASSUME NEW v \in Workers \ {w}
        PROVE  ListingFits(v)'
    BY <1>2, <2>1, OtherListings DEF ListingInv, ListingFits, IsActive
  <2> QED BY <1>2, <2>2, ListingTypesStep, PoolStep, OwnListingFits
<1>3. ASSUME UNCHANGED <<inUse, phase, rows, row, pc, tx>>
      PROVE  ListingTypes' /\ PoolInv' /\ \A v \in Workers : ListingFits(v)'
  <2>1. stored \subseteq stored' /\ stored' \subseteq Transactions
    BY StoredGrows
  <2> QED BY <1>3, <2>1 DEF ListingInv, ListingTypes, PoolInv, Busy, ListingFits,
                            IsActive
<1>4. ASSUME \/ \E n \in Numbers, b \in Deposits, c \in Currencies : InsertAccount(n, b, c)
             \/ \E t \in Transactions : PutTransaction(t)
             \/ UNCHANGED listingVars
      PROVE  UNCHANGED <<inUse, phase, rows, row, pc, tx>>
  BY <1>4 DEF InsertAccount, PutAccount, PutTransaction, listingVars, listingLocals,
              vars, locals
<1> QED BY <1>1, <1>2, <1>3, <1>4 DEF ListingNext, ListsFor, ListingInv

(* So it is in every reachable state.                                      *)
LEMMA ListingTyping == ListingSpec => []ListingInv
  BY ListingInit0, ListingInvStep, PTL DEF ListingSpec

-----------------------------------------------------------------------------
(* Connections are held by listings in progress, one each, and never more  *)
(* than the pool has; a listing processes only rows that are stored.       *)
THEOREM ListingTypeCorrect == ListingSpec => []ListingTypeOK
<1>1. ListingInv => ListingTypeOK
  BY DEF ListingInv, ListingTypes, ListingFits, PoolInv, Busy, ListingTypeOK, TypeInv
<1> QED BY <1>1, ListingTyping, PTL

(* A stored transfer from an account to itself, which the service would    *)
(* take for one to execute, never reaches it from a listing.               *)
THEOREM SelfTransfersStayOut == ListingSpec => []SelfTransfersFiltered
<1>1. ListingInv => SelfTransfersFiltered
  BY DEF ListingInv, ListingFits, SelfTransfersFiltered
<1> QED BY <1>1, ListingTyping, PTL

(* Listings that process the same stored transfers at once keep the        *)
(* accounts: no overdraft, one currency, one debit and one credit for each *)
(* row that is executed.                                                   *)
THEOREM ListingsKeepAccounts ==
    ListingSpec => [](BalancesNonNegative /\ SameCurrency /\ AppliedOnce)
<1>1. ListingSpec => ServiceSpec
  <2>1. ListingInit => Init
    BY DEF ListingInit
  <2> QED BY <2>1, ListingIsService, ListingTyping, PTL DEF ListingSpec, ServiceSpec
<1> QED BY <1>1, ServiceInvariant, ServiceFollows, PTL
=============================================================================
