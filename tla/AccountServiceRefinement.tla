---------------------- MODULE AccountServiceRefinement ----------------------
(***************************************************************************)
(* Callers who keep out of each other's way see a ledger: AccountService   *)
(* implements Ledger, for every set of workers, accounts and transactions, *)
(* as long as no two calls in progress share an account and no transfer is *)
(* from an account to itself.                                              *)
(*                                                                         *)
(* Under that hypothesis what a call has read stays the table's value      *)
(* until the call writes it (ReadsStayCurrent), so the two UPDATEs with    *)
(* their absolute values amount to one move of the money, made when the    *)
(* second of them commits.                                                 *)
(***************************************************************************)
EXTENDS AccountServiceProofs

USE ConstantsAssumption, MarksAssumption

(* No two calls in progress share an account. *)
Disjoint ==
    \A v, w \in Workers :
        v # w /\ IsActive(v) /\ IsActive(w)
            => Parties(tx[v]) \cap Parties(tx[w]) = {}

NoSelfTransfers == \A t \in Transactions : t.from # t.to

Even(v) == v % 2 = 0

(* A column keeps whole units. *)
BalancesEven == \A n \in Numbers : IsOpen(n) => Even(accounts[n].balance)

(* What a call has computed is still right; once the debit is written, the *)
(* value computed for it came from a stored balance.                       *)
OneCurrent(w) ==
    /\ pc[w] \in InBranch => tx[w].type # 0
    /\ pc[w] \in {"readTo", "updateFrom"} =>
          newFrom[w] = accounts[tx[w].from].balance - tx[w].amount
    /\ pc[w] \in {"updateFrom", "updateTo"} /\ tx[w].from # tx[w].to =>
          newTo[w] = accounts[tx[w].to].balance + tx[w].amount
    /\ pc[w] = "updateTo" =>
          /\ Stored(newFrom[w]) = accounts[tx[w].from].balance
          /\ Even(newFrom[w] + tx[w].amount)

CurrentInv == BalancesEven /\ \A w \in Workers : OneCurrent(w)

-----------------------------------------------------------------------------
(* Rounding: a column changes no whole amount, and of a fraction it takes  *)
(* nothing and yet brings a whole unit.                                    *)
LEMMA Rounding ==
    ASSUME NEW b \in Int, NEW a \in Int, Even(b)
    PROVE  /\ Stored(b) = b
           /\ Even(Stored(a)) /\ Stored(a) \in Int /\ Taken(a) \in Int
           /\ Stored(b - a) = b - Taken(a)
           /\ Stored(b + a) = b + Stored(a)
  BY DEF Even, Stored, Taken

(* What a column keeps is whole.                                           *)
LEMMA StoredEven ==
    ASSUME NEW v \in Int
    PROVE  Even(Stored(v))
  BY DEF Even, Stored

(* The balances after an UPDATE.                                           *)
LEMMA BalanceUpdate ==
    ASSUME TypeOK, NEW n \in Numbers, IsOpen(n), NEW b \in Int,
           NEW s \in Statuses, UpdateAccount(n, b, s)
    PROVE  /\ accounts'[n].balance = Stored(b)
           /\ accounts'[n].currency = accounts[n].currency
           /\ IsOpen(n)'
           /\ \A m \in Numbers \ {n} : accounts'[m] = accounts[m]
<1>1. /\ accounts'[n] = [balance |-> Stored(b), status |-> s,
                         currency |-> accounts[n].currency]
      /\ accounts'[n] \in Rows
      /\ \A m \in Numbers \ {n} : accounts'[m] = accounts[m]
  BY RowUpdate
<1> QED BY <1>1 DEF IsOpen

(* In either branch the source is debited and the destination credited.    *)
LEMMA BranchSigns ==
    ASSUME NEW b \in Int, NEW t \in TransactionRecords, t.type # 0
    PROVE  Debited(b, t) = b - t.amount /\ Credited(b, t) = b + t.amount
<1>1. t.amount \in Nat /\ t.type \in {-1, 0, 1}
  BY DEF TransactionRecords
<1>2. CASE t.type = 1
  BY <1>1, <1>2 DEF Debited, Credited, IsCredit
<1>3. CASE t.type = -1
  BY <1>1, <1>3 DEF Debited, Credited, IsCredit
<1> QED BY <1>1, <1>2, <1>3

(* A worker's step leaves alone the balances of other calls' accounts.     *)
LEMMA OthersRows ==
    ASSUME ServiceInv, Disjoint, NEW w \in Workers,
           \/ Advance(w) \/ Fail(w) \/ Return(w)
           \/ \E t \in Transactions : BeginTransact(w, t),
           NEW v \in Workers \ {w}, IsActive(v), NEW n \in Parties(tx[v])
    PROVE  accounts'[n] = accounts[n]
<1> USE DEF ServiceInv, TypeInv
<1>1. n \in Numbers
  BY ActiveCall DEF Parties
<1>2. ASSUME NEW m \in Numbers, NEW b \in Int, NEW s \in Statuses, IsActive(w),
             m \in Parties(tx[w]), UpdateAccount(m, b, s)
      PROVE  accounts'[n] = accounts[n]
  <2>1. n # m
    BY <1>2 DEF Disjoint
  <2>2. IsOpen(m)
    BY <1>2, ActiveCall DEF Parties
  <2> QED BY <1>1, <1>2, <2>1, <2>2, RowUpdate
<1>3. CASE UpdateFrom(w) \/ UpdateTo(w) \/ AckLost(w)
  <2>1. IsActive(w)
    BY <1>3 DEF UpdateFrom, UpdateTo, AckLost, IsActive
  <2>2. /\ newFrom[w] \in Int /\ newTo[w] \in Int
        /\ Outgoing \in Statuses /\ Incoming \in Statuses
    BY DEF TypeOK, Statuses
  <2>3. /\ tx[w].from \in Numbers /\ tx[w].to \in Numbers
        /\ tx[w].from \in Parties(tx[w]) /\ tx[w].to \in Parties(tx[w])
    BY <2>1, ActiveCall DEF Parties
  <2> QED BY <1>2, <1>3, <2>1, <2>2, <2>3 DEF UpdateFrom, UpdateTo, AckLost
<1>4. CASE UNCHANGED accounts
  BY <1>4
<1> QED BY <1>3, <1>4 DEF Advance, Fail, Reject, Execute, Skip, ReadFrom, ReadTo,
                         ReadFails, UpdateFails, Return, BeginTransact

-----------------------------------------------------------------------------
(* Nothing has been computed yet. *)
LEMMA CurrentInit == Init => CurrentInv /\ Disjoint
  BY DEF Init, CurrentInv, BalancesEven, OneCurrent, Disjoint, IsOpen, IsActive,
         InBranch

(* Balances stay whole: all of them are written through the column.        *)
LEMMA EvenStep ==
    ASSUME ServiceInv, BalancesEven, [ServiceNext]_vars
    PROVE  BalancesEven'
<1> USE DEF ServiceInv, TypeInv
<1>1. ASSUME NEW n \in Numbers, NEW b \in Int, NEW s \in Statuses, IsOpen(n),
             UpdateAccount(n, b, s)
      PROVE  BalancesEven'
  <2>1. /\ accounts'[n].balance = Stored(b)
        /\ \A m \in Numbers \ {n} : accounts'[m] = accounts[m]
    BY <1>1, BalanceUpdate
  <2>2. Even(Stored(b))
    BY StoredEven
  <2> QED BY <2>1, <2>2 DEF BalancesEven, IsOpen
<1>2. ASSUME NEW w \in Workers, UpdateFrom(w) \/ UpdateTo(w) \/ AckLost(w)
      PROVE  BalancesEven'
  <2>1. IsActive(w)
    BY <1>2 DEF UpdateFrom, UpdateTo, AckLost, IsActive
  <2>2. /\ newFrom[w] \in Int /\ newTo[w] \in Int
        /\ Outgoing \in Statuses /\ Incoming \in Statuses
    BY DEF TypeOK, Statuses
  <2> QED BY <1>1, <1>2, <2>1, <2>2, ActiveCall DEF UpdateFrom, UpdateTo, AckLost
<1>3. ASSUME UNCHANGED accounts
      PROVE  BalancesEven'
  BY <1>3 DEF BalancesEven, IsOpen
<1>4. ASSUME NEW n \in Numbers, NEW b \in Deposits, NEW c \in Currencies,
             PutAccount(n, b, c)
      PROVE  BalancesEven'
  <2>1. /\ accounts'[n].balance = Stored(b)
        /\ \A m \in Numbers \ {n} : accounts'[m] = accounts[m]
    BY <1>4 DEF PutAccount, TypeOK
  <2>2. Even(Stored(b))
    <3>1. b \in Int
      BY DEF ConstantsAssumption
    <3> QED BY <3>1, StoredEven
  <2> QED BY <2>1, <2>2 DEF BalancesEven, IsOpen
<1>5. CASE MarkAccounts
  BY <1>5 DEF MarkAccounts, BalancesEven
<1>6. ASSUME NEW w \in Workers,
             \/ Advance(w) \/ Fail(w) \/ Return(w)
             \/ \E t \in Transactions : BeginTransact(w, t)
      PROVE  BalancesEven'
  BY <1>2, <1>3, <1>6
     DEF Advance, Fail, Reject, Execute, Skip, ReadFrom, ReadTo, ReadFails,
         UpdateFails, Return, BeginTransact
<1>7. CASE Crash \/ UNCHANGED vars
  BY <1>3, <1>7 DEF Crash, vars
<1> QED BY <1>4, <1>5, <1>6, <1>7 DEF ServiceNext

(* A worker's own step: the read takes the table's balance, and nothing    *)
(* else touches it before the UPDATE.                                      *)
LEMMA OwnCurrentStep ==
    ASSUME ServiceInv, BalancesEven, NEW w \in Workers, OneCurrent(w),
           \/ Advance(w) \/ Fail(w) \/ Return(w)
           \/ \E t \in Transactions : BeginTransact(w, t)
    PROVE  OneCurrent(w)'
<1> USE DEF ServiceInv, TypeInv, InBranch
<1>1. CASE \/ Reject(w) \/ Skip(w) \/ Fail(w) \/ Return(w) \/ UpdateTo(w)
           \/ \E t \in Transactions : BeginTransact(w, t)
  <2>1. pc'[w] \in {"idle", "iterate", "returned", "threw"}
    BY <1>1 DEF Reject, Skip, Fail, ReadFails, UpdateFails, AckLost, Return,
                UpdateTo, NextElement, Goto, BeginTransact, TypeOK
  <2> QED BY <2>1 DEF OneCurrent
<1>2. CASE Execute(w)
  <2>1. pc'[w] = "readFrom" /\ tx'[w] = tx[w] /\ Executes(w)
    BY <1>2 DEF Execute, Goto, locals, TypeOK
  <2> QED BY <2>1 DEF OneCurrent, Executes, IsCredit, IsDebit
<1>3. ASSUME IsActive(w)
      PROVE  /\ accounts[tx[w].from].balance \in Int
             /\ accounts[tx[w].to].balance \in Int
             /\ tx[w] \in TransactionRecords
             /\ tx[w].amount \in Nat
             /\ newFrom[w] \in Int /\ newTo[w] \in Int
             /\ Even(accounts[tx[w].from].balance)
  BY <1>3, ActiveCall DEF Rows, TypeOK, BalancesEven
<1>4. CASE ReadFrom(w)
  <2>1. pc[w] = "readFrom" /\ IsActive(w) /\ tx[w].type # 0
    BY <1>4 DEF ReadFrom, IsActive, OneCurrent
  <2>2. /\ newFrom'[w] = Debited(accounts[tx[w].from].balance, tx[w])
        /\ pc'[w] \in {"threw", "readTo"}
        /\ accounts' = accounts /\ tx' = tx
    BY <1>4 DEF ReadFrom, Goto, TypeOK
  <2>3. newFrom'[w] = accounts[tx[w].from].balance - tx[w].amount
    BY <1>3, <2>1, <2>2, BranchSigns
  <2> QED BY <2>1, <2>2, <2>3 DEF OneCurrent
<1>5. CASE ReadTo(w)
  <2>1. pc[w] = "readTo" /\ IsActive(w) /\ tx[w].type # 0
    BY <1>5 DEF ReadTo, IsActive, OneCurrent
  <2>2. /\ newTo'[w] = Credited(accounts[tx[w].to].balance, tx[w])
        /\ pc'[w] \in {"threw", "updateFrom"}
        /\ accounts' = accounts /\ tx' = tx /\ newFrom' = newFrom
    BY <1>5 DEF ReadTo, Goto, TypeOK
  <2>3. newTo'[w] = accounts[tx[w].to].balance + tx[w].amount
    BY <1>3, <2>1, <2>2, BranchSigns
  <2> QED BY <2>1, <2>2, <2>3 DEF OneCurrent
<1>6. CASE UpdateFrom(w)
  <2>1. pc[w] = "updateFrom" /\ IsActive(w) /\ Outgoing \in Statuses
    BY <1>6 DEF UpdateFrom, IsActive, Statuses
  <2>2. /\ accounts'[tx[w].from].balance = Stored(newFrom[w])
        /\ \A m \in Numbers \ {tx[w].from} : accounts'[m] = accounts[m]
    <3>1. tx[w].from \in Numbers /\ IsOpen(tx[w].from)
      BY <2>1, ActiveCall
    <3>2. newFrom[w] \in Int /\ UpdateAccount(tx[w].from, newFrom[w], Outgoing)
      BY <1>3, <1>6, <2>1 DEF UpdateFrom
    <3> QED BY <2>1, <3>1, <3>2, BalanceUpdate
  <2>3. pc'[w] = "updateTo" /\ UNCHANGED <<tx, newFrom, newTo>>
    BY <1>6 DEF UpdateFrom, Goto, TypeOK
  <2>4. Even(newFrom[w] + tx[w].amount)
    BY <1>3, <2>1 DEF OneCurrent, Even
  <2>5. tx[w].from # tx[w].to =>
            newTo[w] = accounts'[tx[w].to].balance + tx[w].amount
    BY <2>1, <2>2, ActiveCall DEF OneCurrent
  <2> QED BY <2>1, <2>2, <2>3, <2>4, <2>5 DEF OneCurrent
<1> QED BY <1>1, <1>2, <1>4, <1>5, <1>6 DEF Advance

(* What a call computed stays right: its own steps keep it so, and the     *)
(* steps of the others are about other accounts.                           *)
LEMMA CurrentStep ==
    ASSUME ServiceInv, CurrentInv, Disjoint, [ServiceNext]_vars
    PROVE  CurrentInv'
<1> USE DEF ServiceInv, TypeInv
<1>1. BalancesEven'
  BY EvenStep DEF CurrentInv
<1>2. ASSUME NEW v \in Workers, OneCurrent(v),
             UNCHANGED <<pc[v], tx[v], newFrom[v], newTo[v]>>,
             IsActive(v) => \A n \in Parties(tx[v]) :
                               accounts'[n].balance = accounts[n].balance
      PROVE  OneCurrent(v)'
  BY <1>2 DEF OneCurrent, InBranch, IsActive, Parties
<1>3. ASSUME NEW w \in Workers,
             \/ Advance(w) \/ Fail(w) \/ Return(w)
             \/ \E t \in Transactions : BeginTransact(w, t)
      PROVE  \A v \in Workers : OneCurrent(v)'
  <2> SUFFICES ASSUME NEW v \in Workers
               PROVE  OneCurrent(v)'
    OBVIOUS
  <2>1. CASE v = w
    BY <1>3, <2>1, OwnCurrentStep DEF CurrentInv
  <2>2. CASE v # w
    BY <1>2, <1>3, <2>2, OthersUntouched, OthersRows DEF CurrentInv
  <2> QED BY <2>1, <2>2
<1>4. ASSUME UNCHANGED <<pc, locals>>,
             \A n \in Numbers : IsOpen(n) => accounts'[n].balance = accounts[n].balance
      PROVE  \A v \in Workers : OneCurrent(v)'
  BY <1>2, <1>4, ActiveCall DEF CurrentInv, locals, Parties
<1>5. CASE MarkAccounts
  BY <1>1, <1>4, <1>5 DEF MarkAccounts, CurrentInv
<1>6. ASSUME NEW n \in Numbers, NEW b \in Deposits, NEW c \in Currencies,
             PutAccount(n, b, c)
      PROVE  \A v \in Workers : OneCurrent(v)'
  BY <1>4, <1>6 DEF PutAccount, TypeOK
<1>7. CASE Crash
  BY <1>1, <1>7 DEF Crash, CurrentInv, OneCurrent, InBranch
<1>8. CASE UNCHANGED vars
  BY <1>1, <1>4, <1>8 DEF vars, CurrentInv
<1> QED BY <1>1, <1>3, <1>5, <1>6, <1>7, <1>8 DEF ServiceNext, CurrentInv

(* The invariant says what the property says.                              *)
LEMMA CurrentFollows == CurrentInv => ReadsStayCurrent
  BY DEF CurrentInv, OneCurrent, ReadsStayCurrent

(* Callers who only call for accounts no call in progress uses stay        *)
(* disjoint.                                                               *)
LEMMA DisjointStep ==
    ASSUME Isolated, TypeInv, Disjoint, [Next]_vars
    PROVE  Disjoint'
<1> USE DEF TypeInv
<1>1. ASSUME \A v \in Workers :
                IsActive(v)' => IsActive(v) /\ tx'[v] = tx[v]
      PROVE  Disjoint'
  BY <1>1 DEF Disjoint
<1>2. ASSUME NEW w \in Workers, Advance(w) \/ Fail(w)
      PROVE  Disjoint'
  <2>1. IsActive(w) /\ tx'[w] = tx[w]
    BY <1>2 DEF Advance, Fail, Reject, Execute, Skip, ReadFrom, ReadTo,
                UpdateFrom, UpdateTo, ReadFails, UpdateFails, AckLost, IsActive,
                locals
  <2> QED BY <1>1, <1>2, <2>1, OthersUntouched DEF IsActive
<1>3. ASSUME NEW w \in Workers, Return(w)
      PROVE  Disjoint'
  <2>1. ~IsActive(w)'
    BY <1>3 DEF Return, Goto, IsActive, TypeOK
  <2> QED BY <1>1, <1>3, <2>1, OthersUntouched DEF IsActive
<1>4. ASSUME NEW w \in Workers, NEW t \in Transactions, Call(w, t)
      PROVE  Disjoint'
  <2>1. /\ tx'[w] = t
        /\ \A v \in Workers \ {w} : pc'[v] = pc[v] /\ tx'[v] = tx[v]
        /\ \A v \in Workers : IsActive(v) => Parties(t) \cap Parties(tx[v]) = {}
    BY <1>4 DEF Call, BeginTransact, TypeOK
  <2> QED BY <2>1 DEF Disjoint, IsActive
<1>5. CASE \E n \in Numbers, b \in Deposits, c \in Currencies : PutAccount(n, b, c)
  BY <1>1, <1>5 DEF PutAccount, locals, IsActive
<1>6. CASE Crash
  BY <1>6 DEF Crash, Disjoint, IsActive
<1>7. CASE UNCHANGED vars
  BY <1>1, <1>7 DEF vars, locals, IsActive
<1> QED BY <1>2, <1>3, <1>4, <1>5, <1>6, <1>7 DEF Next

(* Whoever calls: while calls in progress share no account, what a call    *)
(* has read stays current.                                                 *)
LEMMA ServiceReadsCurrent == ServiceSpec /\ []Disjoint => []ReadsStayCurrent
<1>1. Init => ServiceInv /\ CurrentInv
  BY ServiceInit, CurrentInit
<1>2. /\ ServiceInv /\ CurrentInv /\ Disjoint /\ [ServiceNext]_vars
      => ServiceInv' /\ CurrentInv'
  BY ServiceStep, CurrentStep
<1> QED BY <1>1, <1>2, CurrentFollows, PTL DEF ServiceSpec

(* Callers who keep to accounts of their own.                              *)
LEMMA CallersStayDisjoint ==
    ASSUME Isolated
    PROVE  Spec => []Disjoint
<1>1. Init => TypeInv /\ Disjoint
  BY TypeInit, CurrentInit
<1>2. TypeInv /\ Disjoint /\ [Next]_vars => TypeInv' /\ Disjoint'
  BY NextIsService, TypeStep, DisjointStep
<1> QED BY <1>1, <1>2, PTL DEF Spec

(* Without locks, and with two SELECTs and two UPDATEs that others' fall   *)
(* between, a call writes values computed from what the table still says,  *)
(* as long as callers keep to accounts of their own.                       *)
THEOREM ReadsCurrent == Spec => []ReadsStayCurrent
<1>1. CASE Isolated
  BY <1>1, CallersStayDisjoint, SpecIsService, ServiceReadsCurrent, PTL
<1>2. CASE ~Isolated
  <2>1. ReadsStayCurrent
    BY <1>2 DEF ReadsStayCurrent
  <2> QED BY <2>1, PTL
<1> QED BY <1>1, <1>2

-----------------------------------------------------------------------------
(* Between the two UPDATEs of a call its debit is in flight, and only its. *)
InFlightKnown ==
    \A n \in Numbers :
        /\ \A w \in Workers :
              pc[w] = "updateTo" /\ tx[w].from = n
                  => InFlight(n) = Taken(tx[w].amount)
        /\ (\A w \in Workers : ~(pc[w] = "updateTo" /\ tx[w].from = n))
              => InFlight(n) = 0

(* Among disjoint calls an account has one debit in flight at most, so     *)
(* that the chosen one is the only one.                                    *)
LEMMA InFlightOf == Disjoint => InFlightKnown
<1> SUFFICES ASSUME Disjoint, NEW n \in Numbers
             PROVE  /\ \A w \in Workers :
                          pc[w] = "updateTo" /\ tx[w].from = n
                              => InFlight(n) = Taken(tx[w].amount)
                    /\ (\A w \in Workers : ~(pc[w] = "updateTo" /\ tx[w].from = n))
                          => InFlight(n) = 0
  BY DEF InFlightKnown
<1>1. ASSUME NEW w \in Workers, pc[w] = "updateTo", tx[w].from = n
      PROVE  InFlight(n) = Taken(tx[w].amount)
  <2> DEFINE u == CHOOSE v \in Workers : pc[v] = "updateTo" /\ tx[v].from = n
  <2>1. u \in Workers /\ pc[u] = "updateTo" /\ tx[u].from = n
    BY <1>1
  <2>2. u = w
    BY <1>1, <2>1 DEF Disjoint, IsActive, Parties
  <2> QED BY <1>1, <2>2 DEF InFlight
<1>2. ASSUME \A w \in Workers : ~(pc[w] = "updateTo" /\ tx[w].from = n)
      PROVE  InFlight(n) = 0
  BY <1>2 DEF InFlight
<1> QED BY <1>1, <1>2

(* The same after a step.                                                  *)
LEMMA InFlightNext == Disjoint' => InFlightKnown'
  BY InFlightOf, PTL

(* A debit stays in flight, or out of it, where the calls at their second  *)
(* UPDATE stay the same.                                                   *)
LEMMA InFlightFrame ==
    ASSUME Disjoint, Disjoint', NEW n \in Numbers,
           \A w \in Workers :
              tx[w].from = n \/ tx'[w].from = n =>
                  /\ pc[w] = "updateTo" <=> pc'[w] = "updateTo"
                  /\ pc[w] = "updateTo" => tx'[w] = tx[w]
    PROVE  InFlight(n)' = InFlight(n)
<1>1. InFlightKnown /\ InFlightKnown'
  BY InFlightOf, InFlightNext
<1>2. CASE \E w \in Workers : pc[w] = "updateTo" /\ tx[w].from = n
  BY <1>1, <1>2 DEF InFlightKnown
<1>3. CASE \A w \in Workers : ~(pc[w] = "updateTo" /\ tx[w].from = n)
  BY <1>1, <1>3 DEF InFlightKnown
<1> QED BY <1>2, <1>3

-----------------------------------------------------------------------------
(* The refinement mapping. *)
Book == [n \in Numbers |-> BookEntry(n)]

(* The ledger rounds as the columns do.                                    *)
LEMMA LedgerMoney ==
    \A v : Promise!Stored(v) = Stored(v) /\ Promise!Taken(v) = Taken(v)
  BY DEF Promise!Stored, Promise!Taken, Stored, Taken

(* What the book says of a number.                                         *)
LEMMA EntryOf ==
    \A n \in Numbers :
        /\ ~IsOpen(n) => Book[n] = NoAccount
        /\ IsOpen(n) => Book[n] = [balance |-> accounts[n].balance + InFlight(n),
                                   currency |-> accounts[n].currency]
  BY DEF Book, BookEntry

(* The book has an entry for an open account.                              *)
LEMMA OpenEntry ==
    ASSUME TypeOK, NEW n \in Numbers, IsOpen(n)
    PROVE  Book[n] # NoAccount
<1>1. accounts[n] \in Rows /\ InFlight(n) \in Int
  <2>1. \A t \in Transactions : t.amount \in Nat
    BY DEF ConstantsAssumption, TransactionRecords
  <2>2. \A v \in Nat : Taken(v) \in Int
    BY DEF Taken
  <2> DEFINE u == CHOOSE w \in Workers : pc[w] = "updateTo" /\ tx[w].from = n
  <2>3. CASE \E w \in Workers : pc[w] = "updateTo" /\ tx[w].from = n
    <3>1. u \in Workers /\ pc[u] = "updateTo" /\ tx[u].from = n
      BY <2>3
    <3>2. tx[u] \in Transactions
      BY <3>1 DEF TypeOK, IsActive
    <3>3. InFlight(n) = Taken(tx[u].amount)
      BY <2>3 DEF InFlight
    <3> QED BY <2>1, <2>2, <3>2, <3>3 DEF TypeOK, IsOpen
  <2>4. CASE ~\E w \in Workers : pc[w] = "updateTo" /\ tx[w].from = n
    BY <2>4 DEF InFlight, TypeOK, IsOpen
  <2> QED BY <2>3, <2>4
<1>2. Book[n] \in Entries
  <2>1. /\ accounts[n].balance + InFlight(n) \in Int
        /\ accounts[n].currency \in Currencies
    BY <1>1 DEF Rows
  <2>2. Book[n] = [balance |-> accounts[n].balance + InFlight(n),
                   currency |-> accounts[n].currency]
    BY EntryOf
  <2>3. [balance |-> accounts[n].balance + InFlight(n),
         currency |-> accounts[n].currency] \in Entries
    BY <2>1 DEF Entries
  <2> QED BY <2>2, <2>3
<1> QED BY <1>2

(* An entry of the book after a step.                                      *)
LEMMA EntryNext ==
    \A n \in Numbers :
        /\ ~IsOpen(n)' => Book'[n] = NoAccount
        /\ IsOpen(n)' => Book'[n] = [balance |-> accounts'[n].balance + InFlight(n)',
                                     currency |-> accounts'[n].currency]
  BY DEF Book, BookEntry, IsOpen

(* An account whose row and whose debit in flight stay the same has the    *)
(* same entry, and where all do so has the book.                           *)
LEMMA SameEntry ==
    ASSUME NEW n \in Numbers, accounts'[n] = accounts[n],
           InFlight(n)' = InFlight(n)
    PROVE  Book'[n] = Book[n]
  BY EntryOf, EntryNext DEF IsOpen

(* A book is its entries.                                                  *)
LEMMA SameBook ==
    ASSUME \A n \in Numbers : Book'[n] = Book[n]
    PROVE  Book' = Book
  BY DEF Book

(* A book in which two entries have moved.                                 *)
MovedBook(f, t, d, e) ==
    [Book EXCEPT ![f].balance = @ - d, ![t].balance = @ + e]

(* A book in which the two entries differ as they do after a transfer is   *)
(* the moved one.                                                          *)
LEMMA BookMoves ==
    ASSUME NEW f \in Numbers, NEW t \in Numbers, f # t,
           NEW x \in Int, NEW y \in Int, NEW d \in Int, NEW e \in Int,
           NEW c,
           Book[f] = [balance |-> x + d, currency |-> c],
           Book[t] = [balance |-> y, currency |-> c],
           Book'[f] = [balance |-> x, currency |-> c],
           Book'[t] = [balance |-> y + e, currency |-> c],
           \A n \in Numbers : n # f /\ n # t => Book'[n] = Book[n]
    PROVE  Book' = MovedBook(f, t, d, e)
<1> DEFINE moved == MovedBook(f, t, d, e)
<1>1. moved = [n \in Numbers |-> moved[n]] /\ Book' = [n \in Numbers |-> Book'[n]]
  BY DEF Book, MovedBook
<1>2. /\ f \in DOMAIN Book /\ t \in DOMAIN Book
      /\ DOMAIN Book = Numbers
  BY DEF Book
<1>3. moved[f] = [Book[f] EXCEPT !.balance = @ - d]
  BY <1>2 DEF MovedBook
<1>4. moved[t] = [Book[t] EXCEPT !.balance = @ + e]
  BY <1>2 DEF MovedBook
<1>5. \A n \in Numbers : n # f /\ n # t => moved[n] = Book[n]
  BY <1>2 DEF MovedBook
<1>6. x + d - d = x
  OBVIOUS
<1> HIDE DEF moved
<1>7. \A n \in Numbers : Book'[n] = moved[n]
  BY <1>3, <1>4, <1>5, <1>6
<1>8. Book' = moved
  BY <1>1, <1>7
<1> QED BY <1>8 DEF moved

(* A number nobody has an account for is in no call.                       *)
LEMMA ClosedEntry ==
    ASSUME TypeInv, NEW n \in Numbers, ~IsOpen(n)
    PROVE  \A w \in Workers : IsActive(w) => tx[w].from # n /\ tx[w].to # n
  BY DEF TypeInv, PartiesOpen, Parties

(* What holds of a call that is about to write.                            *)
LEMMA WriterFacts ==
    ASSUME NoSelfTransfers, ServiceInv, CurrentInv, NEW w \in Workers,
           pc[w] \in {"updateFrom", "updateTo"}
    PROVE  /\ tx[w] \in Transactions /\ tx[w].amount \in Nat
           /\ tx[w].from \in Numbers /\ tx[w].to \in Numbers
           /\ tx[w].from # tx[w].to
           /\ IsOpen(tx[w].from) /\ IsOpen(tx[w].to)
           /\ accounts[tx[w].from].balance \in Nat
           /\ accounts[tx[w].to].balance \in Nat
           /\ Even(accounts[tx[w].from].balance)
           /\ Even(accounts[tx[w].to].balance)
           /\ accounts[tx[w].from].currency = accounts[tx[w].to].currency
           /\ newFrom[w] \in Nat
           /\ newTo[w] = accounts[tx[w].to].balance + tx[w].amount
<1> USE DEF ServiceInv, TypeInv
<1>1. IsActive(w)
  BY DEF IsActive
<1>2. /\ tx[w] \in Transactions /\ tx[w].amount \in Nat
      /\ tx[w].from \in Numbers /\ tx[w].to \in Numbers
      /\ IsOpen(tx[w].from) /\ IsOpen(tx[w].to)
      /\ accounts[tx[w].from] \in Rows /\ accounts[tx[w].to] \in Rows
  BY <1>1, ActiveCall
<1>3. tx[w].from # tx[w].to
  BY <1>2 DEF NoSelfTransfers
<1>4. /\ accounts[tx[w].from].balance >= 0 /\ accounts[tx[w].to].balance >= 0
      /\ newFrom[w] >= 0 /\ newFrom[w] \in Int
  BY <1>2 DEF NonNegativeInv, BalancesNonNegative, WritesNonNegative, TypeOK
<1>5. /\ accounts[tx[w].from].balance \in Int
      /\ accounts[tx[w].to].balance \in Int
  BY <1>2 DEF Rows
<1>6. /\ Even(accounts[tx[w].from].balance)
      /\ Even(accounts[tx[w].to].balance)
  BY <1>2 DEF CurrentInv, BalancesEven
<1>7. accounts[tx[w].from].currency = accounts[tx[w].to].currency
  BY <1>1, <1>2 DEF CurrencyInv, UnitsTrue, Checked, CurrenciesMatch
<1>8. newTo[w] = accounts[tx[w].to].balance + tx[w].amount
  BY <1>3 DEF CurrentInv, OneCurrent
<1> QED BY <1>2, <1>3, <1>4, <1>5, <1>6, <1>7, <1>8

(* A call's step concerns the entries of its two accounts only.            *)
LEMMA OthersEntries ==
    ASSUME ServiceInv, Disjoint, Disjoint', NEW w \in Workers,
           UpdateFrom(w) \/ UpdateTo(w) \/ Fail(w),
           NEW n \in Numbers, n \notin Parties(tx[w])
    PROVE  Book'[n] = Book[n]
<1> USE DEF ServiceInv, TypeInv
<1>1. IsActive(w) /\ tx'[w] = tx[w]
  BY DEF UpdateFrom, UpdateTo, Fail, ReadFails, UpdateFails, AckLost, IsActive,
         locals
<1>2. accounts'[n] = accounts[n]
  <2>1. /\ newFrom[w] \in Int /\ newTo[w] \in Int
        /\ Outgoing \in Statuses /\ Incoming \in Statuses
    BY DEF TypeOK, Statuses
  <2>2. /\ tx[w].from \in Numbers /\ tx[w].to \in Numbers
        /\ IsOpen(tx[w].from) /\ IsOpen(tx[w].to)
        /\ n # tx[w].from /\ n # tx[w].to
    BY <1>1, ActiveCall DEF Parties
  <2> QED BY <2>1, <2>2, BalanceUpdate
          DEF UpdateFrom, UpdateTo, Fail, ReadFails, UpdateFails, AckLost
<1>3. InFlight(n)' = InFlight(n)
  <2>1. tx[w].from # n /\ tx'[w].from # n
    BY <1>1 DEF Parties
  <2> QED BY <2>1, OthersUntouched, InFlightFrame DEF Advance
<1> QED BY <1>2, <1>3, SameEntry

(* Only the call at its second UPDATE has a debit in flight on its source, *)
(* and none is in flight on its destination.                               *)
OwnInFlight ==
    \A w \in Workers, n \in Numbers :
        IsActive(w) /\ tx[w].from # tx[w].to =>
            /\ n = tx[w].from => InFlight(n) = IF pc[w] = "updateTo"
                                              THEN Taken(tx[w].amount) ELSE 0
            /\ n = tx[w].to => InFlight(n) = 0

(* Among disjoint calls what is in flight on an account is its own call's  *)
(* debit.                                                                  *)
LEMMA OwnInFlightHolds == Disjoint => OwnInFlight
<1> SUFFICES ASSUME Disjoint, NEW w \in Workers, NEW n \in Numbers,
                    IsActive(w), tx[w].from # tx[w].to
             PROVE  /\ n = tx[w].from => InFlight(n) = IF pc[w] = "updateTo"
                                              THEN Taken(tx[w].amount) ELSE 0
                    /\ n = tx[w].to => InFlight(n) = 0
  BY DEF OwnInFlight
<1>1. InFlightKnown
  BY InFlightOf
<1>2. ASSUME NEW v \in Workers, pc[v] = "updateTo", tx[v].from \in Parties(tx[w])
      PROVE  v = w
  BY <1>2 DEF Disjoint, IsActive, Parties
<1>3. n = tx[w].to => InFlight(n) = 0
  BY <1>1, <1>2 DEF InFlightKnown, Parties
<1>4. CASE pc[w] = "updateTo"
  BY <1>1, <1>3, <1>4 DEF InFlightKnown
<1>5. CASE pc[w] # "updateTo"
  BY <1>1, <1>2, <1>3, <1>5 DEF InFlightKnown, Parties
<1> QED BY <1>4, <1>5

(* The same after a step.                                                  *)
LEMMA OwnInFlightNext == Disjoint' => OwnInFlight'
  BY OwnInFlightHolds, PTL

-----------------------------------------------------------------------------
(* Steps that write nothing and do not leave the second UPDATE.            *)
LEMMA QuietStep ==
    ASSUME TypeInv, Disjoint, Disjoint', NEW w \in Workers,
           \/ Advance(w) \/ Fail(w) \/ Return(w)
           \/ \E t \in Transactions : BeginTransact(w, t),
           pc[w] # "updateTo", pc'[w] # "updateTo", UNCHANGED accounts
    PROVE  UNCHANGED Book
<1> SUFFICES ASSUME NEW n \in Numbers
             PROVE  Book'[n] = Book[n]
  BY SameBook
<1>1. InFlight(n)' = InFlight(n)
  BY OthersUntouched, InFlightFrame DEF TypeInv
<1> QED BY <1>1, SameEntry

(* The first UPDATE: the debit leaves the row and is in flight.            *)
LEMMA DebitStep ==
    ASSUME NoSelfTransfers, ServiceInv, CurrentInv, Disjoint, Disjoint',
           NEW w \in Workers, UpdateFrom(w)
    PROVE  UNCHANGED Book
<1>1. /\ pc[w] = "updateFrom" /\ pc'[w] = "updateTo" /\ tx'[w] = tx[w]
      /\ IsActive(w) /\ IsActive(w)'
  BY DEF UpdateFrom, Goto, ServiceInv, TypeInv, TypeOK, IsActive
<1>2. PICK f \in Numbers, a \in Nat : f = tx[w].from /\ a = tx[w].amount
  BY <1>1, WriterFacts
<1>3. /\ f # tx[w].to /\ IsOpen(f)
      /\ accounts[f].balance \in Int /\ Even(accounts[f].balance)
      /\ newFrom[w] \in Int
      /\ newFrom[w] = accounts[f].balance - a
  BY <1>1, <1>2, WriterFacts DEF CurrentInv, OneCurrent
<1>4. /\ accounts'[f].balance = Stored(newFrom[w])
      /\ accounts'[f].currency = accounts[f].currency
      /\ IsOpen(f)'
      /\ \A m \in Numbers \ {f} : accounts'[m] = accounts[m]
  <2>1. Outgoing \in Statuses /\ TypeOK
    BY DEF Statuses, ServiceInv, TypeInv
  <2>2. UpdateAccount(f, newFrom[w], Outgoing)
    BY <1>2 DEF UpdateFrom
  <2> QED BY <1>3, <2>1, <2>2, BalanceUpdate
<1>5. InFlight(f) = 0 /\ InFlight(f)' = Taken(a)
  BY <1>1, <1>2, <1>3, OwnInFlightHolds, OwnInFlightNext DEF OwnInFlight
<1>6. Taken(a) \in Int /\ accounts'[f].balance = accounts[f].balance - Taken(a)
  <2>1. a \in Int
    OBVIOUS
  <2> QED BY <1>3, <1>4, <2>1, Rounding
<1>7. Book'[f] = Book[f]
  <2>1. Book[f] = [balance |-> accounts[f].balance + 0,
                   currency |-> accounts[f].currency]
    BY <1>3, <1>5, EntryOf
  <2>2. Book'[f] = [balance |-> accounts'[f].balance + Taken(a),
                    currency |-> accounts[f].currency]
    BY <1>4, <1>5, EntryNext
  <2>3. accounts'[f].balance + Taken(a) = accounts[f].balance + 0
    BY <1>3, <1>6
  <2> QED BY <2>1, <2>2, <2>3
<1>8. ASSUME NEW n \in Numbers, n # f
      PROVE  Book'[n] = Book[n]
  <2>1. InFlight(n)' = InFlight(n)
    BY <1>1, <1>2, <1>8, OthersUntouched, InFlightFrame
       DEF Advance, ServiceInv, TypeInv
  <2> QED BY <1>4, <1>8, <2>1, SameEntry
<1> QED BY <1>7, <1>8, SameBook

(* The second UPDATE, whether or not its caller hears of it: the whole     *)
(* transfer.                                                               *)
LEMMA CreditStep ==
    ASSUME NoSelfTransfers, ServiceInv, CurrentInv, Disjoint, Disjoint',
           NEW w \in Workers, pc[w] = "updateTo", UpdateTo(w) \/ AckLost(w)
    PROVE  Promise!Move(tx[w].from, tx[w].to, tx[w].amount)
<1>1. /\ pc'[w] # "updateTo" /\ tx'[w] = tx[w]
      /\ IsActive(w) /\ IsActive(w)'
      /\ UpdateAccount(tx[w].to, newTo[w], Incoming)
  BY DEF UpdateTo, AckLost, NextElement, Goto, ServiceInv, TypeInv, TypeOK, IsActive
<1>2. PICK f \in Numbers, t \in Numbers, a \in Nat :
         f = tx[w].from /\ t = tx[w].to /\ a = tx[w].amount
  BY WriterFacts
<1>3. /\ f # t /\ IsOpen(f) /\ IsOpen(t)
      /\ accounts[f].balance \in Int /\ accounts[t].balance \in Int
      /\ Even(accounts[t].balance)
      /\ accounts[f].currency = accounts[t].currency
      /\ newFrom[w] \in Nat /\ newTo[w] \in Int
      /\ newTo[w] = accounts[t].balance + a
  BY <1>2, WriterFacts
<1>4. /\ accounts'[t].balance = Stored(newTo[w])
      /\ accounts'[t].currency = accounts[t].currency
      /\ IsOpen(t)'
      /\ \A m \in Numbers \ {t} : accounts'[m] = accounts[m]
  <2>1. Incoming \in Statuses /\ TypeOK
    BY DEF Statuses, ServiceInv, TypeInv
  <2>2. UpdateAccount(t, newTo[w], Incoming)
    BY <1>1, <1>2
  <2> QED BY <1>3, <2>1, <2>2, BalanceUpdate
<1>5. /\ InFlight(f) = Taken(a) /\ InFlight(t) = 0
      /\ InFlight(f)' = 0 /\ InFlight(t)' = 0
  BY <1>1, <1>2, <1>3, OwnInFlightHolds, OwnInFlightNext DEF OwnInFlight
<1>6. /\ Taken(a) \in Int /\ Stored(a) \in Int
      /\ accounts'[t].balance = accounts[t].balance + Stored(a)
  <2>1. a \in Int
    OBVIOUS
  <2> QED BY <1>3, <1>4, <2>1, Rounding
<1>7. accounts[f].balance + Taken(a) >= a
  <2>1. Stored(newFrom[w]) = accounts[f].balance /\ Even(newFrom[w] + a)
    BY <1>2 DEF CurrentInv, OneCurrent
  <2> QED BY <1>3, <2>1 DEF Stored, Taken, Even
<1>8. /\ Book[f] = [balance |-> accounts[f].balance + Taken(a),
                    currency |-> accounts[f].currency]
      /\ Book[t] = [balance |-> accounts[t].balance,
                    currency |-> accounts[t].currency]
  <2>1. accounts[t].balance + 0 = accounts[t].balance
    BY <1>3
  <2> QED BY <1>3, <1>5, <2>1, EntryOf
<1>9. /\ Book'[f] = [balance |-> accounts[f].balance,
                     currency |-> accounts[f].currency]
      /\ Book'[t] = [balance |-> accounts[t].balance + Stored(a),
                     currency |-> accounts[t].currency]
  <2>1. accounts'[f] = accounts[f] /\ IsOpen(f)'
    BY <1>3, <1>4 DEF IsOpen
  <2>2. /\ accounts[f].balance + 0 = accounts[f].balance
        /\ accounts[t].balance + Stored(a) + 0 = accounts[t].balance + Stored(a)
    BY <1>3, <1>6
  <2>3. Book'[f] = [balance |-> accounts[f].balance + 0,
                    currency |-> accounts[f].currency]
    BY <1>5, <2>1, EntryNext
  <2>4. Book'[t] = [balance |-> accounts[t].balance + Stored(a) + 0,
                    currency |-> accounts[t].currency]
    BY <1>4, <1>5, <1>6, EntryNext
  <2> QED BY <2>2, <2>3, <2>4
<1>10. \A n \in Numbers : n # f /\ n # t => Book'[n] = Book[n]
  BY <1>2, OthersEntries DEF Fail, Parties
<1>11. Book' = MovedBook(f, t, Taken(a), Stored(a))
  <2>1. PICK x \in Int, y \in Int, d \in Int, e \in Int, c \in Currencies :
           /\ x = accounts[f].balance /\ y = accounts[t].balance
           /\ d = Taken(a) /\ e = Stored(a) /\ c = accounts[t].currency
    BY <1>3, <1>6 DEF ServiceInv, TypeInv, TypeOK, Rows, IsOpen
  <2>2. /\ Book[f] = [balance |-> x + d, currency |-> c]
        /\ Book[t] = [balance |-> y, currency |-> c]
        /\ Book'[f] = [balance |-> x, currency |-> c]
        /\ Book'[t] = [balance |-> y + e, currency |-> c]
    BY <1>3, <1>8, <1>9, <2>1
  <2>3. Book' = MovedBook(f, t, d, e)
    BY <1>3, <1>10, <2>2, BookMoves
  <2> QED BY <2>1, <2>3
<1>12. Book[f] # NoAccount /\ Book[t] # NoAccount
  BY <1>3, OpenEntry DEF ServiceInv, TypeInv
<1>13. /\ Book[f].currency = Book[t].currency
       /\ Book[f].balance >= a
  BY <1>3, <1>7, <1>8
<1> QED BY <1>2, <1>3, <1>11, <1>12, <1>13, LedgerMoney
        DEF Promise!Move, Promise!IsOpen, Book, MovedBook

-----------------------------------------------------------------------------
(* An account whose entry has lost an amount some transaction asks for.    *)
Forfeits(n) ==
    /\ Promise!IsOpen(n)
    /\ \E loss \in Promise!Losses :
          /\ Book[n].balance >= loss
          /\ Book'[n] = [Book[n] EXCEPT !.balance = @ - loss]

(* An entry that is lower by what a transfer takes was forfeited.          *)
LEMMA ForfeitEntry ==
    ASSUME NEW n \in Numbers, NEW x \in Nat, NEW d \in Int, NEW c,
           NEW t \in Transactions, d = Taken(t.amount),
           Book[n] = [balance |-> x + d, currency |-> c],
           Book'[n] = [balance |-> x, currency |-> c],
           Book[n] # NoAccount
    PROVE  Forfeits(n)
<1>1. Promise!IsOpen(n)
  BY DEF Promise!IsOpen, Book
<1>2. d \in Promise!Losses
  BY LedgerMoney DEF Promise!Losses
<1>3. Book[n].balance = x + d /\ x + d >= d
  OBVIOUS
<1>4. [Book[n] EXCEPT !.balance = @ - d] = [balance |-> x + d - d, currency |-> c]
  OBVIOUS
<1>5. x + d - d = x
  OBVIOUS
<1>6. Book'[n] = [Book[n] EXCEPT !.balance = @ - d]
  BY <1>4, <1>5
<1> QED BY <1>1, <1>2, <1>3, <1>6 DEF Forfeits

(* Where every entry stays or loses such an amount, the ledger forfeits.   *)
LEMMA ForfeitBook ==
    ASSUME MayCrash \/ FaultyOps # {},
           \A n \in Numbers : Book'[n] = Book[n] \/ Forfeits(n)
    PROVE  Promise!Forfeit
<1>1. Book' = [n \in Numbers |-> Book'[n]]
  BY DEF Book
<1> QED BY <1>1 DEF Promise!Forfeit, Forfeits, Book

(* A call vanishes between its two UPDATEs: its debit is gone.             *)
LEMMA LostDebit ==
    ASSUME NoSelfTransfers, ServiceInv, CurrentInv, Disjoint,
           NEW w \in Workers, pc[w] = "updateTo",
           NEW n \in Numbers, n = tx[w].from,
           accounts'[n] = accounts[n], InFlight(n)' = 0
    PROVE  Forfeits(n)
<1>1. /\ tx[w] \in Transactions /\ tx[w].amount \in Nat
      /\ IsOpen(n) /\ tx[w].from # tx[w].to /\ IsActive(w)
      /\ accounts[n].balance \in Nat
  BY WriterFacts DEF IsActive
<1>2. InFlight(n) = Taken(tx[w].amount) /\ Taken(tx[w].amount) \in Int
  <2>1. tx[w].amount \in Int
    BY <1>1
  <2>2. Taken(tx[w].amount) \in Int
    BY <2>1 DEF Taken
  <2> QED BY <1>1, <2>2, OwnInFlightHolds DEF OwnInFlight
<1>3. Book[n] = [balance |-> accounts[n].balance + Taken(tx[w].amount),
                 currency |-> accounts[n].currency]
  BY <1>1, <1>2, EntryOf
<1>4. Book'[n] = [balance |-> accounts[n].balance,
                  currency |-> accounts[n].currency]
  <2>1. Book'[n] = [balance |-> accounts[n].balance + 0,
                    currency |-> accounts[n].currency]
    BY <1>1, EntryNext DEF IsOpen
  <2>2. accounts[n].balance + 0 = accounts[n].balance
    BY <1>1
  <2> QED BY <2>1, <2>2
<1>5. Book[n] # NoAccount
  BY <1>1, OpenEntry DEF ServiceInv, TypeInv
<1> QED BY <1>1, <1>2, <1>3, <1>4, <1>5, ForfeitEntry

(* The second UPDATE fails: the debit stands alone.                        *)
LEMMA FailedCredit ==
    ASSUME NoSelfTransfers, ServiceInv, CurrentInv, Disjoint, Disjoint',
           NEW w \in Workers, pc[w] = "updateTo", UpdateFails(w)
    PROVE  Promise!Forfeit
<1>1. /\ pc'[w] = "threw" /\ tx'[w] = tx[w] /\ accounts' = accounts
      /\ IsActive(w) /\ IsActive(w)' /\ FaultyOps # {}
  BY DEF UpdateFails, Goto, locals, ServiceInv, TypeInv, TypeOK, IsActive
<1>2. /\ tx[w].from \in Numbers /\ tx[w].to \in Numbers
      /\ tx[w].from # tx[w].to
  BY WriterFacts
<1>3. Forfeits(tx[w].from)
  <2>1. \A n \in Numbers : n = tx[w].from => InFlight(n)' = 0
    BY <1>1, <1>2, OwnInFlightNext DEF OwnInFlight
  <2> QED BY <1>1, <1>2, <2>1, LostDebit
<1>4. Book'[tx[w].to] = Book[tx[w].to]
  <2>1. \A n \in Numbers : n = tx[w].to => InFlight(n)' = 0 /\ InFlight(n) = 0
    BY <1>1, <1>2, OwnInFlightHolds, OwnInFlightNext DEF OwnInFlight
  <2>2. \A n \in Numbers : n = tx[w].to => Book'[n] = Book[n]
    BY <1>1, <2>1, SameEntry
  <2> QED BY <1>2, <2>2
<1>5. \A n \in Numbers : n \notin Parties(tx[w]) => Book'[n] = Book[n]
  BY OthersEntries DEF Fail
<1> QED BY <1>1, <1>3, <1>4, <1>5, ForfeitBook DEF Parties

(* The first UPDATE commits and the call gives up.                         *)
LEMMA UnheardDebit ==
    ASSUME NoSelfTransfers, ServiceInv, CurrentInv, Disjoint, Disjoint',
           NEW w \in Workers, pc[w] = "updateFrom", AckLost(w)
    PROVE  Promise!Forfeit
<1>1. /\ pc'[w] = "threw" /\ tx'[w] = tx[w]
      /\ IsActive(w) /\ IsActive(w)' /\ FaultyOps # {}
      /\ UpdateAccount(tx[w].from, newFrom[w], Outgoing)
  BY DEF AckLost, Goto, ServiceInv, TypeInv, TypeOK, IsActive
<1>2. PICK f \in Numbers, t \in Numbers, a \in Nat :
         f = tx[w].from /\ t = tx[w].to /\ a = tx[w].amount
  BY WriterFacts
<1>3. /\ f # t /\ IsOpen(f) /\ tx[w] \in Transactions
      /\ accounts[f].balance \in Int /\ Even(accounts[f].balance)
      /\ newFrom[w] \in Nat
      /\ newFrom[w] = accounts[f].balance - a
  BY <1>2, WriterFacts DEF CurrentInv, OneCurrent
<1>4. /\ accounts'[f].balance = Stored(newFrom[w])
      /\ accounts'[f].currency = accounts[f].currency
      /\ IsOpen(f)'
      /\ \A m \in Numbers \ {f} : accounts'[m] = accounts[m]
  <2>1. Outgoing \in Statuses /\ TypeOK /\ newFrom[w] \in Int
    BY <1>3 DEF Statuses, ServiceInv, TypeInv
  <2>2. UpdateAccount(f, newFrom[w], Outgoing)
    BY <1>1, <1>2
  <2> QED BY <1>3, <2>1, <2>2, BalanceUpdate
<1>5. \A n \in Parties(tx[w]) : n \in Numbers /\ InFlight(n) = 0 /\ InFlight(n)' = 0
  BY <1>1, <1>2, <1>3, OwnInFlightHolds, OwnInFlightNext DEF OwnInFlight, Parties
<1>6. /\ Taken(a) \in Int
      /\ accounts'[f].balance \in Nat
      /\ accounts[f].balance = accounts'[f].balance + Taken(a)
  <2>1. a \in Int
    OBVIOUS
  <2>2. Taken(a) \in Int /\ Stored(newFrom[w]) = accounts[f].balance - Taken(a)
    <3>1. /\ Taken(a) \in Int
          /\ Stored(accounts[f].balance - a) = accounts[f].balance - Taken(a)
      BY <1>3, <2>1, Rounding
    <3> QED BY <1>3, <3>1
  <2>3. Stored(newFrom[w]) \in Nat
    BY <1>3 DEF Stored
  <2> QED BY <1>3, <1>4, <2>2, <2>3
<1>7. Forfeits(f)
  <2>1. Book[f] = [balance |-> accounts'[f].balance + Taken(a),
                   currency |-> accounts[f].currency]
    <3>1. accounts[f].balance + 0 = accounts'[f].balance + Taken(a)
      BY <1>3, <1>6
    <3>2. Book[f] = [balance |-> accounts[f].balance + 0,
                     currency |-> accounts[f].currency]
      BY <1>2, <1>3, <1>5, EntryOf DEF Parties
    <3> QED BY <3>1, <3>2
  <2>2. Book'[f] = [balance |-> accounts'[f].balance,
                    currency |-> accounts[f].currency]
    <3>1. accounts'[f].balance + 0 = accounts'[f].balance
      BY <1>6
    <3>2. Book'[f] = [balance |-> accounts'[f].balance + 0,
                      currency |-> accounts[f].currency]
      BY <1>2, <1>4, <1>5, EntryNext DEF Parties
    <3> QED BY <3>1, <3>2
  <2>3. Book[f] # NoAccount
    BY <1>3, OpenEntry DEF ServiceInv, TypeInv
  <2> QED BY <1>2, <1>3, <1>6, <2>1, <2>2, <2>3, ForfeitEntry
<1>8. Book'[t] = Book[t]
  BY <1>2, <1>3, <1>4, <1>5, SameEntry DEF Parties
<1>9. \A n \in Numbers : n # f /\ n # t => Book'[n] = Book[n]
  BY <1>2, OthersEntries DEF Fail, Parties
<1> QED BY <1>1, <1>7, <1>8, <1>9, ForfeitBook

(* A crash cuts every transfer at its second UPDATE.                       *)
LEMMA CrashStep ==
    ASSUME NoSelfTransfers, ServiceInv, CurrentInv, Disjoint, Disjoint', Crash
    PROVE  Promise!Forfeit
<1>1. accounts' = accounts /\ MayCrash
      /\ \A w \in Workers : pc'[w] = "idle"
  BY DEF Crash
<1>2. \A n \in Numbers : InFlight(n)' = 0
  BY <1>1, InFlightNext DEF InFlightKnown
<1>3. ASSUME NEW n \in Numbers
      PROVE  Book'[n] = Book[n] \/ Forfeits(n)
  <2>1. CASE \E w \in Workers : pc[w] = "updateTo" /\ tx[w].from = n
    BY <1>1, <1>2, <2>1, LostDebit
  <2>2. CASE \A w \in Workers : ~(pc[w] = "updateTo" /\ tx[w].from = n)
    <3>1. InFlight(n) = 0
      BY <2>2, InFlightOf DEF InFlightKnown
    <3> QED BY <1>1, <1>2, <3>1, SameEntry
  <2> QED BY <2>1, <2>2
<1> QED BY <1>1, <1>3, ForfeitBook

(* A new account enters the book with its rounded deposit.                 *)
LEMMA OpenStep ==
    ASSUME ServiceInv, Disjoint, Disjoint',
           NEW n \in Numbers, NEW b \in Deposits, NEW c \in Currencies,
           PutAccount(n, b, c)
    PROVE  Promise!Open(n, b, c)
<1>1. /\ ~IsOpen(n) /\ UNCHANGED <<pc, tx>>
      /\ accounts'[n] = [balance |-> Stored(b), status |-> Unset, currency |-> c]
      /\ \A m \in Numbers \ {n} : accounts'[m] = accounts[m]
  BY DEF PutAccount, locals, ServiceInv, TypeInv, TypeOK
<1>2. \A m \in Numbers : InFlight(m)' = InFlight(m)
  BY <1>1, InFlightFrame
<1>3. InFlight(n) = 0
  <2>1. \A w \in Workers : ~(pc[w] = "updateTo" /\ tx[w].from = n)
    BY <1>1, ClosedEntry DEF ServiceInv, IsActive
  <2> QED BY <2>1, InFlightOf DEF InFlightKnown
<1>4. Stored(b) \in Int
  BY DEF Stored, ConstantsAssumption
<1>5. Book'[n] = [balance |-> Stored(b), currency |-> c]
  <2>1. accounts'[n] \in Rows
    BY <1>1, <1>4 DEF Rows, Statuses
  <2>2. IsOpen(n)'
    BY <2>1 DEF IsOpen
  <2>3. Book'[n] = [balance |-> Stored(b) + 0, currency |-> c]
    BY <1>1, <1>2, <1>3, <2>2, EntryNext
  <2>4. Stored(b) + 0 = Stored(b)
    BY <1>4
  <2> QED BY <2>3, <2>4
<1>6. \A m \in Numbers \ {n} : Book'[m] = Book[m]
  BY <1>1, <1>2, SameEntry
<1>7. Book' = [Book EXCEPT ![n] = [balance |-> Stored(b), currency |-> c]]
  <2>1. Book' = [m \in Numbers |-> Book'[m]]
    BY DEF Book
  <2> QED BY <1>5, <1>6, <2>1 DEF Book
<1>8. Book[n] = NoAccount
  BY <1>1, EntryOf
<1> QED BY <1>7, <1>8, LedgerMoney DEF Promise!Open, Promise!IsOpen, Book

(* The marks closeTransaction sets are not in the book.                    *)
LEMMA MarkStep ==
    ASSUME Disjoint, Disjoint', MarkAccounts
    PROVE  UNCHANGED Book
<1> SUFFICES ASSUME NEW n \in Numbers
             PROVE  Book'[n] = Book[n]
  BY SameBook
<1>1. InFlight(n)' = InFlight(n)
  BY InFlightFrame DEF MarkAccounts, locals
<1> QED BY <1>1, EntryOf, EntryNext DEF MarkAccounts

-----------------------------------------------------------------------------
(* Nothing is cut: an opening, a whole transfer or no change of the book. *)
WholeStep ==
    \/ \E n \in Numbers, b \in Deposits, c \in Currencies : Promise!Open(n, b, c)
    \/ \E f, g \in Numbers, a \in {t.amount : t \in Transactions} :
          Promise!Move(f, g, a)
    \/ UNCHANGED Book

(* A statement fails or the process dies, and transfers are cut. *)
CutStep == (Crash \/ \E w \in Workers : Fail(w)) /\ Promise!Forfeit

(* Every step of the service is a step of the ledger, or none of it, and   *)
(* only faults cut transfers.                                              *)
LEMMA ServiceMoves ==
    ASSUME NoSelfTransfers, ServiceInv, CurrentInv, Disjoint,
           ServiceInv', CurrentInv', Disjoint', [ServiceNext]_vars
    PROVE  WholeStep \/ CutStep
<1>1. ASSUME NEW w \in Workers,
             \/ Advance(w) \/ Fail(w) \/ Return(w)
             \/ \E t \in Transactions : BeginTransact(w, t)
      PROVE  WholeStep \/ CutStep
  <2> USE DEF ServiceInv, TypeInv, TypeOK
  <2>1. CASE UpdateFrom(w)
    BY <2>1, DebitStep DEF WholeStep
  <2>2. CASE UpdateTo(w) \/ (AckLost(w) /\ pc[w] = "updateTo")
    <3>1. pc[w] = "updateTo"
      BY <2>2 DEF UpdateTo
    <3>2. Promise!Move(tx[w].from, tx[w].to, tx[w].amount)
      BY <2>2, <3>1, CreditStep
    <3>3. /\ tx[w].from \in Numbers /\ tx[w].to \in Numbers
          /\ tx[w].amount \in {t.amount : t \in Transactions}
      BY <3>1, WriterFacts
    <3> QED BY <3>2, <3>3 DEF WholeStep
  <2>3. CASE AckLost(w) /\ pc[w] = "updateFrom"
    BY <2>3, UnheardDebit DEF CutStep, Fail
  <2>4. CASE UpdateFails(w) /\ pc[w] = "updateTo"
    BY <2>4, FailedCredit DEF CutStep, Fail
  <2>5. CASE \/ Reject(w) \/ Execute(w) \/ Skip(w) \/ ReadFrom(w) \/ ReadTo(w)
             \/ ReadFails(w) \/ (UpdateFails(w) /\ pc[w] = "updateFrom")
             \/ Return(w) \/ \E t \in Transactions : BeginTransact(w, t)
    <3>1. pc[w] # "updateTo" /\ pc'[w] # "updateTo" /\ UNCHANGED accounts
      BY <2>5 DEF Reject, Execute, Skip, ReadFrom, ReadTo, ReadFails, UpdateFails,
                  Return, BeginTransact, NextElement, Goto
    <3> QED BY <1>1, <3>1, QuietStep DEF WholeStep
  <2> QED BY <1>1, <2>1, <2>2, <2>3, <2>4, <2>5
          DEF Advance, Fail, AckLost, UpdateFails
<1>2. ASSUME NEW n \in Numbers, NEW b \in Deposits, NEW c \in Currencies,
             PutAccount(n, b, c)
      PROVE  WholeStep
  BY <1>2, OpenStep DEF WholeStep
<1>3. CASE Crash
  BY <1>3, CrashStep DEF CutStep
<1>4. CASE MarkAccounts
  BY <1>4, MarkStep DEF WholeStep
<1>5. CASE UNCHANGED vars
  <2>1. \A n \in Numbers : InFlight(n)' = InFlight(n)
    BY <1>5, InFlightFrame DEF vars, locals
  <2> QED BY <1>5, <2>1, SameEntry, SameBook DEF vars, WholeStep
<1> QED BY <1>1, <1>2, <1>3, <1>4, <1>5 DEF ServiceNext

(* In the ledger's words.                                                  *)
LEMMA LedgerStep ==
    ASSUME NoSelfTransfers, ServiceInv, CurrentInv, Disjoint,
           ServiceInv', CurrentInv', Disjoint', [ServiceNext]_vars
    PROVE  Promise!Next \/ UNCHANGED Book
  BY ServiceMoves DEF WholeStep, CutStep, Promise!Next

(* At first there is no account.                                           *)
LEMMA LedgerInit == Init => Promise!Init
<1> SUFFICES ASSUME Init
             PROVE  Promise!Init
  OBVIOUS
<1>1. \A n \in Numbers : Book[n] = NoAccount
  BY EntryOf DEF Init, IsOpen
<1> QED BY <1>1 DEF Promise!Init, Book

(* Whoever calls the service: as long as calls in progress share no        *)
(* account, it is a ledger.                                                *)
LEMMA ServiceImplements ==
    ASSUME NoSelfTransfers
    PROVE  ServiceSpec /\ []Disjoint => ImplementsLedger
<1>1. Init => ServiceInv /\ CurrentInv /\ Promise!Init
  BY ServiceInit, CurrentInit, LedgerInit
<1>2. /\ ServiceInv /\ CurrentInv /\ Disjoint /\ Disjoint' /\ [ServiceNext]_vars
      => ServiceInv' /\ CurrentInv'
  BY ServiceStep, CurrentStep
<1>3. /\ ServiceInv /\ CurrentInv /\ Disjoint
      /\ ServiceInv' /\ CurrentInv' /\ Disjoint' /\ [ServiceNext]_vars
      => [Promise!Next]_Book
  BY LedgerStep
<1>4. ServiceSpec /\ []Disjoint => Promise!Init /\ [][Promise!Next]_Book
  BY <1>1, <1>2, <1>3, PTL DEF ServiceSpec
<1> QED BY <1>4, PTL DEF ImplementsLedger, Promise!Spec, Book

(* Callers that keep to accounts of their own are promised a ledger, and   *)
(* transactInAccounts with its two absolute UPDATEs and no transaction     *)
(* around them keeps the promise: every step is an opening, one whole      *)
(* transfer, or, where statements fail or the process dies, transfers cut  *)
(* after their debit.                                                      *)
THEOREM LedgerImplemented ==
    ASSUME Isolated, NoSelfTransfers
    PROVE  Spec => ImplementsLedger
  BY CallersStayDisjoint, SpecIsService, ServiceImplements, PTL

-----------------------------------------------------------------------------
(* What is proved of every ledger, of this one. *)
Kept == INSTANCE LedgerProofs WITH
    book <- [n \in Numbers |-> BookEntry(n)],
    Amounts <- {t.amount : t \in Transactions},
    Lossy <- MayCrash \/ FaultyOps # {}

(* The constants are what the ledger asks for.                             *)
LEMMA KeptConstants == Kept!LedgerConstants
<1>1. Kept!Entries = Entries
  BY DEF Kept!Entries, Entries
<1>2. \A t \in Transactions : t.amount \in Nat
  BY DEF ConstantsAssumption, TransactionRecords
<1> QED BY <1>1, <1>2 DEF Kept!LedgerConstants, ConstantsAssumption, MarksAssumption

(* Both instances are of one ledger.                                       *)
LEMMA KeptSteps ==
    /\ Promise!Init => Kept!Init
    /\ Promise!Next => Kept!Next
    /\ WholeStep => Kept!Whole
    /\ Kept!NothingMade => Promise!NothingMade
    /\ Kept!NothingLost => Promise!NothingLost
<1> USE DEF Promise!Open, Promise!Move, Promise!Forfeit, Promise!IsOpen,
            Promise!Losses, Promise!Stored, Promise!Taken,
            Kept!Open, Kept!Move, Kept!Forfeit, Kept!IsOpen,
            Kept!Losses, Kept!Stored, Kept!Taken
<1>1. Promise!Init => Kept!Init
  BY DEF Promise!Init, Kept!Init
<1>2. Promise!Next => Kept!Next
  BY DEF Promise!Next, Kept!Next
<1>3. WholeStep => Kept!Whole
  BY DEF WholeStep, Kept!Whole, Book
<1>4. \A c : Kept!Change(c) = Promise!Change(c)
  BY DEF Kept!Change, Promise!Change, Kept!Holdings, Promise!Holdings,
         Kept!SumFunctionOnSet, Kept!FoldFunctionOnSet, Kept!MapThenFoldSet,
         Promise!SumFunctionOnSet, Promise!FoldFunctionOnSet, Promise!MapThenFoldSet
<1>5. Kept!NothingMade => Promise!NothingMade
  BY <1>4 DEF Kept!NothingMade, Promise!NothingMade
<1>6. Kept!NothingLost => Promise!NothingLost
  BY <1>4 DEF Kept!NothingLost, Promise!NothingLost
<1> QED BY <1>1, <1>2, <1>3, <1>5, <1>6

(* Whoever calls the service: as long as calls in progress share no        *)
(* account, money is conserved and only faults lose any.                   *)
LEMMA ServiceConserves ==
    ASSUME NoSelfTransfers
    PROVE  ServiceSpec /\ []Disjoint => MoneyConserved /\ OnlyFaultsLose
<1>1. Init => ServiceInv /\ CurrentInv /\ Kept!BookInv
  BY ServiceInit, CurrentInit, LedgerInit, KeptSteps, KeptConstants, Kept!BookInit
<1>2. /\ ServiceInv /\ CurrentInv /\ Disjoint /\ Disjoint' /\ [ServiceNext]_vars
      => ServiceInv' /\ CurrentInv'
  BY ServiceStep, CurrentStep
<1>3. ASSUME ServiceInv, CurrentInv, Disjoint, ServiceInv', CurrentInv', Disjoint',
             [ServiceNext]_vars, Kept!BookInv
      PROVE  /\ Kept!BookInv'
             /\ [Promise!NothingMade /\ (Promise!NothingLost \/ (MayCrash \/ FaultyOps # {}))]_Book
             /\ Crash \/ (\E w \in Workers : Fail(w)) \/ Promise!NothingLost
  <2>1. WholeStep \/ CutStep
    BY <1>3, ServiceMoves
  <2>2. Kept!Next \/ UNCHANGED Book
    BY <1>3, LedgerStep, KeptSteps
  <2>3. [Kept!Next]_Book
    BY <2>2
  <2>4. Kept!BookInv'
    BY <1>3, <2>3, KeptConstants, Kept!BookStep DEF Book
  <2>5. Kept!NothingMade /\ (Kept!Whole => Kept!NothingLost)
    BY <1>3, <2>3, <2>4, KeptConstants, Kept!KeepsTotals DEF Book
  <2> QED BY <2>1, <2>4, <2>5, KeptSteps DEF CutStep, Promise!Forfeit
<1>4. ServiceSpec /\ []Disjoint =>
        /\ [][Promise!NothingMade /\ (Promise!NothingLost \/ (MayCrash \/ FaultyOps # {}))]_Book
        /\ [][Crash \/ (\E w \in Workers : Fail(w)) \/ Promise!NothingLost]_vars
  BY <1>1, <1>2, <1>3, PTL DEF ServiceSpec
<1> QED BY <1>4, PTL DEF MoneyConserved, OnlyFaultsLose, Promise!Conservation, Book

(* Among callers that keep to accounts of their own, money is conserved:   *)
(* every step leaves each currency's total as it was, but for the rounding *)
(* of one transfer at a time, and lowers it only in a service with faults. *)
THEOREM MoneyKept ==
    ASSUME Isolated, NoSelfTransfers
    PROVE  Spec => MoneyConserved
  BY CallersStayDisjoint, SpecIsService, ServiceConserves, PTL

(* Nor does a service with faults lose money other than by a fault: the    *)
(* steps the code takes of itself destroy none.                            *)
THEOREM LossesAreFaults ==
    ASSUME Isolated, NoSelfTransfers
    PROVE  Spec => OnlyFaultsLose
  BY CallersStayDisjoint, SpecIsService, ServiceConserves, PTL
=============================================================================
