------------------------ MODULE AccountServiceProofs ------------------------
(***************************************************************************)
(* Theorems about AccountService, for every set of workers, accounts and   *)
(* transactions, with and without faults, crashes and isolation.           *)
(*                                                                         *)
(* The steps are proved for ServiceNext, which asks nothing of the callers *)
(* and lets them mark accounts: Spec, and in the modules of their own the  *)
(* transfer request and the listing, are cases of it.                      *)
(***************************************************************************)
EXTENDS AccountService, TLAPS

USE ConstantsAssumption, MarksAssumption

(* Inside the loop of transactInAccounts at least one element is left; a   *)
(* worker outside a call has none behind it.                               *)
LoopBounded ==
    \A w \in Workers :
        /\ pc[w] = "idle" => pass[w] = 0
        /\ pc[w] \notin {"idle", "returned", "threw"} => pass[w] \in 0..1

(* The accounts of a call in progress exist: rows are never deleted.       *)
PartiesOpen ==
    \A w \in Workers : IsActive(w) => \A n \in Parties(tx[w]) : IsOpen(n)

TypeInv == TypeOK /\ LoopBounded /\ PartiesOpen

(* A status is written outside transactInAccounts: no row appears or       *)
(* disappears, no balance and no currency changes.                         *)
MarkAccounts ==
    /\ accounts' \in [Numbers -> Rows \union {NoAccount}]
    /\ \A n \in Numbers :
          /\ IsOpen(n)' <=> IsOpen(n)
          /\ IsOpen(n) => /\ accounts'[n].balance = accounts[n].balance
                          /\ accounts'[n].currency = accounts[n].currency
    /\ UNCHANGED <<pc, locals>>

(* The service among callers of any kind: they call when they like, with   *)
(* any transaction on open accounts, and mark accounts meanwhile.          *)
ServiceNext ==
    \/ \E n \in Numbers, b \in Deposits, c \in Currencies : PutAccount(n, b, c)
    \/ \E w \in Workers :
          \/ \E t \in Transactions : BeginTransact(w, t)
          \/ Advance(w)
          \/ Fail(w)
          \/ Return(w)
    \/ Crash
    \/ MarkAccounts

ServiceSpec == Init /\ [][ServiceNext]_vars

(* The calls of AccountService are among them.                             *)
LEMMA NextIsService == [Next]_vars => [ServiceNext]_vars
  BY DEF Next, ServiceNext, Call

-----------------------------------------------------------------------------
(* What the steps of a call may take for granted about its transaction and *)
(* the rows of its two accounts.                                           *)
LEMMA ActiveCall ==
    ASSUME TypeInv, NEW w \in Workers, IsActive(w)
    PROVE  /\ tx[w] \in Transactions
           /\ tx[w] \in TransactionRecords
           /\ tx[w].from \in Numbers
           /\ tx[w].to \in Numbers
           /\ tx[w].amount \in Nat
           /\ tx[w].type \in {-1, 0, 1}
           /\ IsOpen(tx[w].from) /\ accounts[tx[w].from] \in Rows
           /\ IsOpen(tx[w].to) /\ accounts[tx[w].to] \in Rows
<1>1. tx[w] \in Transactions /\ tx[w] \in TransactionRecords
  BY DEF TypeInv, TypeOK, IsActive
<1>2. tx[w].from \in Numbers /\ tx[w].to \in Numbers
      /\ tx[w].amount \in Nat /\ tx[w].type \in {-1, 0, 1}
  BY <1>1 DEF TransactionRecords
<1>3. IsOpen(tx[w].from) /\ IsOpen(tx[w].to)
  BY DEF TypeInv, PartiesOpen, Parties
<1> QED BY <1>1, <1>2, <1>3 DEF TypeInv, TypeOK, IsOpen

(* What a column keeps is a number again, and no sign is lost to it.       *)
LEMMA StoredTyped ==
    ASSUME NEW v \in Int
    PROVE  Stored(v) \in Int /\ (v >= 0 => Stored(v) >= 0)
  BY DEF Stored

(* An UPDATE of an existing row yields a row with the same currency and    *)
(* leaves the other rows alone.                                            *)
LEMMA RowUpdate ==
    ASSUME TypeOK, NEW n \in Numbers, IsOpen(n), NEW b \in Int,
           NEW s \in Statuses, UpdateAccount(n, b, s)
    PROVE  /\ accounts' \in [Numbers -> Rows \union {NoAccount}]
           /\ accounts'[n] = [balance |-> Stored(b), status |-> s,
                              currency |-> accounts[n].currency]
           /\ accounts'[n] \in Rows
           /\ \A m \in Numbers \ {n} : accounts'[m] = accounts[m]
<1>1. accounts[n] \in Rows
  BY DEF TypeOK, IsOpen
<1>2. accounts' = [accounts EXCEPT
                     ![n] = [balance |-> Stored(b), status |-> s,
                             currency |-> accounts[n].currency]]
  BY DEF UpdateAccount
<1>3. [balance |-> Stored(b), status |-> s, currency |-> accounts[n].currency]
         \in Rows
  BY <1>1, StoredTyped DEF Rows
<1>4. accounts \in [Numbers -> Rows \union {NoAccount}]
  BY DEF TypeOK
<1>5. accounts' \in [Numbers -> Rows \union {NoAccount}]
  BY <1>2, <1>3, <1>4
<1>6. accounts'[n] = [balance |-> Stored(b), status |-> s,
                      currency |-> accounts[n].currency]
  BY <1>2, <1>4
<1>7. \A m \in Numbers \ {n} : accounts'[m] = accounts[m]
  BY <1>2, <1>4
<1> QED BY <1>3, <1>5, <1>6, <1>7

(* Rows are never deleted and never change their currency.                 *)
LEMMA RowsPersist ==
    ASSUME TypeInv, [ServiceNext]_vars, NEW n \in Numbers, IsOpen(n)
    PROVE  /\ IsOpen(n)'
           /\ accounts'[n].currency = accounts[n].currency
<1>1. ASSUME NEW w \in Workers, NEW m \in Numbers, IsOpen(m), NEW b \in Int,
             NEW s \in Statuses, UpdateAccount(m, b, s)
      PROVE  IsOpen(n)' /\ accounts'[n].currency = accounts[n].currency
  <2>1. /\ accounts'[m] = [balance |-> Stored(b), status |-> s,
                           currency |-> accounts[m].currency]
        /\ accounts'[m] \in Rows
        /\ \A k \in Numbers \ {m} : accounts'[k] = accounts[k]
    BY <1>1, RowUpdate DEF TypeInv
  <2> QED BY <2>1 DEF IsOpen
<1>2. ASSUME UNCHANGED accounts
      PROVE  IsOpen(n)' /\ accounts'[n].currency = accounts[n].currency
  BY <1>2 DEF IsOpen
<1>3. ASSUME NEW w \in Workers, pc[w] = "updateFrom",
             UpdateAccount(tx[w].from, newFrom[w], Outgoing)
      PROVE  IsOpen(n)' /\ accounts'[n].currency = accounts[n].currency
  <2>1. newFrom[w] \in Int /\ Outgoing \in Statuses /\ IsActive(w)
    BY <1>3 DEF TypeInv, TypeOK, Statuses, Outgoing, IsActive
  <2> QED BY <1>1, <1>3, <2>1, ActiveCall
<1>4. ASSUME NEW w \in Workers, pc[w] = "updateTo",
             UpdateAccount(tx[w].to, newTo[w], Incoming)
      PROVE  IsOpen(n)' /\ accounts'[n].currency = accounts[n].currency
  <2>1. newTo[w] \in Int /\ Incoming \in Statuses /\ IsActive(w)
    BY <1>4 DEF TypeInv, TypeOK, Statuses, Incoming, IsActive
  <2> QED BY <1>1, <1>4, <2>1, ActiveCall
<1>5. ASSUME NEW m \in Numbers, NEW b \in Deposits, NEW c \in Currencies,
             PutAccount(m, b, c)
      PROVE  IsOpen(n)' /\ accounts'[n].currency = accounts[n].currency
  BY <1>5 DEF PutAccount, IsOpen, TypeInv, TypeOK
<1>6. ASSUME NEW w \in Workers, Advance(w)
      PROVE  IsOpen(n)' /\ accounts'[n].currency = accounts[n].currency
  <2>1. CASE UNCHANGED accounts
    BY <1>2, <2>1
  <2>2. CASE UpdateFrom(w)
    BY <1>3, <2>2 DEF UpdateFrom
  <2>3. CASE UpdateTo(w)
    BY <1>4, <2>3 DEF UpdateTo
  <2> QED BY <1>6, <2>1, <2>2, <2>3
          DEF Advance, Reject, Execute, Skip, ReadFrom, ReadTo
<1>7. ASSUME NEW w \in Workers, Fail(w)
      PROVE  IsOpen(n)' /\ accounts'[n].currency = accounts[n].currency
  <2>1. CASE UNCHANGED accounts
    BY <1>2, <2>1
  <2>2. CASE AckLost(w)
    BY <1>3, <1>4, <2>2 DEF AckLost
  <2> QED BY <1>7, <2>1, <2>2 DEF Fail, ReadFails, UpdateFails
<1>8. ASSUME NEW w \in Workers, NEW t \in Transactions, BeginTransact(w, t)
      PROVE  UNCHANGED accounts
  BY <1>8 DEF BeginTransact
<1>9. ASSUME NEW w \in Workers, Return(w)
      PROVE  UNCHANGED accounts
  BY <1>9 DEF Return
<1>10. CASE Crash
  BY <1>2, <1>10 DEF Crash
<1>11. CASE UNCHANGED vars
  BY <1>2, <1>11 DEF vars
<1>12. CASE ServiceNext
  <2>1. CASE \E m \in Numbers, b \in Deposits, c \in Currencies :
                PutAccount(m, b, c)
    BY <1>5, <2>1
  <2>2. CASE \E w \in Workers : \E t \in Transactions : BeginTransact(w, t)
    BY <1>2, <1>8, <2>2
  <2>3. CASE \E w \in Workers : Advance(w) \/ Fail(w) \/ Return(w)
    BY <1>2, <1>6, <1>7, <1>9, <2>3
  <2>4. CASE MarkAccounts
    BY <2>4 DEF MarkAccounts
  <2> QED BY <1>10, <1>12, <2>1, <2>2, <2>3, <2>4 DEF ServiceNext
<1> QED BY <1>11, <1>12

(* The balances computed are integers.                                     *)
LEMMA BalancesTyped ==
    ASSUME NEW b \in Int, NEW t \in TransactionRecords
    PROVE  Debited(b, t) \in Int /\ Credited(b, t) \in Int
<1>1. t.amount \in Nat /\ t.type \in {-1, 0, 1}
  BY DEF TransactionRecords
<1>2. CASE t.type = 1
  BY <1>1, <1>2 DEF Debited, Credited, IsCredit
<1>3. CASE t.type = 0
  BY <1>1, <1>3 DEF Debited, Credited, IsCredit
<1>4. CASE t.type = -1
  BY <1>1, <1>4 DEF Debited, Credited, IsCredit
<1> QED BY <1>1, <1>2, <1>3, <1>4

-----------------------------------------------------------------------------
(* The types hold initially and every step preserves them.                 *)
LEMMA TypeInit == Init => TypeInv
  BY DEF Init, TypeInv, TypeOK, LoopBounded, PartiesOpen, Steps, IsActive

(* Every step, of whatever callers, leaves well-typed calls on open        *)
(* accounts.                                                               *)
LEMMA TypeStep == TypeInv /\ [ServiceNext]_vars => TypeInv'
<1> SUFFICES ASSUME TypeInv, [ServiceNext]_vars
             PROVE  TypeInv'
  OBVIOUS
<1>0. \A n \in Numbers : IsOpen(n) => IsOpen(n)'
  BY RowsPersist
<1> USE DEF TypeInv
<1>1. ASSUME NEW n \in Numbers, NEW b \in Deposits, NEW c \in Currencies,
             PutAccount(n, b, c)
      PROVE  TypeInv'
  <2>1. [balance |-> Stored(b), status |-> Unset, currency |-> c] \in Rows
    <3>1. b \in Int
      BY DEF ConstantsAssumption
    <3> QED BY <3>1, StoredTyped DEF Rows, Statuses
  <2>2. TypeOK'
    BY <1>1, <2>1 DEF PutAccount, locals, TypeOK, IsActive
  <2>3. LoopBounded'
    BY <1>1 DEF PutAccount, locals, LoopBounded
  <2>4. PartiesOpen'
    BY <1>0, <1>1, ActiveCall
       DEF PutAccount, locals, PartiesOpen, IsActive, Parties
  <2> QED BY <2>2, <2>3, <2>4
<1>2. ASSUME NEW w \in Workers, NEW t \in Transactions, BeginTransact(w, t)
      PROVE  TypeInv'
  <2>1. BeginTransact(w, t) /\ t \in TransactionRecords
    BY <1>2 DEF Call
  <2>2. t.from \in Numbers /\ t.to \in Numbers
    BY <2>1 DEF TransactionRecords
  <2>3. accounts[t.from].currency \in Currencies
        /\ accounts[t.to].currency \in Currencies
    BY <2>1, <2>2 DEF BeginTransact, Parties, IsOpen, TypeOK, Rows
  <2>4. TypeOK'
    BY <2>1, <2>3 DEF BeginTransact, TypeOK, Steps, IsActive, NoUnits
  <2>5. LoopBounded'
    BY <2>1 DEF BeginTransact, LoopBounded, TypeOK
  <2>6. PartiesOpen'
    BY <2>1 DEF BeginTransact, PartiesOpen, IsActive, IsOpen, TypeOK
  <2> QED BY <2>4, <2>5, <2>6
<1>3. ASSUME NEW w \in Workers, NEW s \in Steps \ {"idle"}, IsActive(w),
             s = "threw" \/ pc[w] = "iterate",
             Goto(w, s), UNCHANGED <<accounts, locals>>
      PROVE  TypeInv'
  <2>1. TypeOK'
    BY <1>3 DEF Goto, locals, TypeOK, IsActive
  <2>2. LoopBounded'
    BY <1>3 DEF Goto, locals, LoopBounded, TypeOK, IsActive
  <2>3. PartiesOpen'
    BY <1>3 DEF Goto, locals, PartiesOpen, IsActive, IsOpen, TypeOK, Parties
  <2> QED BY <2>1, <2>2, <2>3
<1>4. ASSUME NEW w \in Workers, Skip(w)
      PROVE  TypeInv'
  <2>1. pc[w] = "iterate" /\ pass[w] \in 0..1
    BY <1>4 DEF Skip, LoopBounded
  <2>2. TypeOK'
    BY <1>4, <2>1 DEF Skip, NextElement, Goto, TypeOK, Steps, IsActive
  <2>3. LoopBounded'
    BY <1>4, <2>1 DEF Skip, NextElement, Goto, LoopBounded, TypeOK
  <2>4. PartiesOpen'
    BY <1>4, <2>1
       DEF Skip, NextElement, Goto, PartiesOpen, IsActive, IsOpen, TypeOK, Parties
  <2> QED BY <2>2, <2>3, <2>4
<1>5. ASSUME NEW w \in Workers, ReadFrom(w)
      PROVE  TypeInv'
  <2> DEFINE row == accounts[tx[w].from]
             new == Debited(row.balance, tx[w])
             step == IF new < 0 THEN "threw" ELSE "readTo"
             units == [from |-> row.currency, to |-> unit[w].to]
  <2>1. pc[w] = "readFrom" /\ pass[w] \in 0..1 /\ IsActive(w)
    BY <1>5 DEF ReadFrom, LoopBounded, IsActive
  <2>2. row \in Rows /\ tx[w] \in TransactionRecords
    BY <2>1, ActiveCall
  <2>3. new \in Int /\ units \in [from : Currencies, to : Currencies]
    BY <2>1, <2>2, BalancesTyped DEF Rows, TypeOK
  <2>4. newFrom' = [newFrom EXCEPT ![w] = new]
        /\ unit' = [unit EXCEPT ![w] = units]
        /\ pc' = [pc EXCEPT ![w] = step]
        /\ UNCHANGED <<accounts, tx, pass, newTo, writes>>
    BY <1>5 DEF ReadFrom, Goto
  <2>5. step \in {"threw", "readTo"}
    OBVIOUS
  <2> HIDE DEF new, step, units
  <2>6. TypeOK'
    BY <2>1, <2>3, <2>4, <2>5 DEF TypeOK, Steps, IsActive, NoUnits
  <2>7. LoopBounded'
    BY <2>1, <2>4, <2>5 DEF LoopBounded, TypeOK
  <2>8. PartiesOpen'
    BY <2>1, <2>4, <2>5 DEF PartiesOpen, IsActive, IsOpen, TypeOK, Parties
  <2> QED BY <2>6, <2>7, <2>8
<1>6. ASSUME NEW w \in Workers, ReadTo(w)
      PROVE  TypeInv'
  <2> DEFINE row == accounts[tx[w].to]
             new == Credited(row.balance, tx[w])
             step == IF new < 0 THEN "threw" ELSE "updateFrom"
             units == [from |-> unit[w].from, to |-> row.currency]
  <2>1. pc[w] = "readTo" /\ pass[w] \in 0..1 /\ IsActive(w)
    BY <1>6 DEF ReadTo, LoopBounded, IsActive
  <2>2. row \in Rows /\ tx[w] \in TransactionRecords
    BY <2>1, ActiveCall
  <2>3. new \in Int /\ units \in [from : Currencies, to : Currencies]
    BY <2>1, <2>2, BalancesTyped DEF Rows, TypeOK
  <2>4. newTo' = [newTo EXCEPT ![w] = new]
        /\ unit' = [unit EXCEPT ![w] = units]
        /\ pc' = [pc EXCEPT ![w] = step]
        /\ UNCHANGED <<accounts, tx, pass, newFrom, writes>>
    BY <1>6 DEF ReadTo, Goto
  <2>5. step \in {"threw", "updateFrom"}
    OBVIOUS
  <2> HIDE DEF new, step, units
  <2>6. TypeOK'
    BY <2>1, <2>3, <2>4, <2>5 DEF TypeOK, Steps, IsActive, NoUnits
  <2>7. LoopBounded'
    BY <2>1, <2>4, <2>5 DEF LoopBounded, TypeOK
  <2>8. PartiesOpen'
    BY <2>1, <2>4, <2>5 DEF PartiesOpen, IsActive, IsOpen, TypeOK, Parties
  <2> QED BY <2>6, <2>7, <2>8
<1>7. ASSUME NEW w \in Workers, NEW n \in Numbers, NEW b \in Int,
             NEW s \in Statuses, IsActive(w), IsOpen(n),
             UpdateAccount(n, b, s),
             writes' = [writes EXCEPT ![w] = @ + 1],
             UNCHANGED <<tx, unit, newFrom, newTo>>,
             \/ Goto(w, "updateTo") /\ pass[w] \in 0..1 /\ UNCHANGED pass
             \/ Goto(w, "threw") /\ UNCHANGED pass
             \/ NextElement(w) /\ pass[w] \in 0..1
      PROVE  TypeInv'
  <2>1. accounts' \in [Numbers -> Rows \union {NoAccount}]
    BY <1>7, RowUpdate
  <2>2. TypeOK'
    BY <1>7, <2>1 DEF TypeOK, Goto, NextElement, Steps, IsActive, NoUnits
  <2>3. LoopBounded'
    BY <1>7 DEF LoopBounded, TypeOK, Goto, NextElement
  <2>4. PartiesOpen'
    BY <1>0, <1>7, ActiveCall
       DEF PartiesOpen, IsActive, TypeOK, Parties, Goto, NextElement
  <2> QED BY <2>2, <2>3, <2>4
<1>8. ASSUME NEW w \in Workers, UpdateFrom(w) \/ UpdateTo(w) \/ AckLost(w)
      PROVE  TypeInv'
  <2>1. IsActive(w) /\ pass[w] \in 0..1
    BY <1>8 DEF UpdateFrom, UpdateTo, AckLost, IsActive, LoopBounded
  <2>2. newFrom[w] \in Int /\ newTo[w] \in Int
        /\ Outgoing \in Statuses /\ Incoming \in Statuses
    BY DEF TypeOK, Statuses
  <2> QED BY <1>7, <1>8, <2>1, <2>2, ActiveCall DEF UpdateFrom, UpdateTo, AckLost
<1>9. ASSUME NEW w \in Workers, Return(w)
      PROVE  TypeInv'
  <2>1. TypeOK'
    BY <1>9 DEF Return, Goto, TypeOK, Steps, IsActive
  <2>2. LoopBounded'
    BY <1>9 DEF Return, Goto, LoopBounded, TypeOK
  <2>3. PartiesOpen'
    BY <1>9 DEF Return, Goto, PartiesOpen, IsActive, IsOpen, TypeOK, Parties
  <2> QED BY <2>1, <2>2, <2>3
<1>10. CASE Crash
  <2>1. TypeOK'
    BY <1>10 DEF Crash, TypeOK, Steps, IsActive
  <2>2. LoopBounded' /\ PartiesOpen'
    BY <1>10 DEF Crash, LoopBounded, PartiesOpen, IsActive
  <2> QED BY <2>1, <2>2
<1>11. CASE UNCHANGED vars
  BY <1>11 DEF vars, locals, TypeOK, LoopBounded, PartiesOpen, IsActive, IsOpen,
               Parties
<1>12. ASSUME NEW w \in Workers, Advance(w)
       PROVE  TypeInv'
  <2>1. CASE Reject(w) \/ Execute(w)
    BY <1>3, <2>1 DEF Reject, Execute, IsActive, Steps
  <2> QED BY <1>4, <1>5, <1>6, <1>8, <1>12, <2>1 DEF Advance
<1>13. ASSUME NEW w \in Workers, Fail(w)
       PROVE  TypeInv'
  <2>1. CASE ReadFails(w) \/ UpdateFails(w)
    BY <1>3, <2>1 DEF ReadFails, UpdateFails, IsActive, Steps
  <2> QED BY <1>8, <1>13, <2>1 DEF Fail
<1>14. CASE MarkAccounts
  <2>1. TypeOK'
    BY <1>14 DEF MarkAccounts, locals, TypeOK, IsActive
  <2>2. LoopBounded'
    BY <1>14 DEF MarkAccounts, locals, LoopBounded
  <2>3. PartiesOpen'
    BY <1>0, <1>14, ActiveCall
       DEF MarkAccounts, locals, PartiesOpen, IsActive, Parties
  <2> QED BY <2>1, <2>2, <2>3
<1> QED BY <1>1, <1>2, <1>9, <1>10, <1>11, <1>12, <1>13, <1>14 DEF ServiceNext

-----------------------------------------------------------------------------
(* No overdraft.  BalancesNonNegative is not inductive: what an UPDATE     *)
(* writes was computed steps before.  With WritesNonNegative, which is     *)
(* about those values while they wait, it is.                              *)
WritesNonNegative ==
    \A w \in Workers :
        /\ pc[w] \in {"readTo", "updateFrom", "updateTo"} => newFrom[w] >= 0
        /\ pc[w] \in {"updateFrom", "updateTo"} => newTo[w] >= 0

NonNegativeInv == BalancesNonNegative /\ WritesNonNegative

(* There is no balance at first.                                           *)
LEMMA NonNegativeInit == Init => NonNegativeInv
  BY DEF Init, NonNegativeInv, BalancesNonNegative, WritesNonNegative, IsOpen

(* A balance is written from a value computed, and a value is computed     *)
(* only after the cover check.                                             *)
LEMMA NonNegativeStep ==
    ASSUME TypeInv, NonNegativeInv, [ServiceNext]_vars
    PROVE  NonNegativeInv'
<1> USE DEF TypeInv, NonNegativeInv
<1>1. ASSUME NEW n \in Numbers, NEW b \in Deposits, NEW c \in Currencies,
             PutAccount(n, b, c)
      PROVE  NonNegativeInv'
  <2>1. BalancesNonNegative'
    <3> SUFFICES ASSUME NEW m \in Numbers, IsOpen(m)'
                 PROVE  accounts'[m].balance >= 0
      BY DEF BalancesNonNegative
    <3>1. CASE m = n
      <4>1. accounts \in [Numbers -> Rows \union {NoAccount}]
        BY DEF TypeOK
      <4>2. accounts'[n].balance = Stored(b)
        BY <1>1, <4>1 DEF PutAccount
      <4>3. b \in Nat
        BY DEF ConstantsAssumption
      <4> QED BY <3>1, <4>2, <4>3, StoredTyped
    <3>2. CASE m # n
      <4>1. accounts'[m] = accounts[m]
        BY <1>1, <3>2 DEF PutAccount, TypeOK
      <4> QED BY <4>1 DEF BalancesNonNegative, IsOpen
    <3> QED BY <3>1, <3>2
  <2>2. WritesNonNegative'
    BY <1>1 DEF PutAccount, locals, WritesNonNegative
  <2> QED BY <2>1, <2>2
<1>2. ASSUME NEW w \in Workers, NEW n \in Numbers, NEW b \in Int,
             NEW s \in Statuses, IsOpen(n), b >= 0, UpdateAccount(n, b, s),
             NEW step \in {"iterate", "updateTo", "returned", "threw"},
             step = "updateTo" => pc[w] = "updateFrom",
             Goto(w, step), UNCHANGED <<newFrom, newTo>>
      PROVE  NonNegativeInv'
  <2>1. /\ accounts'[n] = [balance |-> Stored(b), status |-> s,
                           currency |-> accounts[n].currency]
        /\ \A m \in Numbers \ {n} : accounts'[m] = accounts[m]
    BY <1>2, RowUpdate
  <2>2. BalancesNonNegative'
    BY <1>2, <2>1, StoredTyped DEF BalancesNonNegative, IsOpen
  <2>3. WritesNonNegative'
    BY <1>2 DEF WritesNonNegative, Goto, TypeOK
  <2> QED BY <2>2, <2>3
<1>3. ASSUME NEW w \in Workers, UpdateFrom(w) \/ UpdateTo(w) \/ AckLost(w)
      PROVE  NonNegativeInv'
  <2>1. IsActive(w)
    BY <1>3 DEF UpdateFrom, UpdateTo, AckLost, IsActive
  <2>2. /\ newFrom[w] \in Int /\ newFrom[w] >= 0
        /\ Outgoing \in Statuses /\ Incoming \in Statuses
    BY <1>3 DEF TypeOK, Statuses, WritesNonNegative, UpdateFrom, UpdateTo, AckLost
  <2>3. newTo[w] \in Int /\ (pc[w] = "updateTo" => newTo[w] >= 0)
    BY DEF TypeOK, WritesNonNegative
  <2>4. CASE UpdateFrom(w)
    BY <1>2, <2>1, <2>2, <2>4, ActiveCall DEF UpdateFrom
  <2>5. CASE UpdateTo(w)
    BY <1>2, <2>1, <2>2, <2>3, <2>5, ActiveCall DEF UpdateTo, NextElement
  <2>6. CASE AckLost(w)
    BY <1>2, <2>1, <2>2, <2>3, <2>6, ActiveCall DEF AckLost
  <2> QED BY <1>3, <2>4, <2>5, <2>6
<1>4. ASSUME UNCHANGED accounts
      PROVE  BalancesNonNegative'
  BY <1>4 DEF BalancesNonNegative, IsOpen
<1>5. ASSUME NEW w \in Workers, ReadFrom(w)
      PROVE  NonNegativeInv'
  <2> DEFINE new == Debited(accounts[tx[w].from].balance, tx[w])
  <2>1. new \in Int
    <3>1. IsActive(w)
      BY <1>5 DEF ReadFrom, IsActive
    <3> QED BY <3>1, ActiveCall, BalancesTyped DEF Rows
  <2>2. /\ newFrom' = [newFrom EXCEPT ![w] = new]
        /\ pc' = [pc EXCEPT ![w] = IF new < 0 THEN "threw" ELSE "readTo"]
        /\ UNCHANGED <<accounts, newTo>>
    BY <1>5 DEF ReadFrom, Goto
  <2> HIDE DEF new
  <2>3. WritesNonNegative'
    BY <2>1, <2>2 DEF WritesNonNegative, TypeOK
  <2> QED BY <1>4, <2>2, <2>3
<1>6. ASSUME NEW w \in Workers, ReadTo(w)
      PROVE  NonNegativeInv'
  <2> DEFINE new == Credited(accounts[tx[w].to].balance, tx[w])
  <2>1. new \in Int
    <3>1. IsActive(w)
      BY <1>6 DEF ReadTo, IsActive
    <3> QED BY <3>1, ActiveCall, BalancesTyped DEF Rows
  <2>2. /\ newTo' = [newTo EXCEPT ![w] = new]
        /\ pc' = [pc EXCEPT ![w] = IF new < 0 THEN "threw" ELSE "updateFrom"]
        /\ UNCHANGED <<accounts, newFrom>>
    BY <1>6 DEF ReadTo, Goto
  <2>3. pc[w] = "readTo"
    BY <1>6 DEF ReadTo
  <2> HIDE DEF new
  <2>4. WritesNonNegative'
    BY <2>1, <2>2, <2>3 DEF WritesNonNegative, TypeOK
  <2> QED BY <1>4, <2>2, <2>4
<1>7. ASSUME NEW w \in Workers,
             NEW step \in {"idle", "iterate", "readFrom", "returned", "threw"},
             Goto(w, step), UNCHANGED accounts,
             \A v \in Workers \ {w} : newFrom'[v] = newFrom[v] /\ newTo'[v] = newTo[v]
      PROVE  NonNegativeInv'
  BY <1>4, <1>7 DEF WritesNonNegative, Goto, TypeOK
<1>8. ASSUME NEW w \in Workers, Advance(w)
      PROVE  NonNegativeInv'
  <2>1. CASE Reject(w) \/ Execute(w) \/ Skip(w)
    BY <1>7, <2>1 DEF Reject, Execute, Skip, NextElement, locals
  <2> QED BY <1>3, <1>5, <1>6, <1>8, <2>1 DEF Advance
<1>9. ASSUME NEW w \in Workers, Fail(w)
      PROVE  NonNegativeInv'
  <2>1. CASE ReadFails(w) \/ UpdateFails(w)
    BY <1>7, <2>1 DEF ReadFails, UpdateFails, locals
  <2> QED BY <1>3, <1>9, <2>1 DEF Fail
<1>10. ASSUME NEW w \in Workers, Return(w)
       PROVE  NonNegativeInv'
  BY <1>7, <1>10 DEF Return, TypeOK
<1>11. ASSUME NEW w \in Workers, NEW t \in Transactions, BeginTransact(w, t)
       PROVE  NonNegativeInv'
  BY <1>7, <1>11 DEF BeginTransact, Goto
<1>12. CASE Crash
  BY <1>4, <1>12 DEF Crash, WritesNonNegative
<1>13. CASE UNCHANGED vars
  BY <1>4, <1>13 DEF vars, locals, WritesNonNegative
<1>14. CASE MarkAccounts
  BY <1>14 DEF MarkAccounts, locals, BalancesNonNegative, WritesNonNegative
<1> QED BY <1>1, <1>8, <1>9, <1>10, <1>11, <1>12, <1>13, <1>14 DEF ServiceNext

-----------------------------------------------------------------------------
(* One currency per transfer.  The copies a call took of the two rows stay *)
(* right about the currency, and past the check they agree with the        *)
(* transaction.                                                            *)
UnitsTrue ==
    \A w \in Workers :
        IsActive(w) => /\ unit[w].from = accounts[tx[w].from].currency
                       /\ unit[w].to = accounts[tx[w].to].currency

Checked ==
    \A w \in Workers :
        pc[w] \in {"readFrom", "readTo", "updateFrom", "updateTo"}
            => CurrenciesMatch(w)

CurrencyInv == UnitsTrue /\ Checked

(* There is no account at first.                                           *)
LEMMA CurrencyInit == Init => CurrencyInv
  BY DEF Init, CurrencyInv, UnitsTrue, Checked, IsActive

(* A currency is set when the row is inserted; a call past its checks has  *)
(* compared both.                                                          *)
LEMMA CurrencyStep ==
    ASSUME TypeInv, CurrencyInv, [ServiceNext]_vars
    PROVE  CurrencyInv'
<1> USE DEF TypeInv, CurrencyInv
<1>0. ASSUME NEW w \in Workers, IsActive(w)
      PROVE  /\ accounts'[tx[w].from].currency = accounts[tx[w].from].currency
             /\ accounts'[tx[w].to].currency = accounts[tx[w].to].currency
  BY <1>0, ActiveCall, RowsPersist
(* A step that leaves transactions and copies alone, and goes past the     *)
(* check only where it holds.                                              *)
<1>1. ASSUME NEW w \in Workers, UNCHANGED <<tx, unit>>,
             NEW step \in Steps, Goto(w, step), IsActive(w),
             step \in {"readFrom", "readTo", "updateFrom", "updateTo"}
                => CurrenciesMatch(w)
      PROVE  CurrencyInv'
  <2>1. UnitsTrue'
    BY <1>0, <1>1 DEF UnitsTrue, Goto, IsActive, TypeOK
  <2>2. Checked'
    BY <1>1 DEF Checked, Goto, CurrenciesMatch, TypeOK
  <2> QED BY <2>1, <2>2
<1>2. ASSUME NEW w \in Workers, Reject(w) \/ Execute(w) \/ Skip(w)
      PROVE  CurrencyInv'
  BY <1>1, <1>2 DEF Reject, Execute, Skip, NextElement, locals, IsActive, Steps
<1>3. ASSUME NEW w \in Workers, UpdateFrom(w) \/ UpdateTo(w) \/ AckLost(w)
      PROVE  CurrencyInv'
  <2>1. IsActive(w) /\ CurrenciesMatch(w)
    BY <1>3 DEF UpdateFrom, UpdateTo, AckLost, IsActive, Checked
  <2>2. PICK step \in Steps : Goto(w, step)
    BY <1>3 DEF UpdateFrom, UpdateTo, AckLost, NextElement, Steps
  <2>3. UNCHANGED <<tx, unit>>
    BY <1>3 DEF UpdateFrom, UpdateTo, AckLost
  <2> QED BY <1>1, <2>1, <2>2, <2>3
<1>4. ASSUME NEW w \in Workers, ReadFails(w) \/ UpdateFails(w)
      PROVE  CurrencyInv'
  BY <1>1, <1>4 DEF ReadFails, UpdateFails, locals, IsActive, Steps
<1>5. ASSUME NEW w \in Workers, ReadFrom(w) \/ ReadTo(w)
      PROVE  CurrencyInv'
  <2>1. IsActive(w) /\ CurrenciesMatch(w)
    BY <1>5 DEF ReadFrom, ReadTo, IsActive, Checked
  <2>2. PICK step \in Steps : Goto(w, step)
    BY <1>5 DEF ReadFrom, ReadTo, Steps
  <2>3. /\ unit[w] \in [from : Currencies, to : Currencies]
        /\ unit[w].from = accounts[tx[w].from].currency
        /\ unit[w].to = accounts[tx[w].to].currency
    BY <2>1 DEF UnitsTrue, TypeOK
  <2>4. unit[w] = [from |-> unit[w].from, to |-> unit[w].to]
    BY <2>3
  <2>5. unit' = [unit EXCEPT ![w] = [from |-> unit[w].from, to |-> unit[w].to]]
    BY <1>5, <2>3 DEF ReadFrom, ReadTo
  <2>6. UNCHANGED <<tx, unit>>
    BY <1>5, <2>4, <2>5 DEF ReadFrom, ReadTo, TypeOK
  <2> QED BY <1>1, <2>1, <2>2, <2>6
<1>6. ASSUME NEW w \in Workers, NEW t \in Transactions, BeginTransact(w, t)
      PROVE  CurrencyInv'
  <2>1. /\ BeginTransact(w, t)
        /\ UNCHANGED accounts
        /\ \A v \in Workers \ {w} :
              pc'[v] = pc[v] /\ tx'[v] = tx[v] /\ unit'[v] = unit[v]
        /\ pc'[w] = "iterate" /\ tx'[w] = t
        /\ unit'[w] = [from |-> accounts[t.from].currency,
                       to |-> accounts[t.to].currency]
    BY <1>6 DEF BeginTransact, TypeOK
  <2>2. UnitsTrue'
    BY <2>1 DEF UnitsTrue, IsActive
  <2>3. Checked'
    BY <2>1 DEF Checked, CurrenciesMatch
  <2> QED BY <2>2, <2>3
<1>7. ASSUME NEW w \in Workers, Return(w)
      PROVE  CurrencyInv'
  <2>1. /\ UNCHANGED accounts
        /\ \A v \in Workers \ {w} :
              pc'[v] = pc[v] /\ tx'[v] = tx[v] /\ unit'[v] = unit[v]
        /\ pc'[w] = "idle"
    BY <1>7 DEF Return, Goto, TypeOK
  <2>2. UnitsTrue'
    BY <2>1 DEF UnitsTrue, IsActive
  <2>3. Checked'
    BY <2>1 DEF Checked, CurrenciesMatch
  <2> QED BY <2>2, <2>3
<1>8. ASSUME NEW n \in Numbers, NEW b \in Deposits, NEW c \in Currencies,
             PutAccount(n, b, c)
      PROVE  CurrencyInv'
  <2>1. UNCHANGED <<pc, tx, unit>>
    BY <1>8 DEF PutAccount, locals
  <2>2. UnitsTrue'
    BY <1>0, <2>1 DEF UnitsTrue, IsActive
  <2>3. Checked'
    BY <2>1 DEF Checked, CurrenciesMatch
  <2> QED BY <2>2, <2>3
<1>9. CASE Crash
  BY <1>9 DEF Crash, UnitsTrue, Checked, IsActive
<1>10. CASE UNCHANGED vars
  BY <1>10 DEF vars, locals, UnitsTrue, Checked, CurrenciesMatch, IsActive
<1>11. CASE MarkAccounts
  <2>1. UNCHANGED <<pc, tx, unit>>
    BY <1>11 DEF MarkAccounts, locals
  <2>2. UnitsTrue'
    BY <1>0, <2>1 DEF UnitsTrue, IsActive
  <2>3. Checked'
    BY <2>1 DEF Checked, CurrenciesMatch
  <2> QED BY <2>2, <2>3
<1> QED BY <1>2, <1>3, <1>4, <1>5, <1>6, <1>7, <1>8, <1>9, <1>10, <1>11
        DEF ServiceNext, Advance, Fail

(* Past the check, with copies that tell the truth, the table agrees.      *)
LEMMA CurrencyFollows == TypeInv /\ CurrencyInv => SameCurrency
<1> SUFFICES ASSUME TypeInv, CurrencyInv, NEW w \in Workers,
                    pc[w] \in {"updateFrom", "updateTo"}
             PROVE  \A n \in Parties(tx[w]) :
                        accounts[n].currency = tx[w].currency
  BY DEF SameCurrency
<1> QED BY DEF CurrencyInv, UnitsTrue, Checked, CurrenciesMatch, IsActive,
               Parties

-----------------------------------------------------------------------------
(* Transfers are applied once.  Between two different accounts exactly one *)
(* of the loop's two elements executes: the first for a credit, the second *)
(* for a debit.  Done counts the UPDATEs of the elements already finished. *)
Done(w) ==
    IF \/ IsCredit(tx[w]) /\ pass[w] > 0
       \/ IsDebit(tx[w]) /\ pass[w] > 1
    THEN 2 ELSE 0

InBranch == {"readFrom", "readTo", "updateFrom", "updateTo"}

CallWrites(w) ==
    /\ pc[w] \in {"iterate", "readFrom", "readTo", "updateFrom", "returned"}
          => writes[w] = Done(w)
    /\ pc[w] = "updateTo" => writes[w] = 1
    /\ pc[w] \in InBranch => Executes(w) /\ Done(w) = 0
    /\ pc[w] = "iterate" /\ pass[w] = 1 => CurrenciesMatch(w)
    /\ pc[w] = "returned" => pass[w] = 2
    /\ pc[w] = "threw" => /\ writes[w] \in 0..2
                          /\ tx[w].type = 0 => writes[w] = 0
                          /\ FaultyOps = {} => writes[w] = 0

OneCall(w) ==
    /\ pc[w] = "idle" => writes[w] = 0
    /\ IsActive(w) /\ tx[w].from # tx[w].to => CallWrites(w)

AppliedInv == \A w \in Workers : OneCall(w)

(* No call has written anything at first.                                  *)
LEMMA AppliedInit == Init => AppliedInv
  BY DEF Init, AppliedInv, OneCall, IsActive

(* A worker's step leaves the other workers' calls alone.                  *)
LEMMA OthersUntouched ==
    ASSUME TypeOK, NEW w \in Workers,
           \/ Advance(w) \/ Fail(w) \/ Return(w)
           \/ \E t \in Transactions : BeginTransact(w, t),
           NEW v \in Workers \ {w}
    PROVE  /\ pc'[v] = pc[v] /\ tx'[v] = tx[v] /\ pass'[v] = pass[v]
           /\ unit'[v] = unit[v] /\ writes'[v] = writes[v]
           /\ newFrom'[v] = newFrom[v] /\ newTo'[v] = newTo[v]
<1>1. CASE Reject(w) \/ Execute(w) \/ Skip(w)
  BY <1>1 DEF TypeOK, Reject, Execute, Skip, NextElement, Goto, locals
<1>2. CASE ReadFrom(w) \/ ReadTo(w)
  BY <1>2 DEF TypeOK, ReadFrom, ReadTo, Goto
<1>3. CASE UpdateFrom(w) \/ UpdateTo(w)
  BY <1>3 DEF TypeOK, UpdateFrom, UpdateTo, NextElement, Goto
<1>4. CASE Fail(w)
  BY <1>4 DEF TypeOK, Fail, ReadFails, UpdateFails, AckLost, Goto, locals
<1>5. CASE Return(w)
  BY <1>5 DEF TypeOK, Return, Goto
<1>6. CASE \E t \in Transactions : BeginTransact(w, t)
  BY <1>6 DEF TypeOK, BeginTransact
<1> QED BY <1>1, <1>2, <1>3, <1>4, <1>5, <1>6 DEF Advance

(* A step counts its own UPDATE in its own call and leaves the other       *)
(* calls' counts alone.                                                    *)
LEMMA AppliedStep ==
    ASSUME TypeInv, CurrencyInv, AppliedInv, [ServiceNext]_vars
    PROVE  AppliedInv'
<1> USE DEF TypeInv, CurrencyInv
<1>1. ASSUME NEW v \in Workers, OneCall(v),
             pc'[v] = pc[v], tx'[v] = tx[v], pass'[v] = pass[v],
             unit'[v] = unit[v], writes'[v] = writes[v]
      PROVE  OneCall(v)'
  BY <1>1 DEF OneCall, CallWrites, IsActive, Done, Executes, Element,
              CurrenciesMatch
<1>2. ASSUME NEW w \in Workers, OneCall(w)',
             \/ Advance(w) \/ Fail(w) \/ Return(w)
             \/ \E t \in Transactions : BeginTransact(w, t)
      PROVE  AppliedInv'
  <2> SUFFICES ASSUME NEW v \in Workers
               PROVE  OneCall(v)'
    BY DEF AppliedInv
  <2>1. CASE v = w
    BY <1>2, <2>1
  <2>2. CASE v # w
    BY <1>1, <1>2, <2>2, OthersUntouched DEF AppliedInv
  <2> QED BY <2>1, <2>2
<1>3. ASSUME NEW w \in Workers
      PROVE  OneCall(w) /\ pass[w] \in 0..2 /\ writes[w] \in Nat
  BY DEF AppliedInv, TypeOK
<1>4. ASSUME NEW w \in Workers, Reject(w)
      PROVE  OneCall(w)'
  <2>1. /\ pc[w] = "iterate" /\ pc'[w] = "threw"
        /\ tx'[w] = tx[w] /\ writes'[w] = writes[w]
    BY <1>4 DEF Reject, Goto, locals, TypeOK
  <2>2. ASSUME tx[w].from # tx[w].to
        PROVE  writes[w] = 0
    <3>1. ~CurrenciesMatch(w)
      BY <1>4, <2>2 DEF Reject
    <3>2. pass[w] = 0 /\ writes[w] = Done(w)
      BY <1>3, <2>1, <2>2, <3>1 DEF OneCall, CallWrites, IsActive, LoopBounded
    <3> QED BY <3>2 DEF Done
  <2> QED BY <2>1, <2>2 DEF OneCall, CallWrites, IsActive, InBranch
<1>5. ASSUME NEW w \in Workers, Execute(w)
      PROVE  OneCall(w)'
  <2>1. /\ pc[w] = "iterate" /\ pc'[w] = "readFrom" /\ Executes(w)
        /\ tx'[w] = tx[w] /\ writes'[w] = writes[w] /\ pass'[w] = pass[w]
    BY <1>5 DEF Execute, Goto, locals, TypeOK
  <2>2. pass[w] \in 0..1
    BY <2>1 DEF LoopBounded
  <2>3. tx[w].from # tx[w].to => Done(w) = 0
    BY <2>1, <2>2 DEF Executes, Element, Done, IsCredit, IsDebit
  <2> QED BY <1>3, <2>1, <2>2, <2>3
          DEF OneCall, CallWrites, IsActive, InBranch, Done, Executes, Element
<1>6. ASSUME NEW w \in Workers, Skip(w)
      PROVE  OneCall(w)'
  <2>1. /\ pc[w] = "iterate" /\ ~Executes(w) /\ CurrenciesMatch(w)
        /\ pass[w] \in 0..1 /\ pass'[w] = pass[w] + 1
        /\ pc'[w] = IF pass[w] = 0 THEN "iterate" ELSE "returned"
        /\ tx'[w] = tx[w] /\ writes'[w] = writes[w] /\ unit'[w] = unit[w]
    BY <1>6 DEF Skip, NextElement, Goto, TypeOK, LoopBounded
  <2>2. Done(w)' = Done(w)
    BY <2>1 DEF Done, Executes, Element, IsCredit, IsDebit
  <2>3. CurrenciesMatch(w)'
    BY <2>1 DEF CurrenciesMatch
  <2> QED BY <1>3, <2>1, <2>2, <2>3 DEF OneCall, CallWrites, IsActive, InBranch
<1>7. ASSUME NEW w \in Workers, ReadFrom(w) \/ ReadTo(w)
      PROVE  OneCall(w)'
  <2>1. /\ pc[w] \in {"readFrom", "readTo"}
        /\ pc'[w] \in {"readTo", "updateFrom", "threw"}
        /\ tx'[w] = tx[w] /\ writes'[w] = writes[w] /\ pass'[w] = pass[w]
    BY <1>7 DEF ReadFrom, ReadTo, Goto, TypeOK
  <2> QED BY <1>3, <2>1
          DEF OneCall, CallWrites, IsActive, InBranch, Done, Executes, Element
<1>8. ASSUME NEW w \in Workers, UpdateFrom(w)
      PROVE  OneCall(w)'
  <2>1. /\ pc[w] = "updateFrom" /\ pc'[w] = "updateTo"
        /\ tx'[w] = tx[w] /\ writes'[w] = writes[w] + 1 /\ pass'[w] = pass[w]
    BY <1>8 DEF UpdateFrom, Goto, TypeOK
  <2> QED BY <1>3, <2>1
          DEF OneCall, CallWrites, IsActive, InBranch, Done, Executes, Element
<1>9. ASSUME NEW w \in Workers, UpdateTo(w)
      PROVE  OneCall(w)'
  <2>1. /\ pc[w] = "updateTo" /\ pass[w] \in 0..1 /\ pass'[w] = pass[w] + 1
        /\ pc'[w] = IF pass[w] = 0 THEN "iterate" ELSE "returned"
        /\ tx'[w] = tx[w] /\ writes'[w] = writes[w] + 1 /\ unit'[w] = unit[w]
    BY <1>9 DEF UpdateTo, NextElement, Goto, TypeOK, LoopBounded
  <2>2. CurrenciesMatch(w)'
    BY <2>1 DEF Checked, CurrenciesMatch
  <2>3. tx[w].from # tx[w].to => Done(w)' = 2
    BY <1>3, <2>1
       DEF OneCall, CallWrites, IsActive, InBranch, Done, Executes, Element
  <2> QED BY <1>3, <2>1, <2>2, <2>3 DEF OneCall, CallWrites, IsActive, InBranch
<1>10. ASSUME NEW w \in Workers, Fail(w)
       PROVE  OneCall(w)'
  <2>1. /\ pc[w] \in InBranch \union {"iterate"} /\ pc'[w] = "threw"
        /\ tx'[w] = tx[w] /\ FaultyOps # {}
        /\ writes'[w] = IF AckLost(w) THEN writes[w] + 1 ELSE writes[w]
        /\ AckLost(w) => pc[w] \in {"updateFrom", "updateTo"}
    BY <1>10 DEF Fail, ReadFails, UpdateFails, AckLost, Goto, locals, TypeOK,
                 InBranch
  <2>2. tx[w].from # tx[w].to =>
            writes'[w] \in 0..2 /\ (tx[w].type = 0 => writes'[w] = 0)
    BY <1>3, <2>1 DEF OneCall, CallWrites, IsActive, InBranch, Done, Executes,
                      IsCredit, IsDebit
  <2> QED BY <2>1, <2>2 DEF OneCall, CallWrites, IsActive, InBranch
<1>11. ASSUME NEW w \in Workers, Return(w)
       PROVE  OneCall(w)'
  BY <1>11 DEF Return, Goto, TypeOK, OneCall, IsActive
<1>12. ASSUME NEW w \in Workers, NEW t \in Transactions, BeginTransact(w, t)
       PROVE  OneCall(w)'
  <2>1. /\ pc[w] = "idle" /\ pc'[w] = "iterate" /\ pass'[w] = 0
        /\ writes'[w] = 0
    BY <1>3, <1>12 DEF BeginTransact, TypeOK, LoopBounded, OneCall
  <2> QED BY <2>1 DEF OneCall, CallWrites, IsActive, InBranch, Done
<1>13. CASE UNCHANGED <<pc, locals>>
  BY <1>1, <1>13 DEF locals, AppliedInv
<1>14. CASE Crash
  BY <1>14 DEF Crash, AppliedInv, OneCall, IsActive
<1>15. ASSUME NEW w \in Workers, Advance(w)
       PROVE  AppliedInv'
  BY <1>2, <1>4, <1>5, <1>6, <1>7, <1>8, <1>9, <1>15 DEF Advance
<1> QED BY <1>2, <1>10, <1>11, <1>12, <1>13, <1>14, <1>15
        DEF ServiceNext, PutAccount, MarkAccounts, vars

(* A call that has returned is past both elements.                         *)
LEMMA AppliedFollows == TypeInv /\ AppliedInv => AppliedOnce
<1> SUFFICES ASSUME TypeInv, AppliedInv, NEW w \in Workers, IsActive(w),
                    tx[w].from # tx[w].to
             PROVE  /\ writes[w] =< 2
                    /\ tx[w].type = 0 => writes[w] = 0
                    /\ pc[w] = "returned" => writes[w] \in {0, 2}
                    /\ pc[w] = "returned" /\ tx[w].type # 0 => writes[w] = 2
  BY DEF AppliedOnce
<1>1. CallWrites(w) /\ pc[w] \in Steps /\ tx[w].type \in {-1, 0, 1}
  BY ActiveCall DEF AppliedInv, OneCall, TypeInv, TypeOK
<1> QED BY <1>1 DEF CallWrites, InBranch, Done, Executes, IsCredit, IsDebit,
                    Steps, IsActive

(* A step on which the method throws of itself, between two different      *)
(* accounts, finds nothing written.                                        *)
LEMMA RejectionStep ==
    ASSUME TypeInv, AppliedInv, [ServiceNext]_vars, NEW w \in Workers,
           pc[w] # "threw", pc'[w] = "threw", tx[w].from # tx[w].to,
           Reject(w) \/ ~Fail(w)
    PROVE  writes[w] = 0
<1> USE DEF TypeInv
<1>1. OneCall(w) /\ pass[w] \in 0..2
  BY DEF AppliedInv, TypeOK
<1>2. CASE Reject(w)
  <2>1. pc[w] = "iterate" /\ ~CurrenciesMatch(w)
    BY <1>2 DEF Reject
  <2>2. pass[w] = 0 /\ writes[w] = Done(w)
    BY <1>1, <2>1 DEF OneCall, CallWrites, IsActive, LoopBounded
  <2> QED BY <2>2 DEF Done
<1>3. CASE ReadFrom(w) \/ ReadTo(w)
  <2>1. pc[w] \in {"readFrom", "readTo"}
    BY <1>3 DEF ReadFrom, ReadTo
  <2> QED BY <1>1, <2>1 DEF OneCall, CallWrites, IsActive, InBranch
<1>4. CASE Execute(w) \/ Skip(w) \/ UpdateFrom(w) \/ UpdateTo(w)
  BY <1>4 DEF Execute, Skip, UpdateFrom, UpdateTo, NextElement, Goto, TypeOK
<1>5. CASE Return(w) \/ \E t \in Transactions : BeginTransact(w, t)
  BY <1>5 DEF Return, BeginTransact, Goto, TypeOK
<1>6. ASSUME NEW v \in Workers \ {w},
             \/ Advance(v) \/ Fail(v) \/ Return(v)
             \/ \E t \in Transactions : BeginTransact(v, t)
      PROVE  FALSE
  BY <1>6, OthersUntouched
<1>7. CASE \E n \in Numbers, b \in Deposits, c \in Currencies :
              PutAccount(n, b, c)
  BY <1>7 DEF PutAccount
<1>8. CASE Crash
  BY <1>8 DEF Crash
<1>9. CASE UNCHANGED vars
  BY <1>9 DEF vars
<1>10. CASE MarkAccounts
  BY <1>10 DEF MarkAccounts
<1> QED BY <1>2, <1>3, <1>4, <1>5, <1>6, <1>7, <1>8, <1>9, <1>10
        DEF ServiceNext, Advance

-----------------------------------------------------------------------------
(* All of it together, for callers of any kind.                            *)
ServiceInv == TypeInv /\ NonNegativeInv /\ CurrencyInv /\ AppliedInv

(* It holds of the empty table,                                            *)
LEMMA ServiceInit == Init => ServiceInv
  BY TypeInit, NonNegativeInit, CurrencyInit, AppliedInit DEF ServiceInv

(* every step of the service and of its callers preserves it,              *)
LEMMA ServiceStep == ServiceInv /\ [ServiceNext]_vars => ServiceInv'
  BY TypeStep, NonNegativeStep, CurrencyStep, AppliedStep DEF ServiceInv

(* so it holds throughout.                                                 *)
LEMMA ServiceInvariant == ServiceSpec => []ServiceInv
  BY ServiceInit, ServiceStep, PTL DEF ServiceSpec

(* AccountService is one such service.                                     *)
LEMMA SpecIsService == Spec => ServiceSpec
  BY NextIsService, PTL DEF Spec, ServiceSpec

(* What the invariant says in the words of the properties.                 *)
LEMMA ServiceFollows ==
    ServiceInv => /\ TypeOK
                  /\ BalancesNonNegative
                  /\ SameCurrency
                  /\ AppliedOnce
  BY CurrencyFollows, AppliedFollows DEF ServiceInv, TypeInv, NonNegativeInv

(* The refusals of a service among callers of any kind.                    *)
LEMMA ServiceRefusals == ServiceSpec => RejectionsLeaveNoTrace
<1> DEFINE Refusals == \A w \in Workers :
                           /\ pc[w] # "threw" /\ pc'[w] = "threw"
                           /\ tx[w].from # tx[w].to
                           /\ Reject(w) \/ ~Fail(w)
                           => writes[w] = 0
<1>1. ServiceInv /\ [ServiceNext]_vars => [Refusals]_vars
  BY RejectionStep DEF ServiceInv
<1> HIDE DEF Refusals
<1>2. ServiceSpec => [][Refusals]_vars
  BY <1>1, ServiceInvariant, PTL DEF ServiceSpec
<1> QED BY <1>2 DEF Refusals, RejectionsLeaveNoTrace

(* Type correctness: rows stay rows, a worker outside transactInAccounts   *)
(* has no transaction, and the loop never passes its second element.       *)
THEOREM TypeCorrect == Spec => []TypeOK
  BY SpecIsService, ServiceInvariant, ServiceFollows, PTL

(* No account is ever overdrawn, however many callers share it and         *)
(* whatever fails between their steps: the check of transactInAccounts     *)
(* needs no lock to keep balances from going below zero.                   *)
THEOREM NoOverdraft == Spec => []BalancesNonNegative
  BY SpecIsService, ServiceInvariant, ServiceFollows, PTL

(* Money never crosses currencies: whenever an UPDATE of a transfer is     *)
(* about to run, both rows have the currency of its transaction.           *)
THEOREM OneCurrency == Spec => []SameCurrency
  BY SpecIsService, ServiceInvariant, ServiceFollows, PTL

(* A transfer between two accounts that returns has been applied exactly   *)
(* once, although each of the loop's two elements could match a branch; a  *)
(* call that throws has applied it at most once.                           *)
THEOREM TransfersAppliedOnce == Spec => []AppliedOnce
  BY SpecIsService, ServiceInvariant, ServiceFollows, PTL

(* What transactInAccounts refuses it refuses before its first UPDATE,     *)
(* whatever statements of its own or of other calls have failed before:    *)
(* the exceptions it raises itself leave nothing half done.                *)
THEOREM RefusalsLeaveNoTrace == Spec => RejectionsLeaveNoTrace
  BY SpecIsService, ServiceRefusals
=============================================================================
