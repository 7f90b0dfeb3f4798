------------------------ MODULE AccountRegistryProofs ------------------------
(***************************************************************************)
(* Theorems about AccountRegistry, for every set of clients, rows, numbers *)
(* and balances and every bound of the clock.                              *)
(*                                                                         *)
(* The argument is about the rows of one number: an UPDATE reaches all of  *)
(* them, so what it wrote last they have in common until a row is          *)
(* inserted.  Which of them a lookup finds then makes no difference.       *)
(***************************************************************************)
EXTENDS AccountRegistry, SetInduction

USE RegistryAssumption

(* All rows of a number have the balance its last UPDATE gave it.          *)
BalanceShared ==
    \A n \in Numbers :
        written[n] # Unknown => \A i \in RowsOf(n) : table[i].balance = written[n]

(* All rows of a number nothing was inserted for since have one date.      *)
DateShared ==
    \A n \in settled : \A i, j \in RowsOf(n) : table[i].date = table[j].date

(* What c's request does. *)
ClientStep(c) ==
    \/ \E n \in Numbers, b \in Balances : NewAccount(c, n, b)
    \/ Insert(c) \/ InsertFails(c)
    \/ \E n \in Numbers : Lookup(c, n)
    \/ \E b \in Balances : Change(c, b)
    \/ \E from, to \in Numbers : BeginClose(c, from, to)
    \/ Update(c) \/ Close(c) \/ UpdateFails(c)

-----------------------------------------------------------------------------
(* A row is one of its number's.                                           *)
LEMMA RowFacts ==
    ASSUME RegistryTypeOK, NEW n \in Numbers, NEW i \in RowsOf(n)
    PROVE  /\ i \in Ids /\ i \in RowIds
           /\ table[i] \in Accounts /\ table[i].number = n
           /\ table[i].date \in Nat /\ table[i].date \in Dates
<1>1. i \in Ids /\ table[i] # NoRow /\ table[i].number = n
  BY DEF RowsOf, RowIds
<1>2. table[i] \in Accounts
  BY <1>1 DEF RegistryTypeOK
<1> QED BY <1>1, <1>2 DEF Accounts, Dates, RowIds

(* A collection of rows is a part of them, with one row of each date.      *)
LEMMA CollectedFacts ==
    ASSUME NEW ids, NEW kept \in Collected(ids)
    PROVE  /\ kept \subseteq ids
           /\ \A i \in ids : \E k \in kept : table[k].date = table[i].date
           /\ \A i, j \in kept : table[i].date = table[j].date => i = j
<1>1. /\ kept \subseteq ids
      /\ \A i \in ids : \E k \in kept :
            /\ table[k].date = table[i].date
            /\ \A other \in kept : table[other].date = table[i].date => other = k
  BY DEF Collected
<1> QED BY <1>1

(* The first row of a collection is in it: dates are naturals, so one is   *)
(* the oldest.                                                             *)
LEMMA FirstKept ==
    ASSUME NEW kept, kept # {}, \A i \in kept : table[i].date \in Nat
    PROVE  /\ First(kept) \in kept
           /\ \A k \in kept : table[First(kept)].date =< table[k].date
<1> DEFINE dates == {table[i].date : i \in kept}
<1>1. dates \in SUBSET Nat /\ dates # {}
  OBVIOUS
<1>2. PICK d \in dates : \A e \in dates : d =< e
  BY <1>1, LeastNatural
<1>3. PICK i \in kept : \A k \in kept : table[i].date =< table[k].date
  BY <1>2
<1> QED BY <1>3 DEF First

(* What a lookup finds is a row of the number.                             *)
LEMMA FoundRows ==
    ASSUME RegistryTypeOK, NEW n \in Numbers, NEW i \in Found(n)
    PROVE  i \in RowsOf(n)
<1>1. PICK kept \in Collected(RowsOf(n)) \ {{}} : i = First(kept)
  BY DEF Found
<1>2. kept \subseteq RowsOf(n) /\ kept # {}
  BY <1>1, CollectedFacts
<1>3. \A k \in kept : table[k].date \in Nat
  BY <1>2, RowFacts
<1>4. First(kept) \in kept
  BY <1>2, <1>3, FirstKept
<1> QED BY <1>1, <1>2, <1>4

(* The entity of an update or of a closing.                                *)
LEMMA HeldFacts ==
    ASSUME RegistryTypeOK, NEW c \in Clients
    PROVE  /\ doing[c] \in {"insert", "change", "update"} => held[c] \in Accounts
           /\ doing[c] = "close" => held[c] \in Closings
           /\ doing[c] = "idle" => held[c] = NoRow
  BY DEF RegistryTypeOK

(* No entity is the mark of an absent row.                                 *)
LEMMA EntityFacts ==
    /\ \A a \in Accounts : /\ a # NoRow
                           /\ a.number \in Numbers /\ a.balance \in Balances
                           /\ a.date \in Dates
    /\ \A a \in Closings : a.from \in Numbers /\ a.to \in Numbers /\ a.date \in Dates
<1>1. Dates \subseteq Nat
  BY DEF Dates
<1> QED BY <1>1 DEF Accounts, Closings

-----------------------------------------------------------------------------
(* What becomes of the rows: an insert adds one, an update overwrites all  *)
(* of a number, a closing dates all of two.                                *)
LEMMA InsertRows ==
    ASSUME RegistryTypeOK, NEW c \in Clients, Insert(c)
    PROVE  \E i \in Ids : /\ table[i] = NoRow
                          /\ table' = [table EXCEPT ![i] = held[c]]
                          /\ table'[i] = held[c]
                          /\ \A j \in Ids \ {i} : table'[j] = table[j]
  BY DEF Insert, RowIds, RegistryTypeOK

(* An UPDATE of one entity rewrites every row of its number and no other.  *)
LEMMA UpdateRows ==
    ASSUME RegistryTypeOK, NEW c \in Clients, Update(c), NEW n \in Numbers
    PROVE  /\ RowsOf(n)' = RowsOf(n)
           /\ \A i \in RowsOf(n) :
                 table'[i] = IF n = held[c].number THEN held[c] ELSE table[i]
<1>1. held[c] \in Accounts
  BY HeldFacts DEF Update
<1>2. \A i \in Ids :
         table'[i] = IF table[i] # NoRow /\ table[i].number = held[c].number
                     THEN held[c] ELSE table[i]
  BY DEF Update, Reached, RowIds
<1>3. held[c] # NoRow
  BY <1>1, EntityFacts
<1> QED BY <1>2, <1>3 DEF RowsOf, RowIds

(* The closing UPDATE re-dates every row of the two numbers and leaves the *)
(* balances alone.                                                         *)
LEMMA CloseRows ==
    ASSUME RegistryTypeOK, NEW c \in Clients, Close(c), NEW n \in Numbers
    PROVE  /\ RowsOf(n)' = RowsOf(n)
           /\ \A i \in RowsOf(n) :
                 /\ table'[i].balance = table[i].balance
                 /\ table'[i].date = IF n \in {held[c].from, held[c].to}
                                     THEN held[c].date ELSE table[i].date
<1>1. held[c] \in Closings /\ held[c].date \in Dates
  BY HeldFacts, EntityFacts DEF Close
<1>2. ASSUME NEW i \in Ids, table[i] # NoRow
      PROVE  /\ table'[i] # NoRow /\ table'[i].number = table[i].number
             /\ table'[i].balance = table[i].balance
             /\ table'[i].date = IF table[i].number \in {held[c].from, held[c].to}
                                 THEN held[c].date ELSE table[i].date
  <2>1. table[i] \in Accounts
    BY <1>2 DEF RegistryTypeOK
  <2>2. [table[i] EXCEPT !.date = held[c].date] \in Accounts
    BY <1>1, <2>1 DEF Accounts
  <2>3. table'[i] = IF table[i].number \in {held[c].from, held[c].to}
                    THEN [table[i] EXCEPT !.date = held[c].date] ELSE table[i]
    BY <1>2 DEF Close, Reached, RowIds
  <2> QED BY <2>1, <2>2, <2>3, EntityFacts DEF Accounts
<1>3. ASSUME NEW i \in Ids, table[i] = NoRow
      PROVE  table'[i] = NoRow
  BY <1>3 DEF Close, Reached, RowIds
<1> QED BY <1>2, <1>3 DEF RowsOf, RowIds

-----------------------------------------------------------------------------
(* Type correctness. *)
TableTypes ==
    /\ table \in [Ids -> Accounts \union {NoRow}]
    /\ clock \in Dates
    /\ written \in [Numbers -> Balances \union {Unknown}]
    /\ settled \subseteq Numbers

ClientTypes(d, h) ==
    /\ d \in Activities
    /\ d = "idle" => h = NoRow
    /\ d = "close" => h \in Closings
    /\ d \in {"insert", "change", "update"} => h \in Accounts

(* The type invariant, taken apart: what the table keeps and what each     *)
(* client holds.                                                           *)
LEMMA TypeParts ==
    RegistryTypeOK <=> /\ TableTypes
                       /\ doing \in [Clients -> Activities]
                       /\ \A c \in Clients : ClientTypes(doing[c], held[c])
                       /\ NoneAhead
  BY DEF RegistryTypeOK, TableTypes, ClientTypes, Activities

(* The clients' variables are functions on the clients.                    *)
ClientFunctions ==
    /\ doing \in [Clients -> Activities]
    /\ DOMAIN held = Clients /\ held = [c \in Clients |-> held[c]]

RegistryInv == RegistryTypeOK /\ ClientFunctions

(* And put together after a step.                                          *)
LEMMA TypePartsNext ==
    /\ TableTypes' /\ ClientFunctions' /\ NoneAhead'
    /\ \A c \in Clients : ClientTypes(doing'[c], held'[c])
    => RegistryInv'
  BY DEF RegistryTypeOK, TableTypes, ClientTypes, Activities, ClientFunctions,
         RegistryInv

(* A client's step leaves the table a table of well-formed rows.           *)
LEMMA TableTypesStep ==
    ASSUME RegistryTypeOK, NEW c \in Clients, ClientStep(c)
    PROVE  TableTypes'
<1> USE DEF TableTypes
<1>1. TableTypes
  BY TypeParts
<1>2. CASE Insert(c)
  <2>1. held[c] \in Accounts
    BY <1>2, HeldFacts DEF Insert
  <2>2. table' \in [Ids -> Accounts \union {NoRow}]
    BY <1>1, <1>2, <2>1, InsertRows
  <2> QED BY <1>1, <1>2, <2>1, <2>2 DEF Insert
<1>3. CASE Update(c)
  <2>1. held[c] \in Accounts /\ held[c].number \in Numbers /\ held[c].balance \in Balances
    BY <1>3, HeldFacts, EntityFacts DEF Update
  <2>2. table' \in [Ids -> Accounts \union {NoRow}]
    BY <1>1, <1>3, <2>1 DEF Update
  <2>3. written' \in [Numbers -> Balances \union {Unknown}] /\ settled' \subseteq Numbers
    BY <1>1, <1>3, <2>1 DEF Update
  <2> QED BY <1>1, <1>3, <2>2, <2>3 DEF Update
<1>4. CASE Close(c)
  <2>1. /\ held[c].date \in Dates
        /\ held[c].from \in Numbers /\ held[c].to \in Numbers
    BY <1>4, HeldFacts, EntityFacts DEF Close
  <2>2. ASSUME NEW i \in Ids
        PROVE  table'[i] \in Accounts \union {NoRow}
    <3>1. CASE table'[i] = table[i]
      BY <1>1, <3>1
    <3>2. CASE table[i] # NoRow /\ table'[i] = [table[i] EXCEPT !.date = held[c].date]
      <4>1. table[i] \in Accounts
        BY <1>1, <3>2
      <4> QED BY <2>1, <3>2, <4>1 DEF Accounts
    <3> QED BY <1>4, <3>1, <3>2 DEF Close, Reached, RowIds
  <2>3. table' \in [Ids -> Accounts \union {NoRow}]
    BY <1>4, <2>2 DEF Close
  <2> QED BY <1>1, <1>4, <2>1, <2>3 DEF Close
<1>5. CASE UNCHANGED <<table, clock, written, settled>>
  BY <1>1, <1>5
<1> QED BY <1>2, <1>3, <1>4, <1>5
        DEF ClientStep, NewAccount, InsertFails, Lookup, Change, BeginClose, UpdateFails

(* What c's step makes of its own entity, and of others'.                  *)
LEMMA ClientTypesStep ==
    ASSUME RegistryInv, NEW c \in Clients, ClientStep(c)
    PROVE  /\ ClientFunctions'
           /\ ClientTypes(doing'[c], held'[c])
           /\ \A d \in Clients \ {c} : doing'[d] = doing[d] /\ held'[d] = held[d]
<1> USE DEF RegistryInv, ClientFunctions
<1>0. clock \in Dates
  BY DEF RegistryTypeOK
<1>1. \E d \in Activities : \E h : /\ doing' = [doing EXCEPT ![c] = d]
                                   /\ held' = [held EXCEPT ![c] = h]
                                   /\ ClientTypes(d, h)
  <2>1. CASE \/ Insert(c) \/ InsertFails(c) \/ Update(c) \/ Close(c) \/ UpdateFails(c)
    <3>1. /\ doing' = [doing EXCEPT ![c] = "idle"]
          /\ held' = [held EXCEPT ![c] = NoRow]
      BY <2>1 DEF Insert, InsertFails, Update, Close, UpdateFails, Release
    <3> QED BY <3>1 DEF ClientTypes, Activities
  <2>2. ASSUME NEW n \in Numbers, NEW b \in Balances, NewAccount(c, n, b)
        PROVE  \E d \in Activities : \E h : /\ doing' = [doing EXCEPT ![c] = d]
                                            /\ held' = [held EXCEPT ![c] = h]
                                            /\ ClientTypes(d, h)
    <3>1. [number |-> n, balance |-> b, date |-> clock] \in Accounts
      BY <1>0 DEF Accounts
    <3> QED BY <2>2, <3>1 DEF NewAccount, ClientTypes, Activities
  <2>3. ASSUME NEW n \in Numbers, Lookup(c, n)
        PROVE  \E d \in Activities : \E h : /\ doing' = [doing EXCEPT ![c] = d]
                                            /\ held' = [held EXCEPT ![c] = h]
                                            /\ ClientTypes(d, h)
    <3>1. PICK i \in Found(n) : held' = [held EXCEPT ![c] = table[i]]
      BY <2>3 DEF Lookup
    <3>2. table[i] \in Accounts
      BY FoundRows, RowFacts
    <3> QED BY <2>3, <3>1, <3>2 DEF Lookup, ClientTypes, Activities
  <2>4. ASSUME NEW b \in Balances, Change(c, b)
        PROVE  \E d \in Activities : \E h : /\ doing' = [doing EXCEPT ![c] = d]
                                            /\ held' = [held EXCEPT ![c] = h]
                                            /\ ClientTypes(d, h)
    <3> DEFINE h == [held[c] EXCEPT !.balance = b, !.date = clock]
    <3>1. held[c] \in Accounts
      BY <2>4, HeldFacts DEF Change
    <3>2. h \in Accounts
      BY <1>0, <3>1 DEF Accounts
    <3>3. /\ doing' = [doing EXCEPT ![c] = "update"]
          /\ held' = [held EXCEPT ![c] = h]
      BY <2>4 DEF Change
    <3> HIDE DEF h
    <3>4. ClientTypes("update", h) /\ "update" \in Activities
      BY <3>2 DEF ClientTypes, Activities
    <3> QED BY <3>3, <3>4
  <2>5. ASSUME NEW from \in Numbers, NEW to \in Numbers, BeginClose(c, from, to)
        PROVE  \E d \in Activities : \E h : /\ doing' = [doing EXCEPT ![c] = d]
                                            /\ held' = [held EXCEPT ![c] = h]
                                            /\ ClientTypes(d, h)
    <3>1. [from |-> from, to |-> to, date |-> clock] \in Closings
      BY <1>0 DEF Closings
    <3> QED BY <2>5, <3>1 DEF BeginClose, ClientTypes, Activities
  <2> QED BY <2>1, <2>2, <2>3, <2>4, <2>5 DEF ClientStep
<1>2. PICK d, h : /\ d \in Activities
                  /\ doing' = [doing EXCEPT ![c] = d]
                  /\ held' = [held EXCEPT ![c] = h]
                  /\ ClientTypes(d, h)
  BY <1>1
<1>3. doing'[c] = d /\ held'[c] = h
  BY <1>2
<1> QED BY <1>2, <1>3

(* A row or an entity takes its date from the clock, or from another that  *)
(* was not ahead.                                                          *)
LEMMA NoneAheadStep ==
    ASSUME RegistryInv, NEW c \in Clients, ClientStep(c)
    PROVE  NoneAhead'
<1> USE DEF RegistryInv, ClientFunctions
<1>0. clock' = clock
  BY Zenon DEF ClientStep, NewAccount, Insert, InsertFails, Lookup, Change, BeginClose,
               Update, Close, UpdateFails
<1>1. NoneAhead /\ RegistryTypeOK /\ clock' = clock /\ clock \in Nat
  BY <1>0 DEF RegistryTypeOK, Dates
<1>2. \A d \in Clients \ {c} : doing'[d] = doing[d] /\ held'[d] = held[d]
  BY ClientTypesStep
<1>3. ASSUME NEW i \in RowIds'
      PROVE  table'[i].date =< clock'
  <2>1. CASE Insert(c)
    <3>1. held[c].date =< clock
      BY <1>1, <2>1 DEF NoneAhead, Insert
    <3>2. table'[i] = held[c] \/ (i \in RowIds /\ table'[i] = table[i])
      BY <1>1, <1>3, <2>1, InsertRows DEF RowIds
    <3> QED BY <1>1, <3>1, <3>2 DEF NoneAhead
  <2>2. CASE Update(c)
    <3>1. held[c].date =< clock
      BY <1>1, <2>2 DEF NoneAhead, Update
    <3>2. i \in RowIds /\ table'[i] \in {held[c], table[i]}
      BY <1>3, <2>2 DEF Update, Reached, RowIds
    <3> QED BY <1>1, <3>1, <3>2 DEF NoneAhead
  <2>3. CASE Close(c)
    <3>1. held[c].date =< clock
      BY <1>1, <2>3 DEF NoneAhead, Close
    <3>2. i \in RowIds
      BY <1>3, <2>3 DEF Close, Reached, RowIds
    <3>3. table[i] \in Accounts /\ table[i].number \in Numbers /\ i \in RowsOf(table[i].number)
      BY <1>1, <3>2 DEF RegistryTypeOK, RowsOf, RowIds, Accounts
    <3>4. table'[i].date \in {held[c].date, table[i].date}
      BY <1>1, <2>3, <3>3, CloseRows
    <3> QED BY <1>1, <3>1, <3>2, <3>4 DEF NoneAhead
  <2>4. CASE UNCHANGED table
    BY <1>1, <1>3, <2>4 DEF NoneAhead, RowIds
  <2> QED BY <2>1, <2>2, <2>3, <2>4
          DEF ClientStep, NewAccount, InsertFails, Lookup, Change, BeginClose, UpdateFails
<1>4. ASSUME doing'[c] # "idle"
      PROVE  held'[c].date =< clock'
  <2>1. CASE \/ Insert(c) \/ InsertFails(c) \/ Update(c) \/ Close(c) \/ UpdateFails(c)
    BY <1>4, <2>1 DEF Insert, InsertFails, Update, Close, UpdateFails, Release
  <2>2. CASE \/ \E n \in Numbers, b \in Balances : NewAccount(c, n, b)
             \/ \E from, to \in Numbers : BeginClose(c, from, to)
    <3>1. held'[c].date = clock
      BY <2>2 DEF NewAccount, BeginClose
    <3> QED BY <1>1, <3>1
  <2>3. ASSUME NEW n \in Numbers, Lookup(c, n)
        PROVE  held'[c].date =< clock'
    <3>1. PICK i \in Found(n) : held' = [held EXCEPT ![c] = table[i]]
      BY <2>3 DEF Lookup
    <3>2. i \in RowIds /\ held'[c] = table[i]
      BY <1>1, <3>1, FoundRows, RowFacts
    <3> QED BY <1>1, <3>2 DEF NoneAhead
  <2>4. ASSUME NEW b \in Balances, Change(c, b)
        PROVE  held'[c].date =< clock'
    <3>1. held[c] \in Accounts
      BY <1>1, <2>4, HeldFacts DEF Change
    <3>2. held'[c] = [held[c] EXCEPT !.balance = b, !.date = clock]
      BY <2>4 DEF Change
    <3> QED BY <1>1, <3>1, <3>2 DEF Accounts
  <2> QED BY <2>1, <2>2, <2>3, <2>4 DEF ClientStep
<1> QED BY <1>1, <1>2, <1>3, <1>4 DEF NoneAhead

(* No client is doing anything at first.                                   *)
LEMMA RegistryTypeInit == RegistryInit => RegistryInv
  BY DEF RegistryInit, RegistryInv, RegistryTypeOK, NoneAhead, RowIds,
         ClientFunctions, Dates, Activities

(* A client's step leaves it with what its next activity needs, and the    *)
(* other clients alone.                                                    *)
LEMMA RegistryTypeStep ==
    RegistryInv /\ [RegistryNext]_registryVars => RegistryInv'
<1> SUFFICES ASSUME RegistryInv, [RegistryNext]_registryVars
             PROVE  RegistryInv'
  OBVIOUS
<1>1. TableTypes /\ NoneAhead /\ \A c \in Clients : ClientTypes(doing[c], held[c])
  BY TypeParts DEF RegistryInv
<1>2. ASSUME NEW c \in Clients, ClientStep(c)
      PROVE  RegistryInv'
  <2>1. \A d \in Clients : ClientTypes(doing'[d], held'[d])
    BY <1>1, <1>2, ClientTypesStep
  <2> QED BY <1>2, <2>1, TableTypesStep, ClientTypesStep, NoneAheadStep, TypePartsNext
          DEF RegistryInv
<1>3. CASE Tick \/ UNCHANGED registryVars
  <2>1. TableTypes' /\ UNCHANGED <<doing, held>>
    BY <1>1, <1>3 DEF Tick, registryVars, TableTypes, Dates
  <2>2. RowIds' = RowIds /\ UNCHANGED table /\ clock \in Nat /\ clock =< clock'
        /\ clock' \in Nat
    BY <1>1, <1>3 DEF Tick, registryVars, RowIds, TableTypes, Dates
  <2>3. \A i \in RowIds : table[i].date \in Nat
    BY <1>1 DEF TableTypes, RowIds, Accounts, Dates
  <2>4. \A c \in Clients : doing[c] # "idle" => held[c].date \in Nat
    BY <1>1 DEF ClientTypes, Activities, RegistryInv, ClientFunctions, Accounts,
                Closings, Dates
  <2>5. NoneAhead'
    BY <1>1, <2>1, <2>2, <2>3, <2>4 DEF NoneAhead
  <2> QED BY <1>1, <2>1, <2>5, TypePartsNext DEF RegistryInv, ClientFunctions
<1> QED BY <1>2, <1>3 DEF RegistryNext, ClientStep

(* So it is in every reachable state.                                      *)
LEMMA RegistryTyping == RegistrySpec => []RegistryInv
  BY RegistryTypeInit, RegistryTypeStep, PTL DEF RegistrySpec

(* Every client has in its hands what its activity needs, every row keeps  *)
(* its type, and no date is ahead of the clock, although dates are taken   *)
(* and written at different times; a lookup always finds a first row where *)
(* there is one.                                                           *)
THEOREM RegistryTypeCorrect == RegistrySpec => []RegistryTypeOK
<1>1. RegistryInv => RegistryTypeOK
  BY DEF RegistryInv
<1> QED BY <1>1, RegistryTyping, PTL

-----------------------------------------------------------------------------
(* An UPDATE reaches every row of its number, a closing changes no         *)
(* balance, and an insert makes the balance unknown.                       *)
LEMMA BalanceStep ==
    ASSUME RegistryInv, BalanceShared, [RegistryNext]_registryVars
    PROVE  BalanceShared'
<1> USE DEF RegistryInv
<1>1. ASSUME NEW c \in Clients, Insert(c)
      PROVE  BalanceShared'
  <2>1. held[c] \in Accounts /\ held[c].number \in Numbers /\ held[c] # NoRow
    BY <1>1, HeldFacts, EntityFacts DEF Insert
  <2>2. PICK i \in Ids : /\ table[i] = NoRow /\ table'[i] = held[c]
                         /\ \A j \in Ids \ {i} : table'[j] = table[j]
    BY <1>1, InsertRows
  <2>3. ASSUME NEW n \in Numbers, written'[n] # Unknown
        PROVE  \A j \in RowsOf(n)' : table'[j].balance = written'[n]
    <3>1. n # held[c].number /\ written'[n] = written[n]
      BY <1>1, <2>1, <2>3 DEF Insert, RegistryTypeOK
    <3>2. \A j \in RowsOf(n)' : j \in RowsOf(n) /\ table'[j] = table[j]
      BY <2>2, <3>1 DEF RowsOf, RowIds
    <3> QED BY <2>3, <3>1, <3>2 DEF BalanceShared
  <2> QED BY <2>3 DEF BalanceShared
<1>2. ASSUME NEW c \in Clients, Update(c)
      PROVE  BalanceShared'
  <2>1. held[c].number \in Numbers
    BY <1>2, HeldFacts, EntityFacts DEF Update
  <2>2. ASSUME NEW n \in Numbers, written'[n] # Unknown
        PROVE  \A j \in RowsOf(n)' : table'[j].balance = written'[n]
    <3>1. written'[n] = IF n = held[c].number THEN held[c].balance ELSE written[n]
      BY <1>2, <2>1 DEF Update, RegistryTypeOK
    <3> QED BY <1>2, <2>2, <3>1, UpdateRows DEF BalanceShared
  <2> QED BY <2>2 DEF BalanceShared
<1>3. ASSUME NEW c \in Clients, Close(c)
      PROVE  BalanceShared'
  <2>1. written' = written
    BY <1>3 DEF Close
  <2> QED BY <1>3, <2>1, CloseRows DEF BalanceShared
<1>4. ASSUME UNCHANGED <<table, written>>
      PROVE  BalanceShared'
  BY <1>4 DEF BalanceShared, RowsOf, RowIds
<1> QED BY <1>1, <1>2, <1>3, <1>4
        DEF RegistryNext, Tick, NewAccount, InsertFails, Lookup, Change, BeginClose,
            UpdateFails, registryVars

(* A lookup answers with what the last UPDATE wrote, whichever of the      *)
(* number's rows the database returns first and however their dates tie,   *)
(* until a row is inserted for the number.                                 *)
THEOREM LookupsCurrent == RegistrySpec => []LookupsReadLastWrite
<1>1. RegistryInit => BalanceShared
  BY DEF RegistryInit, BalanceShared
<1>2. RegistryInv /\ BalanceShared => LookupsReadLastWrite
  BY FoundRows DEF RegistryInv, BalanceShared, LookupsReadLastWrite
<1> QED BY <1>1, <1>2, BalanceStep, RegistryTyping, PTL DEF RegistrySpec

-----------------------------------------------------------------------------
(* An UPDATE of either kind gives all rows of a number one date.           *)
LEMMA DateStep ==
    ASSUME RegistryInv, DateShared, [RegistryNext]_registryVars
    PROVE  DateShared'
<1> USE DEF RegistryInv
<1>1. ASSUME NEW c \in Clients, Insert(c)
      PROVE  DateShared'
  <2>1. held[c] \in Accounts /\ held[c].number \in Numbers /\ held[c] # NoRow
    BY <1>1, HeldFacts, EntityFacts DEF Insert
  <2>2. PICK i \in Ids : /\ table[i] = NoRow /\ table'[i] = held[c]
                         /\ \A j \in Ids \ {i} : table'[j] = table[j]
    BY <1>1, InsertRows
  <2>3. ASSUME NEW n \in settled'
        PROVE  \A j \in RowsOf(n)' : j \in RowsOf(n) /\ table'[j] = table[j]
    <3>1. n # held[c].number
      BY <1>1, <2>3 DEF Insert
    <3> QED BY <2>2, <3>1 DEF RowsOf, RowIds
  <2>4. settled' \subseteq settled
    BY <1>1 DEF Insert
  <2> QED BY <2>3, <2>4 DEF DateShared
<1>2. ASSUME NEW c \in Clients, Update(c)
      PROVE  DateShared'
  <2>1. /\ settled' = settled \union {held[c].number}
        /\ held[c].number \in Numbers /\ settled \subseteq Numbers
    BY <1>2, HeldFacts, EntityFacts DEF Update, RegistryTypeOK
  <2> QED BY <1>2, <2>1, UpdateRows DEF DateShared
<1>3. ASSUME NEW c \in Clients, Close(c)
      PROVE  DateShared'
  <2>1. /\ settled' = settled \union {held[c].from, held[c].to}
        /\ held[c].from \in Numbers /\ held[c].to \in Numbers
        /\ settled \subseteq Numbers
    BY <1>3, HeldFacts, EntityFacts DEF Close, RegistryTypeOK
  <2> QED BY <1>3, <2>1, CloseRows DEF DateShared
<1>4. ASSUME UNCHANGED <<table, settled>>
      PROVE  DateShared'
  BY <1>4 DEF DateShared, RowsOf, RowIds
<1> QED BY <1>1, <1>2, <1>3, <1>4
        DEF RegistryNext, Tick, NewAccount, InsertFails, Lookup, Change, BeginClose,
            UpdateFails, registryVars

(* A set no two of whose elements differ.                                  *)
LEMMA AtMostOne ==
    ASSUME NEW S, \A x, y \in S : x = y
    PROVE  Cardinality(S) =< 1
<1>1. CASE S = {}
  BY <1>1, FS_EmptySet
<1>2. CASE S # {}
  <2>1. PICK x \in S : S = {x}
    BY <1>2
  <2>2. Cardinality({x}) = 1
    BY FS_Singleton
  <2> QED BY <2>1, <2>2
<1> QED BY <1>1, <1>2

(* A listing, an ordered set that takes accounts of one date for the same, *)
(* has a number once from its last UPDATE until a row is inserted for it.  *)
THEOREM NumbersListedOnce == RegistrySpec => []ListedOnce
<1>1. RegistryInit => DateShared
  BY DEF RegistryInit, DateShared
<1>2. RegistryInv /\ DateShared => ListedOnce
  <2> SUFFICES ASSUME DateShared, NEW kept \in Listings, NEW n \in settled
               PROVE  Cardinality({i \in kept : table[i].number = n}) =< 1
    BY DEF ListedOnce
  <2> DEFINE S == {i \in kept : table[i].number = n}
  <2>1. S \subseteq RowsOf(n)
    BY CollectedFacts DEF Listings, RowsOf
  <2>2. \A i, j \in S : i = j
    BY <2>1, CollectedFacts DEF Listings, DateShared
  <2> QED BY <2>2, AtMostOne
<1> QED BY <1>1, <1>2, DateStep, RegistryTyping, PTL DEF RegistrySpec

-----------------------------------------------------------------------------
(* A set keeps exactly this of a list of rows.                             *)
LEMMA CollectedIs ==
    \A ids, kept : kept \in Collected(ids) <=>
        /\ kept \subseteq ids
        /\ \A i \in ids : \E k \in kept :
              /\ table[k].date = table[i].date
              /\ \A other \in kept : table[other].date = table[i].date => other = k
  BY DEF Collected

(* The collections that could be made after a step, spelt out: one row of  *)
(* every date.                                                             *)
LEMMA CollectedIsNext ==
    \A ids, kept : kept \in Collected(ids)' <=>
        /\ kept \subseteq ids
        /\ \A i \in ids : \E k \in kept :
              /\ table'[k].date = table'[i].date
              /\ \A other \in kept : table'[other].date = table'[i].date => other = k
  BY DEF Collected

(* Where dates differ, the oldest row is the first.                        *)
OldestIsFirst ==
    \A kept, i :
        /\ i \in kept
        /\ \A k \in kept : table[k].date \in Nat
        /\ \A k \in kept : table[i].date =< table[k].date
        /\ \A j, k \in kept : table[j].date = table[k].date => j = k
        => First(kept) = i

(* A set of dates has one least date, which CHOOSE finds.                  *)
LEMMA OldestFirst == OldestIsFirst
<1> SUFFICES ASSUME NEW kept, NEW i \in kept,
                    \A k \in kept : table[k].date \in Nat,
                    \A k \in kept : table[i].date =< table[k].date,
                    \A j, k \in kept : table[j].date = table[k].date => j = k
             PROVE  First(kept) = i
  BY DEF OldestIsFirst
<1>1. /\ First(kept) \in kept
      /\ \A k \in kept : table[First(kept)].date =< table[k].date
  BY FirstKept
<1>2. table[First(kept)].date = table[i].date
  BY <1>1
<1> QED BY <1>1, <1>2

(* The same after a step.                                                  *)
LEMMA OldestFirstNext == OldestIsFirst'
  BY OldestFirst, PTL

(* A row that is younger than all others of its number comes last in every *)
(* collection of them.                                                     *)
LEMMA YoungestHidden ==
    ASSUME RegistryInv, NEW c \in Clients, Insert(c), NEW n \in Numbers,
           held[c].number = n, RowsOf(n) # {},
           \A i \in RowsOf(n) : table[i].date < held[c].date
    PROVE  Found(n)' = Found(n)
<1> USE DEF RegistryInv
<1>1. held[c] \in Accounts /\ held[c] # NoRow /\ held[c].date \in Nat
  BY HeldFacts, EntityFacts DEF Insert, Dates
<1>2. PICK new \in Ids : /\ table[new] = NoRow /\ table'[new] = held[c]
                         /\ \A j \in Ids \ {new} : table'[j] = table[j]
  BY InsertRows
<1>3. PICK R : R = RowsOf(n)
  OBVIOUS
<1>4. RowsOf(n)' = R \union {new} /\ new \notin R
  BY <1>1, <1>2, <1>3 DEF RowsOf, RowIds
<1>5. /\ \A i \in R : /\ table'[i] = table[i] /\ table[i].date \in Nat
                     /\ table[i].date < table'[new].date
      /\ table'[new].date \in Nat /\ R # {}
  BY <1>1, <1>2, <1>3, <1>4, RowFacts
<1>6. Found(n) = {First(kept) : kept \in Collected(R) \ {{}}}
  BY <1>3 DEF Found
<1>7. Found(n)' = {First(kept)' : kept \in Collected(R \union {new})' \ {{}}}
  BY <1>4 DEF Found, Collected
<1>8. ASSUME NEW kept, kept \in Collected(R)
      PROVE  /\ kept # {} /\ First(kept) \in kept
             /\ kept \union {new} \in Collected(R \union {new})'
             /\ First(kept \union {new})' = First(kept)
  <2>1. /\ kept \subseteq R
        /\ \A i \in R : \E k \in kept : table[k].date = table[i].date
        /\ \A i, j \in kept : table[i].date = table[j].date => i = j
    BY <1>8, CollectedFacts
  <2>2. kept # {}
    BY <1>5, <2>1
  <2>3. /\ First(kept) \in kept
        /\ \A k \in kept : table[First(kept)].date =< table[k].date
    BY <1>5, <2>1, <2>2, FirstKept
  <2>4. \A i, j \in kept \union {new} : table'[i].date = table'[j].date => i = j
    BY <1>5, <2>1
  <2>5. \A i \in R \union {new} : \E k \in kept \union {new} : table'[k].date = table'[i].date
    BY <1>5, <2>1
  <2>6. kept \union {new} \in Collected(R \union {new})'
    BY <2>1, <2>4, <2>5, CollectedIsNext
  <2>7. \A k \in kept \union {new} : /\ table'[k].date \in Nat
                                     /\ table'[First(kept)].date =< table'[k].date
    BY <1>5, <2>1, <2>3
  <2>8. First(kept \union {new})' = First(kept)
    BY <2>3, <2>4, <2>7, OldestFirstNext DEF OldestIsFirst
  <2> QED BY <2>2, <2>3, <2>6, <2>8
<1>9. ASSUME NEW late, late \in Collected(R \union {new})'
      PROVE  \E kept \in Collected(R) : late = kept \union {new}
  <2>1. /\ late \subseteq R \union {new}
        /\ \A i \in R \union {new} : \E k \in late :
              /\ table'[k].date = table'[i].date
              /\ \A other \in late : table'[other].date = table'[i].date => other = k
    BY <1>9, CollectedIsNext
  <2>2. new \in late
    BY <1>5, <2>1
  <2>3. late \ {new} \subseteq R
    BY <2>1
  <2>4. ASSUME NEW i \in R
        PROVE  \E k \in late \ {new} :
                  /\ table[k].date = table[i].date
                  /\ \A other \in late \ {new} :
                        table[other].date = table[i].date => other = k
    BY <1>5, <2>1, <2>3
  <2>5. late \ {new} \in Collected(R)
    BY <2>3, <2>4, CollectedIs
  <2>6. late = (late \ {new}) \union {new}
    BY <2>2
  <2> QED BY <2>5, <2>6
<1>10. Found(n)' \subseteq Found(n)
  <2> SUFFICES ASSUME NEW late \in Collected(R \union {new})'
               PROVE  First(late)' \in Found(n)
    BY <1>7
  <2>1. PICK kept \in Collected(R) : late = kept \union {new}
    BY <1>9
  <2>2. First(kept) \in Found(n)
    BY <1>6, <1>8
  <2>3. First(late)' = First(kept)
    BY <1>8, <2>1
  <2> QED BY <2>2, <2>3
<1>11. Found(n) \subseteq Found(n)'
  <2> SUFFICES ASSUME NEW kept \in Collected(R) \ {{}}
               PROVE  First(kept) \in Found(n)'
    BY <1>6
  <2>1. kept \union {new} \in Collected(R \union {new})' \ {{}}
    BY <1>8
  <2>2. First(kept \union {new})' \in Found(n)'
    BY <1>7, <2>1
  <2> QED BY <1>8, <2>2
<1> QED BY <1>10, <1>11

(* The account that was there first keeps its number: a second row, with a *)
(* later date than all rows the number has, changes no lookup's answer.    *)
THEOREM DuplicatesHidden == RegistrySpec => DuplicatesStayHidden
<1> DEFINE Hides ==
       \A c \in Clients, n \in Numbers :
          /\ doing[c] = "insert" /\ doing'[c] = "idle"
          /\ held[c].number = n
          /\ RowsOf(n) # {}
          /\ \A i \in RowsOf(n) : table[i].date < held[c].date
          => Found(n)' = Found(n)
<1>1. RegistryInv /\ [RegistryNext]_registryVars => [Hides]_registryVars
  <2> SUFFICES ASSUME RegistryInv, RegistryNext,
                      NEW c \in Clients, NEW n \in Numbers,
                      doing[c] = "insert", doing'[c] = "idle",
                      held[c].number = n, RowsOf(n) # {},
                      \A i \in RowsOf(n) : table[i].date < held[c].date
               PROVE  Found(n)' = Found(n)
    OBVIOUS
  <2>1. PICK d \in Clients : ClientStep(d)
    BY DEF RegistryNext, ClientStep, Tick
  <2>2. d = c
    BY <2>1, ClientTypesStep
  <2>3. Insert(c) \/ InsertFails(c)
    BY <2>1, <2>2 DEF ClientStep, NewAccount, Lookup, Change, BeginClose, Update,
                      Close, UpdateFails
  <2>4. CASE Insert(c)
    BY <2>4, YoungestHidden
  <2>5. CASE InsertFails(c)
    BY <2>5 DEF InsertFails, Found, Collected, First, RowsOf, RowIds
  <2> QED BY <2>3, <2>4, <2>5
<1> QED BY <1>1, RegistryTyping, PTL DEF RegistrySpec, DuplicatesStayHidden
=============================================================================
