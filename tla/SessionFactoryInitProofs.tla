----------------------- MODULE SessionFactoryInitProofs -----------------------
(***************************************************************************)
(* Theorems about SessionFactoryInit, for any finite set of threads and    *)
(* enough ids.                                                             *)
(***************************************************************************)
EXTENDS SessionFactoryInit, FiniteSetTheorems, TLAPS

USE FactoryAssumption

(* MetadataSources are always given a registry: the field never goes back  *)
(* to null.                                                                *)
SourcesHave == \A t \in Threads : at[t] = "sources" => registry # Nothing

TypeInv == FactoryTypeOK /\ SourcesHave

-----------------------------------------------------------------------------
(* What one more element adds to a finite set.                             *)
LEMMA OneMore ==
    ASSUME NEW S, IsFiniteSet(S), NEW x
    PROVE  /\ IsFiniteSet(S \union {x})
           /\ Cardinality(S) \in Nat
           /\ Cardinality(S \union {x}) \in Nat
           /\ Cardinality(S \union {x}) =< Cardinality(S) + 1
<1>1. Cardinality(S) \in Nat
  BY FS_CardinalityType
<1>2. /\ IsFiniteSet(S \union {x})
      /\ Cardinality(S \union {x}) =
            IF x \in S THEN Cardinality(S) ELSE Cardinality(S) + 1
  BY FS_AddElement
<1> QED BY <1>1, <1>2

(* There is always an id that no field and no thread refers to: a thread   *)
(* refers to one at most, its own factory's or its result's.               *)
LEMMA SpareId ==
    ASSUME FactoryTypeOK
    PROVE  \E r \in Registries : r \notin Referenced
<1> DEFINE held == [t \in Threads |-> IF own[t] # Nothing THEN own[t] ELSE result[t]]
           Held == {held[t] : t \in Threads}
           Most == (Held \union {registry}) \union {sessionFactory}
<1>1. IsFiniteSet(Held) /\ Cardinality(Held) =< Cardinality(Threads)
  <2>1. held \in Surjection(Threads, Held)
    BY DEF Surjection
  <2> QED BY <2>1, FS_Surjection, IsFiniteSet(Threads)
<1>2. IsFiniteSet(Most) /\ Cardinality(Most) =< Cardinality(Threads) + 2
  <2> DEFINE Some == Held \union {registry}
  <2> HIDE DEF Held
  <2>1. /\ IsFiniteSet(Some)
        /\ Cardinality(Held) \in Nat /\ Cardinality(Some) \in Nat
        /\ Cardinality(Some) =< Cardinality(Held) + 1
    BY <1>1, OneMore
  <2> HIDE DEF Some
  <2>2. /\ IsFiniteSet(Some \union {sessionFactory})
        /\ Cardinality(Some \union {sessionFactory}) \in Nat
        /\ Cardinality(Some \union {sessionFactory}) =< Cardinality(Some) + 1
    BY <2>1, OneMore
  <2>3. Most = Some \union {sessionFactory}
    BY DEF Some
  <2>4. Cardinality(Threads) \in Nat
    BY FS_CardinalityType
  <2>5. Cardinality(Some \union {sessionFactory}) =< Cardinality(Threads) + 2
    BY <1>1, <2>1, <2>2, <2>4
  <2> HIDE DEF Most
  <2> QED BY <2>2, <2>3, <2>5
<1>3. \A r \in Referenced : r = Nothing \/ r \in Most
  <2>1. \A t \in Threads : own[t] \in {held[t], Nothing}
    OBVIOUS
  <2>2. \A t \in Threads : result[t] \in {held[t], Nothing}
    BY DEF FactoryTypeOK
  <2> QED BY <2>1, <2>2 DEF Referenced
<1>4. ~(Registries \subseteq Most)
  <2> HIDE DEF Most
  <2>1. SUFFICES ASSUME Registries \subseteq Most
                 PROVE  FALSE
    OBVIOUS
  <2>2. Cardinality(Registries) =< Cardinality(Most)
    BY <1>2, <2>1, FS_Subset
  <2>3. /\ Cardinality(Registries) \in Nat /\ Cardinality(Most) \in Nat
        /\ Cardinality(Threads) \in Nat
    BY <1>2, FS_CardinalityType
  <2> QED BY <1>2, <2>2, <2>3
<1> QED BY <1>3, <1>4

(* A new registry has an id.                                               *)
LEMMA NewRegistry ==
    ASSUME FactoryTypeOK, NEW t \in Threads, BuildRegistry(t)
    PROVE  registry' \in Registries /\ registry' \notin Referenced
  BY SpareId DEF BuildRegistry

-----------------------------------------------------------------------------
(* No thread has asked for the factory at first.                           *)
LEMMA TypeInit == FactoryInit => TypeInv
  BY DEF FactoryInit, TypeInv, FactoryTypeOK, SourcesHave, Places

(* Every step leaves the statics and the threads well typed.               *)
LEMMA TypeStep == TypeInv /\ [FactoryNext]_factoryVars => TypeInv'
<1> SUFFICES ASSUME TypeInv, [FactoryNext]_factoryVars
             PROVE  TypeInv'
  OBVIOUS
<1> USE DEF TypeInv, FactoryTypeOK, SourcesHave, Places, MoveTo, statics, history
<1>1. ASSUME NEW t \in Threads, Enter(t)
      PROVE  TypeInv'
  BY <1>1 DEF Enter
<1>2. ASSUME NEW t \in Threads, Check(t)
      PROVE  TypeInv'
  BY <1>2 DEF Check, StartBuild
<1>3. ASSUME NEW t \in Threads, BuildRegistry(t)
      PROVE  TypeInv'
  <2>1. registry' \in Registries /\ registry' # Nothing
    BY <1>3, NewRegistry
  <2> QED BY <1>3, <2>1 DEF BuildRegistry
<1>4. ASSUME NEW t \in Threads, ReadSources(t)
      PROVE  TypeInv'
  BY <1>4 DEF ReadSources
<1>5. ASSUME NEW t \in Threads, BuildFactory(t)
      PROVE  TypeInv'
  BY <1>5 DEF BuildFactory, DropTables
<1>6. ASSUME NEW t \in Threads, Store(t)
      PROVE  TypeInv'
  BY <1>6 DEF Store
<1>7. ASSUME NEW t \in Threads, BuildFails(t)
      PROVE  TypeInv'
  BY <1>7 DEF BuildFails, DropTables
<1>8. ASSUME NEW t \in Threads, Catch(t)
      PROVE  TypeInv'
  BY <1>8 DEF Catch
<1>9. ASSUME NEW t \in Threads, Return(t)
      PROVE  TypeInv'
  BY <1>9 DEF Return
<1>10. ASSUME NEW t \in Threads, Use(t)
       PROVE  TypeInv'
  BY <1>10 DEF Use
<1>11. CASE UNCHANGED factoryVars
  BY <1>11 DEF factoryVars
<1> QED BY <1>1, <1>2, <1>3, <1>4, <1>5, <1>6, <1>7, <1>8, <1>9, <1>10, <1>11
        DEF FactoryNext, CallStep

(* Type correctness; with it, that a new registry always finds an id and   *)
(* that no factory is ever built without a registry.                       *)
THEOREM FactoryTypeCorrect == FactorySpec => []FactoryTypeOK
<1>1. FactorySpec => []TypeInv
  BY TypeInit, TypeStep, PTL DEF FactorySpec
<1>2. TypeInv => FactoryTypeOK
  BY DEF TypeInv
<1> QED BY <1>1, <1>2, PTL

-----------------------------------------------------------------------------
(* A factory once stored stays or is replaced: from a call's own success   *)
(* on, the field it returns is not null.                                   *)
Accounted(t) ==
    /\ at[t] = "catch" => failed[t]
    /\ at[t] = "return" => sessionFactory # Nothing \/ failed[t]
    /\ at[t] = "returned" /\ result[t] = Nothing => failed[t]

AnswerInv == \A t \in Threads : Accounted(t)

(* A call's steps leave it a factory in the field or a failure of its own; *)
(* no step of another call empties the field.                              *)
LEMMA AnswerStep ==
    ASSUME TypeInv, AnswerInv, [FactoryNext]_factoryVars
    PROVE  AnswerInv'
<1> USE DEF TypeInv, FactoryTypeOK, AnswerInv, Accounted, Places, MoveTo,
            statics, history
<1>1. ASSUME NEW t \in Threads, Enter(t)
      PROVE  AnswerInv'
  BY <1>1 DEF Enter
<1>2. ASSUME NEW t \in Threads, Check(t)
      PROVE  AnswerInv'
  BY <1>2 DEF Check, StartBuild
<1>3. ASSUME NEW t \in Threads,
             BuildRegistry(t) \/ ReadSources(t) \/ BuildFactory(t)
      PROVE  AnswerInv'
  BY <1>3 DEF BuildRegistry, ReadSources, BuildFactory
<1>4. ASSUME NEW t \in Threads, Store(t)
      PROVE  AnswerInv'
  BY <1>4 DEF Store
<1>5. ASSUME NEW t \in Threads, BuildFails(t)
      PROVE  AnswerInv'
  BY <1>5 DEF BuildFails
<1>6. ASSUME NEW t \in Threads, Catch(t)
      PROVE  AnswerInv'
  BY <1>6 DEF Catch
<1>7. ASSUME NEW t \in Threads, Return(t)
      PROVE  AnswerInv'
  BY <1>7 DEF Return
<1>8. ASSUME NEW t \in Threads, Use(t)
      PROVE  AnswerInv'
  BY <1>8 DEF Use
<1>9. CASE UNCHANGED factoryVars
  BY <1>9 DEF factoryVars
<1> QED BY <1>1, <1>2, <1>3, <1>4, <1>5, <1>6, <1>7, <1>8, <1>9
        DEF FactoryNext, CallStep

(* getSessionFactory returns null only to a caller whose own build failed: *)
(* no other thread takes away what a call has seen or stored.              *)
THEOREM NullOnlyAfterFailure == FactorySpec => []NullMeansFailure
<1>1. FactoryInit => AnswerInv
  BY DEF FactoryInit, AnswerInv, Accounted
<1>2. FactorySpec => [](TypeInv /\ AnswerInv)
  BY <1>1, TypeInit, TypeStep, AnswerStep, PTL DEF FactorySpec
<1>3. AnswerInv => NullMeansFailure
  BY DEF AnswerInv, Accounted, NullMeansFailure
<1> QED BY <1>2, <1>3, PTL

-----------------------------------------------------------------------------
(* Whoever has a factory got it from the field, and rows were committed    *)
(* through one.                                                            *)
StoredFirst ==
    /\ rows => sessionFactory # Nothing
    /\ \A t \in Threads : result[t] # Nothing => sessionFactory # Nothing

(* While builds have not overlapped, the one under way has found no        *)
(* factory, nobody can have stored one, and its registry runs.             *)
OneBuild ==
    ~overlapped =>
        /\ \A t, u \in Threads :
              at[t] \in Building /\ at[u] \in Building => t = u
        /\ \A t \in Threads :
              at[t] \in Building => sessionFactory = Nothing
        /\ \A t \in Threads : at[t] = "store" => own[t] \notin destroyed
        /\ sessionFactory \notin destroyed
        /\ ~dropped

AloneInv == StoredFirst /\ OneBuild

(* While one thread at a time initialises, the factory is stored before    *)
(* the next one looks.                                                     *)
LEMMA AloneStep ==
    ASSUME TypeInv, AloneInv, [FactoryNext]_factoryVars
    PROVE  AloneInv'
<1> USE DEF TypeInv, FactoryTypeOK, AloneInv, StoredFirst, OneBuild, Building,
            MoveTo, statics, history
<1>1. ASSUME NEW t \in Threads, Enter(t)
      PROVE  AloneInv'
  BY <1>1 DEF Enter
<1>2. ASSUME NEW t \in Threads, Check(t)
      PROVE  AloneInv'
  <2>1. CASE sessionFactory = Nothing
    <3>1. /\ at' = [at EXCEPT ![t] = "registry"]
          /\ overlapped' = (overlapped \/ \E u \in Threads : at[u] \in Building)
          /\ UNCHANGED <<sessionFactory, destroyed, own, result, rows, dropped>>
      BY <1>2, <2>1 DEF Check, StartBuild
    <3>2. StoredFirst'
      BY <3>1
    <3>3. ~overlapped' => \A u \in Threads : at[u] \notin Building
      BY <3>1
    <3>4. OneBuild'
      BY <2>1, <3>1, <3>3
    <3> QED BY <3>2, <3>4
  <2>2. CASE sessionFactory # Nothing
    BY <1>2, <2>2 DEF Check
  <2> QED BY <2>1, <2>2
<1>3. ASSUME NEW t \in Threads, BuildRegistry(t)
      PROVE  AloneInv'
  BY <1>3 DEF BuildRegistry
<1>4. ASSUME NEW t \in Threads, ReadSources(t)
      PROVE  AloneInv'
  BY <1>4 DEF ReadSources
<1>5. ASSUME NEW t \in Threads, BuildFactory(t)
      PROVE  AloneInv'
  BY <1>5 DEF BuildFactory, DropTables
<1>6. ASSUME NEW t \in Threads, Store(t)
      PROVE  AloneInv'
  BY <1>6 DEF Store
<1>7. ASSUME NEW t \in Threads, BuildFails(t)
      PROVE  AloneInv'
  BY <1>7 DEF BuildFails, DropTables
<1>8. ASSUME NEW t \in Threads, Catch(t)
      PROVE  AloneInv'
  BY <1>8 DEF Catch
<1>9. ASSUME NEW t \in Threads, Return(t)
      PROVE  AloneInv'
  BY <1>9 DEF Return
<1>10. ASSUME NEW t \in Threads, Use(t)
       PROVE  AloneInv'
  BY <1>10 DEF Use, Usable
<1>11. CASE UNCHANGED factoryVars
  BY <1>11 DEF factoryVars
<1> QED BY <1>1, <1>2, <1>3, <1>4, <1>5, <1>6, <1>7, <1>8, <1>9, <1>10, <1>11
        DEF FactoryNext, CallStep

(* So it is in every reachable state.                                      *)
LEMMA AloneAlways == FactorySpec => []AloneInv
<1>1. FactoryInit => AloneInv
  BY DEF FactoryInit, AloneInv, StoredFirst, OneBuild, Building
<1> QED BY <1>1, TypeInit, TypeStep, AloneStep, PTL DEF FactorySpec

(* Tables with committed rows are dropped only where two builds overlap:   *)
(* first requests one after the other never lose anything.                 *)
THEOREM TablesSafe == FactorySpec => []TablesSurvive
<1>1. AloneInv => TablesSurvive
  BY DEF AloneInv, OneBuild, TablesSurvive
<1> QED BY <1>1, AloneAlways, PTL

(* And the factory in the field is stopped only where two builds overlap.  *)
THEOREM FactorySafe == FactorySpec => []FactoryRuns
<1>1. AloneInv => FactoryRuns
  BY DEF AloneInv, OneBuild, FactoryRuns
<1> QED BY <1>1, AloneAlways, PTL
=============================================================================
