------------------------- MODULE SessionFactoryInit --------------------------
(***************************************************************************)
(* HibernateSessionUtils.getSessionFactory: the lazily built factory that  *)
(* every statement of the services begins with.  Nothing synchronises the  *)
(* threads of the first requests: each that finds the static field null    *)
(* builds a registry and a factory of its own, over static fields all of   *)
(* them write.  The schema setting is create-drop, so building a factory   *)
(* drops the tables and creates them anew.                                 *)
(*                                                                         *)
(* A registry is known by an id, and a factory by the registry it is on:   *)
(* what matters of it is whether that one is still running.  Ids of        *)
(* objects nobody refers to any more are used again.                       *)
(***************************************************************************)
EXTENDS FiniteSets, Naturals

CONSTANTS
    Threads,     \* threads of requests
    Registries,  \* ids of registries
    Nothing      \* the null reference

(* An id for each static field and each thread, and one to spare.          *)
ASSUME FactoryAssumption ==
    /\ IsFiniteSet(Threads) /\ IsFiniteSet(Registries)
    /\ Cardinality(Registries) > Cardinality(Threads) + 2
    /\ Nothing \notin Registries

VARIABLES
    registry,        \* the static field
    sessionFactory,  \* the static field
    destroyed,       \* registries whose services have been stopped
    at,              \* at[t]: where t is in getSessionFactory
    own,             \* own[t]: the factory t is building, by its registry
    result,          \* result[t]: what the call of t returned
    rows,            \* TRUE: the tables hold committed rows
    failed,          \* failed[t]: history, the build of t's call failed
    overlapped,      \* history: two builds were under way at once
    dropped          \* history: committed rows went with dropped tables

statics == <<registry, sessionFactory>>
history == <<failed, overlapped, dropped>>
factoryVars == <<statics, destroyed, at, own, result, rows, history>>

Places == {"idle", "check", "registry", "sources", "factory", "store", "catch",
           "return", "returned"}

Building == {"registry", "sources", "factory", "store", "catch"}

FactoryInit ==
    /\ registry = Nothing
    /\ sessionFactory = Nothing
    /\ destroyed = {}
    /\ at = [t \in Threads |-> "idle"]
    /\ own = [t \in Threads |-> Nothing]
    /\ result = [t \in Threads |-> Nothing]
    /\ rows = FALSE
    /\ failed = [t \in Threads |-> FALSE]
    /\ overlapped = FALSE
    /\ dropped = FALSE

MoveTo(t, place) == at' = [at EXCEPT ![t] = place]

-----------------------------------------------------------------------------
(* A statement of a service asks for the factory.                          *)
Enter(t) ==
    /\ at[t] = "idle"
    /\ MoveTo(t, "check")
    /\ UNCHANGED <<statics, destroyed, own, result, rows, history>>

StartBuild(t) ==
    /\ MoveTo(t, "registry")
    /\ overlapped' = (overlapped \/ \E u \in Threads : at[u] \in Building)
    /\ UNCHANGED <<statics, destroyed, own, result, rows, failed, dropped>>

(* Mutant of Check: every call builds.                                     *)
CheckNothing(t) == at[t] = "check" /\ StartBuild(t)

(* The unsynchronised test of the field.                                   *)
Check(t) ==
    /\ at[t] = "check"
    /\ IF sessionFactory = Nothing
       THEN StartBuild(t)
       ELSE MoveTo(t, "return")
            /\ UNCHANGED <<statics, destroyed, own, result, rows, history>>

Referenced ==
    {registry, sessionFactory} \union {own[t] : t \in Threads}
                               \union {result[t] : t \in Threads}

(* A new registry, stored in the field at once.                            *)
BuildRegistry(t) ==
    /\ at[t] = "registry"
    /\ registry' = CHOOSE r \in Registries : r \notin Referenced
    /\ destroyed' = destroyed \ {registry'}
    /\ MoveTo(t, "sources")
    /\ UNCHANGED <<sessionFactory, own, result, rows, history>>

(* MetadataSources are given what the field holds by then.                 *)
ReadSources(t) ==
    /\ at[t] = "sources"
    /\ own' = [own EXCEPT ![t] = registry]
    /\ MoveTo(t, "factory")
    /\ UNCHANGED <<statics, destroyed, result, rows, history>>

(* The tables are dropped and created.                                     *)
DropTables == rows' = FALSE /\ dropped' = (dropped \/ rows)

(* The factory is built, over a registry that is still running.            *)
BuildFactory(t) ==
    /\ at[t] = "factory"
    /\ own[t] \notin destroyed
    /\ DropTables
    /\ MoveTo(t, "store")
    /\ UNCHANGED <<statics, destroyed, own, result, failed, overlapped>>

Store(t) ==
    /\ at[t] = "store"
    /\ sessionFactory' = own[t]
    /\ own' = [own EXCEPT ![t] = Nothing]
    /\ MoveTo(t, "return")
    /\ UNCHANGED <<registry, destroyed, result, rows, history>>

(* An exception, from the registry or from the factory, the latter also    *)
(* after the tables were dropped.                                          *)
BuildFails(t) ==
    /\ \/ at[t] = "registry" /\ UNCHANGED <<rows, dropped>>
       \/ at[t] = "factory" /\ UNCHANGED <<rows, dropped>>
       \/ at[t] = "factory" /\ own[t] \notin destroyed /\ DropTables
    /\ failed' = [failed EXCEPT ![t] = TRUE]
    /\ own' = [own EXCEPT ![t] = Nothing]
    /\ MoveTo(t, "catch")
    /\ UNCHANGED <<statics, destroyed, result, overlapped>>

(* Mutants of Catch: the handler sets the field it has cleaned up to null, *)
(* from which another thread may be about to read its registry back; the   *)
(* handler forgets the factory too.                                        *)
CatchForgets(t) ==
    /\ at[t] = "catch"
    /\ destroyed' = destroyed \union ({registry} \ {Nothing})
    /\ registry' = Nothing
    /\ MoveTo(t, "return")
    /\ UNCHANGED <<sessionFactory, own, result, rows, history>>

CatchResets(t) ==
    /\ at[t] = "catch"
    /\ destroyed' = destroyed \union ({registry} \ {Nothing})
    /\ sessionFactory' = Nothing
    /\ MoveTo(t, "return")
    /\ UNCHANGED <<registry, own, result, rows, history>>

(* The handler destroys the registry the field holds, whoever built it.    *)
Catch(t) ==
    /\ at[t] = "catch"
    /\ destroyed' = destroyed \union ({registry} \ {Nothing})
    /\ MoveTo(t, "return")
    /\ UNCHANGED <<statics, own, result, rows, history>>

(* The field is read again for the result.                                 *)
Return(t) ==
    /\ at[t] = "return"
    /\ result' = [result EXCEPT ![t] = sessionFactory]
    /\ MoveTo(t, "returned")
    /\ UNCHANGED <<statics, destroyed, own, rows, history>>

Usable(f) == f # Nothing /\ f \notin destroyed

(* The caller runs its statement, which may commit a row.  Without a       *)
(* running factory it fails: there is no session, or no connection.        *)
Use(t) ==
    /\ at[t] = "returned"
    /\ \/ UNCHANGED rows
       \/ Usable(result[t]) /\ rows' = TRUE
    /\ result' = [result EXCEPT ![t] = Nothing]
    /\ failed' = [failed EXCEPT ![t] = FALSE]
    /\ MoveTo(t, "idle")
    /\ UNCHANGED <<statics, destroyed, own, overlapped, dropped>>

CallStep(t) ==
    \/ Check(t) \/ BuildRegistry(t) \/ ReadSources(t) \/ BuildFactory(t)
    \/ Store(t) \/ BuildFails(t) \/ Catch(t) \/ Return(t) \/ Use(t)

FactoryNext == \E t \in Threads : Enter(t) \/ CallStep(t)

(* A thread inside the call is scheduled in the end.                       *)
FactorySpec ==
    /\ FactoryInit
    /\ [][FactoryNext]_factoryVars
    /\ \A t \in Threads : WF_factoryVars(CallStep(t))

-----------------------------------------------------------------------------
(* A factory under way has a registry, although the field it was read back *)
(* from is written by every thread.                                        *)
FactoryTypeOK ==
    /\ registry \in Registries \union {Nothing}
    /\ sessionFactory \in Registries \union {Nothing}
    /\ destroyed \subseteq Registries
    /\ at \in [Threads -> Places]
    /\ own \in [Threads -> Registries \union {Nothing}]
    /\ result \in [Threads -> Registries \union {Nothing}]
    /\ \A t \in Threads :
          /\ at[t] \in {"factory", "store"} <=> own[t] # Nothing
          /\ result[t] # Nothing => at[t] = "returned"
    /\ rows \in BOOLEAN
    /\ failed \in [Threads -> BOOLEAN]
    /\ overlapped \in BOOLEAN
    /\ dropped \in BOOLEAN

(* A call returns null, which its caller dereferences, only if its own     *)
(* build failed: what other threads do to the fields cannot cause it.      *)
NullMeansFailure ==
    \A t \in Threads :
        at[t] = "returned" /\ result[t] = Nothing => failed[t]

(* Committed rows are dropped only where two first requests built at once: *)
(* one after the other, with whatever failures, calls never build over     *)
(* tables that are in use.                                                 *)
TablesSurvive == dropped => overlapped

(* So it is with the registry: the factory everybody uses is stopped under *)
(* them only by the failing build of a thread that overlapped another.     *)
FactoryRuns == sessionFactory \in destroyed => overlapped

(* The field settles: however many first requests build and fail, from     *)
(* some time on every call is given one and the same factory.              *)
FactorySettles ==
    \E f \in Registries \union {Nothing} : <>[](sessionFactory = f)
=============================================================================
