------------------------ MODULE TransferRequestProofs ------------------------
(***************************************************************************)
(* Theorems about TransferRequest, for every set of workers, accounts and  *)
(* transactions.                                                           *)
(*                                                                         *)
(* A request is a caller of the account service: each of its steps is a    *)
(* step of the service or leaves it alone (RequestIsService).  So what is  *)
(* proved of the service among arbitrary callers holds of the web          *)
(* application, and what remains to prove here is about the requests: the  *)
(* page they answer with and the marks they leave on accounts.             *)
(***************************************************************************)
EXTENDS TransferRequest, AccountServiceRefinement

USE ConstantsAssumption, MarksAssumption, RequestAssumption

RequestInv == RequestTypeOK /\ TypeInv

(* What a request's own thread does. *)
ActsFor(w) ==
    \/ \E t \in Transactions : Post(w, t) \/ PostTypeless(w, t)
    \/ RequestStep(w)
    \/ TransactFault(w)
    \/ CloseFault(w)

-----------------------------------------------------------------------------
(* A request that has not answered yet has its transaction.                *)
LEMMA RequestKnown ==
    ASSUME RequestTypeOK, NEW w \in Workers, stage[w] # "idle"
    PROVE  /\ req[w] \in Transactions
           /\ req[w].from \in Numbers /\ req[w].to \in Numbers
<1>1. req[w] \in Transactions
  BY DEF RequestTypeOK
<1> QED BY <1>1 DEF TransactionRecords

(* closeTransaction changes nothing but the status of open accounts.       *)
LEMMA FinishedMarks ==
    ASSUME TypeOK, NEW t \in Transactions, MarkFinished(t),
           UNCHANGED <<pc, locals>>
    PROVE  MarkAccounts
<1>1. ASSUME NEW n \in Numbers, n \in Parties(t), IsOpen(n)
      PROVE  /\ accounts'[n] = [accounts[n] EXCEPT !.status = Finished]
             /\ accounts'[n] \in Rows
             /\ accounts'[n].balance = accounts[n].balance
             /\ accounts'[n].currency = accounts[n].currency
  <2>1. accounts[n] \in Rows /\ Finished \in Statuses
    BY <1>1 DEF TypeOK, IsOpen, Statuses
  <2>2. accounts'[n] = [accounts[n] EXCEPT !.status = Finished]
    BY <1>1 DEF MarkFinished
  <2> QED BY <2>1, <2>2 DEF Rows
<1>2. ASSUME NEW n \in Numbers, ~(n \in Parties(t) /\ IsOpen(n))
      PROVE  accounts'[n] = accounts[n]
  BY <1>2 DEF MarkFinished
<1>3. accounts' \in [Numbers -> Rows \union {NoAccount}]
  <2>1. \A n \in Numbers : accounts'[n] \in Rows \union {NoAccount}
    BY <1>1, <1>2 DEF TypeOK
  <2>2. accounts' = [n \in Numbers |-> accounts'[n]]
    BY DEF MarkFinished
  <2> QED BY <2>1, <2>2
<1> QED BY <1>1, <1>2, <1>3 DEF MarkAccounts, IsOpen

(* Every step of the application is one of the service among its callers,  *)
(* or none of it.                                                          *)
LEMMA RequestIsService ==
    RequestTypeOK /\ [RequestNext]_requestVars => [ServiceNext]_vars
<1> SUFFICES ASSUME RequestTypeOK, [RequestNext]_requestVars
             PROVE  [ServiceNext]_vars
  OBVIOUS
<1>1. ASSUME NEW w \in Workers, LookupTo(w)
      PROVE  ServiceNext
  <2>1. req[w] \in Transactions
    BY <1>1, RequestKnown DEF LookupTo
  <2> QED BY <1>1, <2>1 DEF LookupTo, ServiceNext
<1>2. ASSUME NEW w \in Workers,
             Transact(w) \/ TransactFault(w) \/ TransactReturns(w) \/ TransactThrows(w)
      PROVE  ServiceNext
  BY <1>2 DEF Transact, TransactFault, TransactReturns, TransactThrows, ServiceNext
<1>3. ASSUME NEW w \in Workers, Close(w) \/ CloseFault(w)
      PROVE  [ServiceNext]_vars
  <2>1. req[w] \in Transactions /\ TypeOK
    BY <1>3, RequestKnown DEF Close, CloseFault, RequestTypeOK
  <2>2. CASE MarkFinished(req[w])
    BY <1>3, <2>1, <2>2, FinishedMarks DEF Close, CloseFault, ServiceNext
  <2>3. CASE UNCHANGED accounts
    BY <1>3, <2>3 DEF Close, CloseFault, vars
  <2> QED BY <1>3, <2>2, <2>3 DEF Close, CloseFault
<1>4. ASSUME NEW n \in Numbers, NEW b \in Deposits, NEW c \in Currencies,
             PostAccount(n, b, c)
      PROVE  ServiceNext
  BY <1>4 DEF PostAccount, ServiceNext
<1>5. CASE ServerCrash
  BY <1>5 DEF ServerCrash, ServiceNext
<1>6. ASSUME NEW w \in Workers,
             \/ \E t \in Transactions : Post(w, t) \/ PostTypeless(w, t)
             \/ RunLock(w) \/ AccLock(w) \/ LookupFrom(w) \/ LookupFails(w)
             \/ TxLock(w) \/ Respond(w)
      PROVE  UNCHANGED vars
  BY <1>6 DEF Post, PostTypeless, RunLock, AccLock, LookupFrom, LookupFails,
              TxLock, Respond
<1>7. CASE UNCHANGED requestVars
  BY <1>7 DEF requestVars
<1> QED BY <1>1, <1>2, <1>3, <1>4, <1>5, <1>6, <1>7 DEF RequestNext, RequestStep

(* A request's step leaves other requests alone.                           *)
LEMMA OtherRequests ==
    ASSUME RequestInv, NEW w \in Workers, ActsFor(w), NEW v \in Workers \ {w}
    PROVE  /\ stage'[v] = stage[v] /\ req'[v] = req[v] /\ exc'[v] = exc[v]
           /\ answer'[v] = answer[v] /\ failed'[v] = failed[v]
           /\ pc'[v] = pc[v] /\ tx'[v] = tx[v]
<1> USE DEF RequestInv, RequestTypeOK
<1>1. /\ stage'[v] = stage[v] /\ req'[v] = req[v] /\ exc'[v] = exc[v]
      /\ answer'[v] = answer[v] /\ failed'[v] = failed[v]
  <2>1. CASE \E t \in Transactions : Post(w, t) \/ PostTypeless(w, t)
    BY <2>1 DEF Post, PostTypeless, Enter
  <2>2. CASE \/ RunLock(w) \/ AccLock(w) \/ LookupFrom(w) \/ LookupTo(w)
             \/ Transact(w) \/ TransactFault(w) \/ TransactReturns(w)
             \/ TxLock(w) \/ Close(w) \/ CloseFault(w) \/ Respond(w)
    BY <2>2 DEF RunLock, AccLock, LookupFrom, LookupTo, Transact, TransactFault,
                TransactReturns, TxLock, Close, CloseFault, Respond, Enter,
                requestLocals
  <2>3. CASE LookupFails(w) \/ TransactThrows(w)
    <3>1. Capture(w)
      BY <2>3 DEF LookupFails, TransactThrows
    <3>2. exc'[v] = exc[v]
      BY <3>1 DEF Capture
    <3> QED BY <3>1, <3>2 DEF Capture, Enter
  <2> QED BY <2>1, <2>2, <2>3 DEF ActsFor, RequestStep
<1>2. CASE \/ Transact(w) \/ TransactFault(w) \/ TransactReturns(w)
           \/ TransactThrows(w) \/ LookupTo(w)
  <2>1. \/ Advance(w) \/ Fail(w) \/ Return(w)
        \/ \E t \in Transactions : BeginTransact(w, t)
    BY <1>2, RequestKnown
       DEF Transact, TransactFault, TransactReturns, TransactThrows, LookupTo
  <2> QED BY <1>1, <2>1, OthersUntouched DEF TypeInv
<1>3. CASE \/ \E t \in Transactions : Post(w, t) \/ PostTypeless(w, t)
           \/ RunLock(w) \/ AccLock(w) \/ LookupFrom(w) \/ LookupFails(w)
           \/ TxLock(w) \/ Close(w) \/ CloseFault(w) \/ Respond(w)
  <2>1. UNCHANGED <<pc, locals>>
    BY <1>3 DEF Post, PostTypeless, RunLock, AccLock, LookupFrom, LookupFails,
                TxLock, Close, CloseFault, Respond, vars
  <2> QED BY <1>1, <2>1 DEF locals
<1> QED BY <1>2, <1>3 DEF ActsFor, RequestStep

-----------------------------------------------------------------------------
(* The variables of the requests keep their types.                         *)
RequestTypes ==
    /\ stage \in [Workers -> Stages]
    /\ req \in [Workers -> Transactions \union {NoTransaction}]
    /\ exc \in [Workers -> {"blank", "failure"}]
    /\ answer \in [Workers -> {"none", "ok", "failed", "nullPointer"}]
    /\ failed \in [Workers -> SUBSET {"transfer", "close"}]

(* The request and its call in the service fit together.                   *)
RequestFits(w) ==
    /\ stage[w] = "idle" <=> req[w] = NoTransaction
    /\ IsActive(w) <=> stage[w] = "transact"
    /\ IsActive(w) => tx[w] = req[w]

(* The type invariant, taken apart: the variables' types and what each     *)
(* request's stage says of its call.                                       *)
LEMMA RequestParts ==
    RequestTypeOK <=> TypeOK /\ RequestTypes /\ \A w \in Workers : RequestFits(w)
  BY DEF RequestTypeOK, RequestTypes, RequestFits

(* The same after a step.                                                  *)
LEMMA RequestPartsNext ==
    TypeOK' /\ RequestTypes' /\ (\A w \in Workers : RequestFits(w)') => RequestTypeOK'
  BY DEF RequestTypeOK, RequestTypes, RequestFits, TypeOK, IsActive

(* A request's step leaves the request variables well typed.               *)
LEMMA RequestTypesStep ==
    ASSUME RequestInv, NEW w \in Workers, ActsFor(w)
    PROVE  RequestTypes'
<1> USE DEF RequestInv, RequestTypeOK, RequestTypes, Stages
<1>1. CASE \E t \in Transactions : Post(w, t) \/ PostTypeless(w, t)
  BY <1>1 DEF Post, PostTypeless, Enter
<1>2. CASE RunLock(w) \/ AccLock(w) \/ TxLock(w)
  BY <1>2 DEF RunLock, AccLock, TxLock, Enter
<1>3. CASE LookupFrom(w) \/ LookupTo(w) \/ TransactReturns(w)
  BY <1>3 DEF LookupFrom, LookupTo, TransactReturns, Enter
<1>4. CASE Transact(w) \/ TransactFault(w)
  BY <1>4 DEF Transact, TransactFault, requestLocals
<1>5. CASE LookupFails(w) \/ TransactThrows(w)
  <2>1. Capture(w)
    BY <1>5 DEF LookupFails, TransactThrows
  <2>2. PICK e \in {"blank", "failure"} : exc' = [exc EXCEPT ![w] = e]
    BY <2>1 DEF Capture, Copied
  <2>3. exc' \in [Workers -> {"blank", "failure"}]
    BY <2>2
  <2> QED BY <2>1, <2>3 DEF Capture, Enter
<1>6. CASE Close(w) \/ CloseFault(w) \/ Respond(w)
  BY <1>6 DEF Close, CloseFault, Copied, Respond, Enter
<1> QED BY <1>1, <1>2, <1>3, <1>4, <1>5, <1>6 DEF ActsFor, RequestStep

(* A request's step leaves its call where its next stage expects it.       *)
LEMMA OwnRequestFits ==
    ASSUME RequestInv, NEW w \in Workers, ActsFor(w)
    PROVE  RequestFits(w)'
<1> USE DEF RequestInv, RequestTypeOK, RequestFits, IsActive
<1>0. \A t \in Transactions : t # NoTransaction
  BY DEF ConstantsAssumption, MarksAssumption
<1>1. CASE \E t \in Transactions : Post(w, t) \/ PostTypeless(w, t)
  BY <1>0, <1>1 DEF Post, PostTypeless, Enter, vars, locals
<1>2. CASE RunLock(w) \/ AccLock(w) \/ TxLock(w) \/ LookupFrom(w)
  BY <1>2 DEF RunLock, AccLock, TxLock, LookupFrom, Enter, vars, locals
<1>3. CASE LookupTo(w)
  BY <1>3 DEF LookupTo, BeginTransact, Enter, TypeOK
<1>4. CASE Transact(w) \/ TransactFault(w)
  <2>1. pc[w] # "idle" /\ pc'[w] # "idle" /\ tx'[w] = tx[w]
    BY <1>4 DEF Transact, TransactFault, Advance, Reject, Execute, Skip, ReadFrom,
                ReadTo, UpdateFrom, UpdateTo, Fail, ReadFails, UpdateFails, AckLost,
                NextElement, Goto, locals, TypeOK
  <2> QED BY <1>4, <2>1 DEF Transact, TransactFault, requestLocals
<1>5. CASE TransactReturns(w) \/ TransactThrows(w)
  <2>1. pc'[w] = "idle"
    BY <1>5 DEF TransactReturns, TransactThrows, Return, Goto, TypeOK
  <2>2. stage'[w] = "txLock" /\ req' = req /\ stage[w] = "transact"
    BY <1>5 DEF TransactReturns, TransactThrows, Capture, Enter
  <2> QED BY <2>1, <2>2
<1>6. CASE LookupFails(w)
  <2>1. /\ stage[w] \in {"lookupFrom", "lookupTo"}
        /\ stage'[w] = "txLock" /\ req' = req /\ UNCHANGED vars
    BY <1>6 DEF LookupFails, Capture, Enter
  <2> QED BY <2>1 DEF vars, locals
<1>7. CASE Close(w) \/ CloseFault(w) \/ Respond(w)
  BY <1>7 DEF Close, CloseFault, Respond, Enter, vars, locals
<1> QED BY <1>1, <1>2, <1>3, <1>4, <1>5, <1>6, <1>7 DEF ActsFor, RequestStep

(* No request has been posted at first.                                    *)
LEMMA RequestTypeInit == RequestInit => RequestInv
<1> SUFFICES ASSUME RequestInit
             PROVE  RequestInv
  OBVIOUS
<1>1. TypeInv
  BY TypeInit DEF RequestInit
<1>2. RequestTypes /\ \A w \in Workers : RequestFits(w)
  BY DEF RequestInit, Init, RequestTypes, RequestFits, IsActive, Stages
<1> QED BY <1>1, <1>2, RequestParts DEF RequestInv, TypeInv

(* Every step leaves the requests well typed and their calls in their      *)
(* stages.                                                                 *)
LEMMA RequestTypeStep ==
    RequestInv /\ [RequestNext]_requestVars => RequestInv'
<1> SUFFICES ASSUME RequestInv, [RequestNext]_requestVars
             PROVE  RequestInv'
  OBVIOUS
<1>1. TypeInv' /\ TypeOK'
  BY RequestIsService, TypeStep DEF RequestInv, TypeInv
<1>2. RequestTypes /\ \A w \in Workers : RequestFits(w)
  BY RequestParts DEF RequestInv
<1>3. ASSUME NEW w \in Workers, ActsFor(w)
      PROVE  RequestTypes' /\ \A v \in Workers : RequestFits(v)'
  <2>1. RequestTypes' /\ RequestFits(w)'
    BY <1>3, RequestTypesStep, OwnRequestFits
  <2>2. ASSUME NEW v \in Workers \ {w}
        PROVE  RequestFits(v)'
    BY <1>2, <1>3, OtherRequests DEF RequestFits, IsActive
  <2> QED BY <2>1, <2>2
<1>4. ASSUME ServerCrash
      PROVE  RequestTypes' /\ \A v \in Workers : RequestFits(v)'
  BY <1>4 DEF ServerCrash, Crash, RequestTypes, RequestFits, IsActive, Stages,
              vars, locals
<1>5. ASSUME NEW n \in Numbers, NEW b \in Deposits, NEW c \in Currencies,
             PostAccount(n, b, c)
      PROVE  RequestTypes' /\ \A v \in Workers : RequestFits(v)'
  BY <1>2, <1>5 DEF PostAccount, PutAccount, requestLocals, locals, RequestTypes,
                    RequestFits, IsActive
<1>6. ASSUME UNCHANGED requestVars
      PROVE  RequestTypes' /\ \A v \in Workers : RequestFits(v)'
  BY <1>2, <1>6 DEF requestVars, requestLocals, vars, locals, RequestTypes,
                    RequestFits, IsActive
<1>7. RequestTypes' /\ \A v \in Workers : RequestFits(v)'
  BY <1>3, <1>4, <1>5, <1>6 DEF RequestNext, ActsFor
<1> QED BY <1>1, <1>7, RequestPartsNext DEF RequestInv

(* So it is in every reachable state.                                      *)
LEMMA RequestTyping == RequestSpec => []RequestInv
  BY RequestTypeInit, RequestTypeStep, PTL DEF RequestSpec

(* A request is with the service exactly while its stage says so, with the *)
(* transaction that was posted, and every variable keeps its type.         *)
THEOREM RequestTypeCorrect == RequestSpec => []RequestTypeOK
<1>1. RequestInv => RequestTypeOK
  BY DEF RequestInv
<1> QED BY <1>1, RequestTyping, PTL

-----------------------------------------------------------------------------
(* The web application is one of the service's callers.                    *)
LEMMA RequestsCallService == RequestSpec => ServiceSpec
<1>1. RequestInit => Init
  BY DEF RequestInit
<1>2. RequestInv /\ [RequestNext]_requestVars => [ServiceNext]_vars
  BY RequestIsService DEF RequestInv
<1> QED BY <1>1, <1>2, RequestTyping, PTL DEF RequestSpec, ServiceSpec

(* What the service promises holds of the requests, however they           *)
(* interleave, whatever fails and wherever the server dies: no account is  *)
(* overdrawn, no UPDATE crosses currencies, and a transfer that returns    *)
(* has made one debit and one credit.                                      *)
THEOREM RequestsKeepAccounts ==
    RequestSpec => [](BalancesNonNegative /\ SameCurrency /\ AppliedOnce)
  BY RequestsCallService, ServiceInvariant, ServiceFollows, PTL

(* A request whose transfer the service itself refuses has written nothing *)
(* to the accounts.                                                        *)
THEOREM RequestRefusals == RequestSpec => RejectionsLeaveNoTrace
  BY RequestsCallService, ServiceRefusals

-----------------------------------------------------------------------------
(* A request that keeps an exception, and a page that reports one, have    *)
(* their failure on record.                                                *)
HonestRequest(w) ==
    /\ stage[w] # "idle" /\ exc[w] = "failure" => failed[w] # {}
    /\ answer[w] = "failed" => failed[w] # {}

(* A request's step records an exception or a failed answer only where a   *)
(* statement failed.                                                       *)
LEMMA OwnHonesty ==
    ASSUME RequestInv, NEW w \in Workers, HonestRequest(w), ActsFor(w)
    PROVE  HonestRequest(w)'
<1> USE DEF RequestInv, RequestTypeOK, HonestRequest
<1>1. CASE \E t \in Transactions : Post(w, t) \/ PostTypeless(w, t)
  BY <1>1 DEF Post, PostTypeless, Enter
<1>2. CASE RunLock(w) \/ AccLock(w) \/ TxLock(w)
  BY <1>2 DEF RunLock, AccLock, TxLock, Enter
<1>3. CASE LookupFrom(w) \/ LookupTo(w) \/ TransactReturns(w)
  BY <1>3 DEF LookupFrom, LookupTo, TransactReturns, Enter
<1>4. CASE Transact(w) \/ TransactFault(w)
  BY <1>4 DEF Transact, TransactFault, requestLocals
<1>5. CASE LookupFails(w) \/ TransactThrows(w)
  <2>1. failed'[w] = failed[w] \union {"transfer"}
    BY <1>5 DEF LookupFails, TransactThrows, Capture
  <2> QED BY <2>1
<1>6. CASE Close(w)
  <2>1. /\ exc'[w] \in {"blank", exc[w]} /\ stage[w] # "idle"
        /\ UNCHANGED <<answer, failed>>
    BY <1>6 DEF Close
  <2> QED BY <2>1
<1>7. CASE CloseFault(w)
  <2>1. failed'[w] = failed[w] \union {"close"}
    BY <1>7 DEF CloseFault
  <2> QED BY <2>1
<1>8. CASE Respond(w)
  BY <1>8 DEF Respond, Enter
<1> QED BY <1>1, <1>2, <1>3, <1>4, <1>5, <1>6, <1>7, <1>8 DEF ActsFor, RequestStep

(* A page that says "failed" is right: whatever the two functors copied    *)
(* over each other, the collector cleared, or an earlier request of the    *)
(* thread left behind, some part of that very request failed.              *)
THEOREM FailuresAreHonest == RequestSpec => []HonestFailure
<1> DEFINE Inv == \A w \in Workers : HonestRequest(w)
<1>1. RequestInit => Inv
  BY DEF RequestInit, HonestRequest
<1>2. RequestInv /\ Inv /\ [RequestNext]_requestVars => Inv'
  <2> SUFFICES ASSUME RequestInv, Inv, [RequestNext]_requestVars,
                      NEW v \in Workers
               PROVE  HonestRequest(v)'
    OBVIOUS
  <2>1. ASSUME NEW w \in Workers, ActsFor(w)
        PROVE  HonestRequest(v)'
    <3>1. CASE v = w
      BY <2>1, <3>1, OwnHonesty
    <3>2. CASE v # w
      BY <2>1, <3>2, OtherRequests DEF HonestRequest
    <3> QED BY <3>1, <3>2
  <2>2. CASE ServerCrash
    BY <2>2 DEF ServerCrash, HonestRequest
  <2>3. CASE \/ UNCHANGED requestVars
             \/ \E n \in Numbers, b \in Deposits, c \in Currencies : PostAccount(n, b, c)
    BY <2>3 DEF PostAccount, requestVars, requestLocals, HonestRequest
  <2> QED BY <2>1, <2>2, <2>3 DEF RequestNext, ActsFor
<1>3. Inv => HonestFailure
  BY DEF HonestRequest, HonestFailure
<1> QED BY <1>1, <1>2, <1>3, RequestTyping, PTL DEF RequestSpec

-----------------------------------------------------------------------------
InProcess(n) == IsOpen(n) /\ accounts[n].status \in {Outgoing, Incoming}

(* The request that still has to mark n finished.                          *)
Owns(w, n) == stage[w] \in {"transact", "txLock", "close"} /\ n \in Parties(req[w])

(* A transfer writes the accounts of its request only.                     *)
LEMMA TransactRows ==
    ASSUME RequestInv, NEW w \in Workers, Transact(w) \/ TransactFault(w),
           NEW n \in Numbers, n \notin Parties(req[w])
    PROVE  accounts'[n] = accounts[n]
<1> USE DEF RequestInv, TypeInv
<1>1. IsActive(w) /\ tx[w] = req[w]
  BY DEF Transact, TransactFault, RequestTypeOK
<1>2. CASE UpdateFrom(w) \/ UpdateTo(w) \/ AckLost(w)
  <2>1. /\ newFrom[w] \in Int /\ newTo[w] \in Int
        /\ Outgoing \in Statuses /\ Incoming \in Statuses
    BY DEF TypeOK, Statuses
  <2>2. /\ tx[w].from \in Numbers /\ tx[w].to \in Numbers
        /\ IsOpen(tx[w].from) /\ IsOpen(tx[w].to)
        /\ n # tx[w].from /\ n # tx[w].to
    BY <1>1, ActiveCall DEF Parties
  <2> QED BY <1>2, <2>1, <2>2, RowUpdate DEF UpdateFrom, UpdateTo, AckLost
<1>3. CASE UNCHANGED accounts
  BY <1>3
<1> QED BY <1>2, <1>3 DEF Transact, TransactFault, Advance, Fail, Reject, Execute,
                         Skip, ReadFrom, ReadTo, ReadFails, UpdateFails

(* The owner of a mark keeps it until it marks the account finished.       *)
LEMMA OwnerStays ==
    ASSUME RequestInv, ~GcClears, ~CloseMayFail,
           NEW w \in Workers, ActsFor(w), ~Close(w),
           NEW v \in Workers, NEW n \in Numbers, Owns(v, n)
    PROVE  Owns(v, n)'
<1>1. CASE v # w
  BY <1>1, OtherRequests DEF Owns
<1>2. CASE v = w
  <2>1. \/ Transact(w) \/ TransactFault(w) \/ TransactReturns(w)
        \/ TransactThrows(w) \/ TxLock(w)
    BY <1>2 DEF Owns, ActsFor, RequestStep, Post, PostTypeless, RunLock, AccLock,
                LookupFrom, LookupTo, LookupFails, CloseFault, Respond
  <2>2. req' = req /\ stage'[w] \in {"transact", "txLock", "close"}
    BY <2>1 DEF Transact, TransactFault, TransactReturns, TransactThrows, TxLock,
                Capture, Enter, requestLocals, RequestInv, RequestTypeOK
  <2> QED BY <1>2, <2>2 DEF Owns
<1> QED BY <1>1, <1>2

(* Without lost closings and crashes, a mark that stays or appears has a   *)
(* request that still has to clear it.                                     *)
LEMMA OwnerStep ==
    ASSUME RequestInv, ~GcClears, ~CloseMayFail, ~MayCrash,
           [RequestNext]_requestVars, NEW n \in Numbers, InProcess(n)',
           InProcess(n) => \E v \in Workers : Owns(v, n)
    PROVE  \E v \in Workers : Owns(v, n)'
<1> USE DEF RequestInv
<1>1. ASSUME NEW w \in Workers, ActsFor(w), accounts'[n] = accounts[n], ~Close(w)
      PROVE  \E v \in Workers : Owns(v, n)'
  BY <1>1, OwnerStays DEF InProcess, IsOpen
<1>2. ASSUME NEW w \in Workers, Transact(w) \/ TransactFault(w),
             accounts'[n] # accounts[n]
      PROVE  Owns(w, n)'
  <2>1. n \in Parties(req[w])
    BY <1>2, TransactRows
  <2> QED BY <1>2, <2>1 DEF Transact, TransactFault, requestLocals, Owns
<1>3. ASSUME NEW w \in Workers, Close(w)
      PROVE  \E v \in Workers : Owns(v, n)'
  <2>1. ~(n \in Parties(req[w]) /\ IsOpen(n))
    <3>1. ASSUME n \in Parties(req[w]), IsOpen(n)
          PROVE  accounts'[n].status = Finished
      BY <1>3, <3>1 DEF Close, MarkFinished, RequestTypeOK, TypeOK, IsOpen, Rows
    <3> QED BY <3>1 DEF InProcess, Finished, Outgoing, Incoming
  <2>2. accounts'[n] = accounts[n]
    BY <1>3, <2>1 DEF Close, MarkFinished
  <2>3. PICK v \in Workers : Owns(v, n)
    BY <2>2 DEF InProcess, IsOpen
  <2>4. v # w
    BY <2>1, <2>2, <2>3 DEF Owns, InProcess, IsOpen
  <2>5. Owns(v, n)'
    BY <1>3, <2>3, <2>4, OtherRequests DEF Owns, ActsFor, RequestStep
  <2> QED BY <2>5
<1>4. ASSUME NEW w \in Workers, ActsFor(w), accounts'[n] # accounts[n],
             ~(Transact(w) \/ TransactFault(w))
      PROVE  Close(w)
  BY <1>4 DEF ActsFor, RequestStep, Post, PostTypeless, RunLock, AccLock, LookupFrom,
              LookupTo, BeginTransact, LookupFails, TransactReturns, TransactThrows,
              Return, TxLock, CloseFault, Respond, vars
<1>5. ASSUME NEW w \in Workers, ActsFor(w)
      PROVE  \E v \in Workers : Owns(v, n)'
  BY <1>1, <1>2, <1>3, <1>4, <1>5
<1>6. ASSUME NEW m \in Numbers, NEW b \in Deposits, NEW c \in Currencies,
             PostAccount(m, b, c)
      PROVE  \E v \in Workers : Owns(v, n)'
  <2>1. n # m => accounts'[n] = accounts[n]
    BY <1>6 DEF PostAccount, PutAccount
  <2>2. n = m => accounts'[n].status = Unset
    BY <1>6 DEF PostAccount, PutAccount, RequestTypeOK, TypeOK
  <2>3. n # m
    BY <2>2 DEF InProcess, Unset, Outgoing, Incoming
  <2> QED BY <1>6, <2>1, <2>3 DEF PostAccount, requestLocals, InProcess, IsOpen, Owns
<1>7. CASE UNCHANGED requestVars
  BY <1>7 DEF requestVars, requestLocals, vars, InProcess, IsOpen, Owns
<1>8. ~ServerCrash
  BY DEF ServerCrash
<1> QED BY <1>5, <1>6, <1>7, <1>8 DEF RequestNext, ActsFor

(* A mark in process always has a request behind it that will still mark   *)
(* the account finished, also where requests share accounts and close over *)
(* each other's marks: as long as the process lives, closeTransaction's    *)
(* UPDATE succeeds and the locks' references are not cleared.              *)
THEOREM MarksHaveOwners == RequestSpec => []InProcessHasOwner
<1>1. RequestInit => InProcessHasOwner
  BY DEF RequestInit, Init, InProcessHasOwner, IsOpen
<1>2. RequestInv /\ InProcessHasOwner /\ [RequestNext]_requestVars
      => InProcessHasOwner'
  <2> SUFFICES ASSUME RequestInv, InProcessHasOwner, [RequestNext]_requestVars,
                      ~GcClears, ~CloseMayFail, ~MayCrash,
                      NEW n \in Numbers, InProcess(n)'
               PROVE  \E w \in Workers : Owns(w, n)'
    BY DEF InProcessHasOwner, InProcess, Owns, IsOpen
  <2>1. InProcess(n) => \E w \in Workers : Owns(w, n)
    BY DEF InProcessHasOwner, InProcess, Owns
  <2> QED BY <2>1, OwnerStep
<1> QED BY <1>1, <1>2, RequestTyping, PTL DEF RequestSpec

-----------------------------------------------------------------------------
(* No two requests in progress name the same account.                      *)
RequestsDisjoint ==
    \A v, w \in Workers :
        v # w /\ stage[v] # "idle" /\ stage[w] # "idle"
            => Parties(req[v]) \cap Parties(req[w]) = {}

(* Requests are taken in only on accounts no request in progress has.      *)
LEMMA RequestsDisjointStep ==
    ASSUME Isolated, RequestInv, RequestsDisjoint, [RequestNext]_requestVars
    PROVE  RequestsDisjoint'
<1>1. ASSUME \A v \in Workers :
                stage'[v] # "idle" => stage[v] # "idle" /\ req'[v] = req[v]
      PROVE  RequestsDisjoint'
  BY <1>1 DEF RequestsDisjoint
<1>2. ASSUME NEW w \in Workers, NEW t \in Transactions, Post(w, t)
      PROVE  RequestsDisjoint'
  <2>1. /\ req'[w] = t
        /\ \A v \in Workers \ {w} : stage'[v] = stage[v] /\ req'[v] = req[v]
        /\ \A v \in Workers : stage[v] # "idle" => Parties(t) \cap Parties(req[v]) = {}
    BY <1>2 DEF Post, Enter, Admitted, RequestInv, RequestTypeOK
  <2> QED BY <2>1 DEF RequestsDisjoint
<1>3. ASSUME NEW w \in Workers,
             RequestStep(w) \/ TransactFault(w) \/ CloseFault(w)
      PROVE  stage[w] # "idle" /\ (stage'[w] # "idle" => req'[w] = req[w])
  BY <1>3 DEF RequestStep, RunLock, AccLock, LookupFrom, LookupTo, LookupFails,
              Transact, TransactFault, TransactReturns, TransactThrows, TxLock, Close,
              CloseFault, Respond, Capture, Enter, requestLocals, RequestInv,
              RequestTypeOK
<1>4. ASSUME NEW w \in Workers,
             RequestStep(w) \/ TransactFault(w) \/ CloseFault(w)
      PROVE  RequestsDisjoint'
  BY <1>1, <1>3, <1>4, OtherRequests DEF ActsFor
<1>5. CASE \/ \E w \in Workers, t \in Transactions : PostTypeless(w, t)
           \/ \E n \in Numbers, b \in Deposits, c \in Currencies : PostAccount(n, b, c)
           \/ UNCHANGED requestVars
  <2>1. UNCHANGED <<stage, req>>
    BY <1>5 DEF PostTypeless, PostAccount, requestLocals, requestVars
  <2> QED BY <1>1, <2>1
<1>6. CASE ServerCrash
  BY <1>6 DEF ServerCrash, RequestsDisjoint
<1> QED BY <1>2, <1>4, <1>5, <1>6 DEF RequestNext

(* Requests for accounts of their own make calls for accounts of their own. *)
LEMMA RequestsStayDisjoint ==
    ASSUME Isolated
    PROVE  RequestSpec => []Disjoint
<1>1. RequestInit => RequestsDisjoint
  BY DEF RequestInit, RequestsDisjoint
<1>2. RequestInv /\ RequestsDisjoint /\ [RequestNext]_requestVars
      => RequestsDisjoint'
  BY RequestsDisjointStep
<1>3. RequestInv /\ RequestsDisjoint => Disjoint
  BY DEF RequestInv, RequestTypeOK, RequestsDisjoint, Disjoint
<1> QED BY <1>1, <1>2, <1>3, RequestTyping, PTL DEF RequestSpec

(* Between its SELECTs and its UPDATEs, each a transaction of its own, a   *)
(* request's transfer holds the balances the table has, as long as         *)
(* requests keep to accounts of their own.                                 *)
THEOREM RequestReadsCurrent == RequestSpec => []ReadsStayCurrent
<1>1. CASE Isolated
  BY <1>1, RequestsStayDisjoint, RequestsCallService, ServiceReadsCurrent, PTL
<1>2. CASE ~Isolated
  <2>1. ReadsStayCurrent
    BY <1>2 DEF ReadsStayCurrent
  <2> QED BY <2>1, PTL
<1> QED BY <1>1, <1>2

(* The whole web application over it, with its lookups, its two functors,  *)
(* its closing UPDATE, its failures and its crashes, implements the ledger *)
(* for requests that keep to accounts of their own.                        *)
THEOREM RequestsImplementLedger ==
    ASSUME Isolated, NoSelfTransfers
    PROVE  RequestSpec => ImplementsLedger
  BY RequestsStayDisjoint, RequestsCallService, ServiceImplements, PTL

(* So do the totals: the web application loses no money of such requests   *)
(* but by a fault, and makes none but by rounding.                         *)
THEOREM RequestsConserveMoney ==
    ASSUME Isolated, NoSelfTransfers
    PROVE  RequestSpec => MoneyConserved /\ OnlyFaultsLose
  BY RequestsStayDisjoint, RequestsCallService, ServiceConserves, PTL
=============================================================================
