-------------------------- MODULE TransferRequest --------------------------
(***************************************************************************)
(* A transfer as the web application runs it, from the POST to the page:   *)
(* HomeRestTransactTestingServlet.doPost calls                             *)
(* TransactionServiceImpl.processTransaction, whose ConcurrencyAccess.run  *)
(* applies two functors one after the other: 4Accounts looks both accounts *)
(* up and calls transactInAccounts, 4Transactions calls closeTransaction.  *)
(* Each request has a thread of its own, here a worker of AccountService.  *)
(*                                                                         *)
(* The locks of run() and of the functors are created for the request,     *)
(* held by it alone and kept in a WeakReference: tryLock never fails, but  *)
(* where the code dereferences one the collector may already have cleared  *)
(* it, and the NullPointerException is an outcome of that step.  The       *)
(* exceptions the functors keep are weakly referenced too.                 *)
(***************************************************************************)
EXTENDS AccountService

CONSTANTS
    GcClears,      \* TRUE: the collector may clear a weak reference
    CloseMayFail   \* TRUE: the UPDATE of closeTransaction may fail

ASSUME RequestAssumption == GcClears \in BOOLEAN /\ CloseMayFail \in BOOLEAN

VARIABLES
    stage,   \* stage[w]: where w's request is
    req,     \* req[w]: the transaction being processed
    exc,     \* exc[w]: ConcurrencyAccess.exception, by whether its message
             \*   is blank
    answer,  \* answer[w]: what the page of w's latest request says
    failed   \* failed[w]: history, which parts of that request failed

requestLocals == <<stage, req, exc, answer, failed>>
requestVars == <<vars, requestLocals>>

Stages == {"idle", "runLock", "accLock", "lookupFrom", "lookupTo", "transact",
           "txLock", "close", "respond"}

RequestInit ==
    /\ Init
    /\ stage = [w \in Workers |-> "idle"]
    /\ req = [w \in Workers |-> NoTransaction]
    /\ exc = [w \in Workers |-> "blank"]
    /\ answer = [w \in Workers |-> "none"]
    /\ failed = [w \in Workers |-> {}]

Enter(w, s) == stage' = [stage EXCEPT ![w] = s]

(* A row is created through HomeRestAccountsTestingServlet.doPost.         *)
PostAccount(n, b, c) == PutAccount(n, b, c) /\ UNCHANGED requestLocals

-----------------------------------------------------------------------------
(* The requests the environment makes: within the bound and, where         *)
(* Isolated says so, for accounts no request in progress names.            *)
Admitted(t) ==
    /\ WithinBound(t)
    /\ Isolated => \A v \in Workers :
                       stage[v] # "idle" => Parties(t) \cap Parties(req[v]) = {}

(* Mutant of Post: the exception of the previous request is kept.          *)
PostKeepsException(w, t) ==
    /\ stage[w] = "idle"
    /\ IsCredit(t) \/ IsDebit(t)
    /\ Admitted(t)
    /\ Enter(w, "runLock")
    /\ req' = [req EXCEPT ![w] = t]
    /\ answer' = [answer EXCEPT ![w] = "none"]
    /\ failed' = [failed EXCEPT ![w] = {}]
    /\ UNCHANGED <<vars, exc>>

(* processTransaction starts: a new ConcurrencyAccess with a blank         *)
(* exception.                                                              *)
Post(w, t) ==
    /\ stage[w] = "idle"
    /\ IsCredit(t) \/ IsDebit(t)
    /\ Admitted(t)
    /\ Enter(w, "runLock")
    /\ req' = [req EXCEPT ![w] = t]
    /\ exc' = [exc EXCEPT ![w] = "blank"]
    /\ answer' = [answer EXCEPT ![w] = "none"]
    /\ failed' = [failed EXCEPT ![w] = {}]
    /\ UNCHANGED vars

(* Any other type reaches the last line of processTransaction, which       *)
(* dereferences the ConcurrencyAccess it never made; doPost prints the     *)
(* exception.                                                              *)
PostTypeless(w, t) ==
    /\ stage[w] = "idle"
    /\ ~IsCredit(t) /\ ~IsDebit(t)
    /\ answer' = [answer EXCEPT ![w] = "nullPointer"]
    /\ failed' = [failed EXCEPT ![w] = {"transfer"}]
    /\ UNCHANGED <<vars, stage, req, exc>>

(* run(): its lock.  A cleared reference ends run() with an exception      *)
(* whose message is blank.                                                 *)
RunLock(w) ==
    /\ stage[w] = "runLock"
    /\ \/ Enter(w, "accLock") /\ UNCHANGED failed
       \/ /\ GcClears
          /\ Enter(w, "respond")
          /\ failed' = [failed EXCEPT ![w] = {"transfer", "close"}]
    /\ UNCHANGED <<vars, req, exc, answer>>

(* accept of 4Accounts: its lock.  A cleared reference throws, and the     *)
(* handler's unlock throws again, out of accept: run() goes on to the      *)
(* second functor without having asked for the exception.                  *)
AccLock(w) ==
    /\ stage[w] = "accLock"
    /\ \/ Enter(w, "lookupFrom") /\ UNCHANGED failed
       \/ /\ GcClears
          /\ Enter(w, "txLock")
          /\ failed' = [failed EXCEPT ![w] = @ \union {"transfer"}]
    /\ UNCHANGED <<vars, req, exc, answer>>

(* Mutants of Capture: the handler does not leave the step; it leaves      *)
(* run() altogether, past the second functor.                              *)
CaptureStays(w) ==
    /\ exc' = [exc EXCEPT ![w] = "failure"]
    /\ failed' = [failed EXCEPT ![w] = @ \union {"transfer"}]
    /\ UNCHANGED <<stage, req, answer>>

CaptureBreaksChain(w) ==
    /\ exc' = [exc EXCEPT ![w] = "failure"]
    /\ failed' = [failed EXCEPT ![w] = @ \union {"transfer"}]
    /\ Enter(w, "respond")
    /\ UNCHANGED <<req, answer>>

(* What run() has of an exception a functor's handler kept: its message,   *)
(* which may be null where a statement failed (for want of a session, say, *)
(* or of outerLock) and counts as blank then; nothing new, if the lock or  *)
(* the exception has been cleared.                                         *)
Copied(w, nullMessage) ==
    {"failure"} \union (IF nullMessage THEN {"blank"} ELSE {})
                \union (IF GcClears THEN {exc[w]} ELSE {})

(* The handler of accept keeps the exception and unlocks; run() copies it. *)
Capture(w) ==
    /\ \E e \in Copied(w, FaultyOps # {}) : exc' = [exc EXCEPT ![w] = e]
    /\ failed' = [failed EXCEPT ![w] = @ \union {"transfer"}]
    /\ Enter(w, "txLock")
    /\ UNCHANGED <<req, answer>>

(* Both accounts are looked up; a missing row is an exception.             *)
LookupFrom(w) ==
    /\ stage[w] = "lookupFrom"
    /\ IsOpen(req[w].from)
    /\ Enter(w, "lookupTo")
    /\ UNCHANGED <<vars, req, exc, answer, failed>>

LookupTo(w) ==
    /\ stage[w] = "lookupTo"
    /\ IsOpen(req[w].to)
    /\ BeginTransact(w, req[w])
    /\ Enter(w, "transact")
    /\ UNCHANGED <<req, exc, answer, failed>>

(* (Its mutant notices failing SELECTs only and waits for a missing row.)  *)
LookupWaits(w) ==
    /\ "read" \in FaultyOps
    /\ \/ stage[w] = "lookupFrom" /\ IsOpen(req[w].from)
       \/ stage[w] = "lookupTo" /\ IsOpen(req[w].to)
    /\ Capture(w)
    /\ UNCHANGED vars

LookupFails(w) ==
    /\ \/ /\ stage[w] = "lookupFrom"
          /\ ~IsOpen(req[w].from) \/ "read" \in FaultyOps
       \/ /\ stage[w] = "lookupTo"
          /\ ~IsOpen(req[w].to) \/ "read" \in FaultyOps
    /\ Capture(w)
    /\ UNCHANGED vars

(* transactInAccounts runs in the request's thread.                        *)
Transact(w) ==
    /\ stage[w] = "transact"
    /\ Advance(w)
    /\ UNCHANGED requestLocals

TransactFault(w) ==
    /\ stage[w] = "transact"
    /\ Fail(w)
    /\ UNCHANGED requestLocals

(* It returns: the functor's exception is the blank one it was made with,  *)
(* or cleared, which leaves the blank one of ConcurrencyAccess.            *)
TransactReturns(w) ==
    /\ stage[w] = "transact"
    /\ pc[w] = "returned"
    /\ Return(w)
    /\ Enter(w, "txLock")
    /\ UNCHANGED <<req, exc, answer, failed>>

TransactThrows(w) ==
    /\ stage[w] = "transact"
    /\ pc[w] = "threw"
    /\ Return(w)
    /\ Capture(w)

-----------------------------------------------------------------------------
(* accept of 4Transactions, whatever became of the first: its lock.  A     *)
(* cleared reference throws out of accept, as above.                       *)
TxLock(w) ==
    /\ stage[w] = "txLock"
    /\ \/ Enter(w, "close") /\ UNCHANGED failed
       \/ /\ GcClears
          /\ Enter(w, "respond")
          /\ failed' = [failed EXCEPT ![w] = @ \union {"close"}]
    /\ UNCHANGED <<vars, req, exc, answer>>

(* Mutant of MarkFinished: only the source is closed.                      *)
MarkFinishedSource(t) ==
    accounts' = [n \in Numbers |->
                   IF n = t.from /\ IsOpen(n)
                   THEN [accounts[n] EXCEPT !.status = Finished]
                   ELSE accounts[n]]

(* closeTransaction: one UPDATE over both numbers.                         *)
MarkFinished(t) ==
    accounts' = [n \in Numbers |->
                   IF n \in Parties(t) /\ IsOpen(n)
                   THEN [accounts[n] EXCEPT !.status = Finished]
                   ELSE accounts[n]]

(* It succeeds: the functor still has the blank exception it was made      *)
(* with, and run() copies that over whatever the first functor left,       *)
(* unless the collector cleared it.                                        *)
Close(w) ==
    /\ stage[w] = "close"
    /\ MarkFinished(req[w])
    /\ \/ exc' = [exc EXCEPT ![w] = "blank"]
       \/ GcClears /\ UNCHANGED exc
    /\ Enter(w, "respond")
    /\ UNCHANGED <<pc, locals, req, answer, failed>>

(* It fails, rolled back or with its acknowledgement lost.  If there is no *)
(* session, closing it in the finally replaces the exception by one        *)
(* without a message.                                                      *)
CloseFault(w) ==
    /\ CloseMayFail
    /\ stage[w] = "close"
    /\ MarkFinished(req[w]) \/ UNCHANGED accounts
    /\ \E e \in Copied(w, TRUE) : exc' = [exc EXCEPT ![w] = e]
    /\ failed' = [failed EXCEPT ![w] = @ \union {"close"}]
    /\ Enter(w, "respond")
    /\ UNCHANGED <<pc, locals, req, answer>>

(* doPost writes the page: "failed with exception" when the exception it   *)
(* got back has a message, "All OK" when not.                              *)
Respond(w) ==
    /\ stage[w] = "respond"
    /\ answer' = [answer EXCEPT ![w] = IF exc[w] = "blank" THEN "ok" ELSE "failed"]
    /\ Enter(w, "idle")
    /\ req' = [req EXCEPT ![w] = NoTransaction]
    /\ UNCHANGED <<vars, exc, failed>>

(* The server dies: the requests and their threads are gone.               *)
ServerCrash ==
    /\ MayCrash
    /\ \E w \in Workers : stage[w] # "idle"
    /\ \/ Crash
       \/ (\A w \in Workers : ~IsActive(w)) /\ UNCHANGED vars
    /\ stage' = [w \in Workers |-> "idle"]
    /\ req' = [w \in Workers |-> NoTransaction]
    /\ exc' = [w \in Workers |-> "blank"]
    /\ answer' = [w \in Workers |-> "none"]
    /\ failed' = [w \in Workers |-> {}]

(* What w's thread does when nothing fails under it.                       *)
RequestStep(w) ==
    \/ RunLock(w) \/ AccLock(w)
    \/ LookupFrom(w) \/ LookupTo(w) \/ LookupFails(w)
    \/ Transact(w) \/ TransactReturns(w) \/ TransactThrows(w)
    \/ TxLock(w) \/ Close(w) \/ Respond(w)

RequestNext ==
    \/ \E n \in Numbers, b \in Deposits, c \in Currencies : PostAccount(n, b, c)
    \/ \E w \in Workers :
          \/ \E t \in Transactions : Post(w, t) \/ PostTypeless(w, t)
          \/ RequestStep(w)
          \/ TransactFault(w)
          \/ CloseFault(w)
    \/ ServerCrash

RequestSpec == RequestInit /\ [][RequestNext]_requestVars

(* A thread with a step to take is scheduled in the end: no step waits for *)
(* another request.                                                        *)
FairRequestSpec ==
    RequestSpec /\ \A w \in Workers : WF_requestVars(RequestStep(w))

-----------------------------------------------------------------------------
RequestTypeOK ==
    /\ TypeOK
    /\ stage \in [Workers -> Stages]
    /\ req \in [Workers -> Transactions \union {NoTransaction}]
    /\ exc \in [Workers -> {"blank", "failure"}]
    /\ answer \in [Workers -> {"none", "ok", "failed", "nullPointer"}]
    /\ failed \in [Workers -> SUBSET {"transfer", "close"}]
    /\ \A w \in Workers :
          /\ stage[w] = "idle" <=> req[w] = NoTransaction
          /\ IsActive(w) <=> stage[w] = "transact"
          /\ IsActive(w) => tx[w] = req[w]

(* A page that reports a failure is right: something of that request did   *)
(* fail, whatever the two functors, the weak references and earlier        *)
(* requests of the same thread left behind.                                *)
HonestFailure ==
    \A w \in Workers : answer[w] = "failed" => failed[w] # {}

(* An account is marked in process only while a request that will still    *)
(* mark it finished is on its way: whoever marked it last has not closed,  *)
(* although other requests may have closed over it in between.             *)
InProcessHasOwner ==
    ~GcClears /\ ~CloseMayFail /\ ~MayCrash =>
        \A n \in Numbers :
            IsOpen(n) /\ accounts[n].status \in {Outgoing, Incoming} =>
                \E w \in Workers : /\ stage[w] \in {"transact", "txLock", "close"}
                                   /\ n \in Parties(req[w])

(* Every request gets its page, whatever fails on the way.                 *)
RequestsAnswered ==
    \A w \in Workers : stage[w] = "runLock" ~> answer[w] # "none"

(* A mark of a transfer in process does not stay on an account for ever.   *)
MarksCleared ==
    \A n \in Numbers :
        (IsOpen(n) /\ accounts[n].status \in {Outgoing, Incoming})
            ~> (IsOpen(n) /\ accounts[n].status = Finished)

(* The first functor's exception is passed on: "All OK" is only said of a  *)
(* transfer that was made.                                                 *)
FailuresReported ==
    \A w \in Workers : answer[w] = "ok" => "transfer" \notin failed[w]
=============================================================================
