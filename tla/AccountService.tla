--------------------------- MODULE AccountService ---------------------------
(***************************************************************************)
(* AccountServiceImpl: the bank_account table and the transfers that       *)
(* concurrent callers run against it with transactInAccounts.              *)
(*                                                                         *)
(* Every getAccountByNumber and every updateAccount opens a session of its *)
(* own, runs one statement in one database transaction and commits, so     *)
(* each is one atomic step here and other callers' steps fall between      *)
(* them.  The locks and monitors inside transactInAccounts belong to       *)
(* objects no other caller can reach (a new ReentrantLock per element, the *)
(* caller's own entities and collection); they exclude nobody, and the     *)
(* model has no lock.                                                      *)
(*                                                                         *)
(* The table has one row per number, as the unique constraint of the       *)
(* migrated schema makes it.  Amounts are those of Money: the arithmetic   *)
(* of a transfer is exact, and what a statement writes is rounded.         *)
(***************************************************************************)
EXTENDS Money, FiniteSets

CONSTANTS
    Workers,        \* threads inside the account service
    Numbers,        \* account numbers
    Currencies,     \* ISO codes of the currencies
    Deposits,       \* balances an account is opened with
    Transactions,   \* the transactions callers may ask for
    NoAccount,      \* a number without a row
    NoTransaction,  \* the transaction of a worker with no call
    MaxBalance,     \* bound: a call starts only from balances up to this
    Isolated,       \* TRUE: callers never share an account between calls
    FaultyOps,      \* which database operations may fail
    MayCrash        \* TRUE: the process may die and start again

(* A transaction as the entity lets it through: setTransactionAmount       *)
(* refuses negative amounts, the type is -1 (debit), 0 or 1 (credit).      *)
TransactionRecords ==
    [from : Numbers, to : Numbers, amount : Nat, type : {-1, 0, 1},
     currency : Currencies]

ASSUME ConstantsAssumption ==
    /\ Deposits \subseteq Nat
    /\ Transactions \subseteq TransactionRecords
    /\ MaxBalance \in Nat
    /\ Isolated \in BOOLEAN
    /\ MayCrash \in BOOLEAN

(* "read" : a SELECT fails.  "update" : an UPDATE fails and is rolled back. *)
(* "ack" : an UPDATE commits and the caller gets an exception nonetheless.  *)
ASSUME FaultsAssumption == FaultyOps \subseteq {"read", "update", "ack"}

(* BankAccount.accountStatus: unset (SQL null), then what the code writes.  *)
Unset     == 0
Outgoing  == 10   \* in-process balance outgoing
Incoming  == 20   \* in-process balance incoming
Finished  == 60   \* set by closeTransaction
Statuses  == {Unset, Outgoing, Incoming, Finished}

Rows == [balance : Int, status : Statuses, currency : Currencies]

(* What the ledger below says of an open account.                          *)
Entries == [balance : Int, currency : Currencies]

ASSUME MarksAssumption ==
    /\ NoAccount \notin Rows \union Entries
    /\ NoTransaction \notin TransactionRecords \union Currencies

VARIABLES
    accounts,  \* the table: accounts[n] is the row of number n
    pc,        \* pc[w]: where w is in transactInAccounts
    tx,        \* tx[w]: the transaction w works on
    pass,      \* pass[w]: elements of the collection w has finished
    unit,      \* unit[w]: the currencies of w's balanceFrom and balanceTo
    newFrom,   \* newFrom[w]: the balance w computed for balanceFrom
    newTo,     \* newTo[w]: the balance w computed for balanceTo
    writes     \* writes[w]: history, the UPDATEs w's call has committed

locals == <<tx, pass, unit, newFrom, newTo, writes>>
vars == <<accounts, pc, locals>>

Steps == {"idle", "iterate", "readFrom", "readTo", "updateFrom", "updateTo",
          "returned", "threw"}

IsOpen(n) == accounts[n] # NoAccount
IsActive(w) == pc[w] # "idle"
Parties(t) == {t.from, t.to}
NoUnits == [from |-> NoTransaction, to |-> NoTransaction]

Init ==
    /\ accounts = [n \in Numbers |-> NoAccount]
    /\ pc = [w \in Workers |-> "idle"]
    /\ tx = [w \in Workers |-> NoTransaction]
    /\ pass = [w \in Workers |-> 0]
    /\ unit = [w \in Workers |-> NoUnits]
    /\ newFrom = [w \in Workers |-> 0]
    /\ newTo = [w \in Workers |-> 0]
    /\ writes = [w \in Workers |-> 0]

-----------------------------------------------------------------------------
(* putAccount: a new row.  A second row with a used number breaks the      *)
(* unique constraint; that insert is rolled back and changes nothing.      *)
PutAccount(n, b, c) ==
    /\ ~IsOpen(n)
    /\ accounts' = [accounts EXCEPT
                      ![n] = [balance |-> Stored(b), status |-> Unset,
                              currency |-> c]]
    /\ UNCHANGED <<pc, locals>>

(* A caller enters transactInAccounts with the rows it looked up.  Rows    *)
(* are never deleted and keep their currency, so what the caller saw of    *)
(* them is what the table says now.                                        *)
BeginTransact(w, t) ==
    /\ pc[w] = "idle"
    /\ \A n \in Parties(t) : IsOpen(n)
    /\ pc' = [pc EXCEPT ![w] = "iterate"]
    /\ tx' = [tx EXCEPT ![w] = t]
    /\ unit' = [unit EXCEPT ![w] = [from |-> accounts[t.from].currency,
                                    to |-> accounts[t.to].currency]]
    /\ UNCHANGED <<accounts, pass, newFrom, newTo, writes>>

(* The bound: a call starts only while the balances in the table, and those *)
(* other calls are about to write (a stale one can be the larger), are      *)
(* within MaxBalance.                                                       *)
WithinBound(t) ==
    /\ \A n \in Parties(t) : IsOpen(n) => accounts[n].balance =< MaxBalance
    /\ \A v \in Workers : newFrom[v] =< MaxBalance /\ newTo[v] =< MaxBalance

(* The calls the environment makes: within the bound and, where Isolated   *)
(* says so, on accounts no call in progress uses.                          *)
Call(w, t) ==
    /\ WithinBound(t)
    /\ Isolated => \A v \in Workers :
                       IsActive(v) => Parties(t) \cap Parties(tx[v]) = {}
    /\ BeginTransact(w, t)

-----------------------------------------------------------------------------
IsCredit(t) == t.type = 1
IsDebit(t) == t.type = -1

(* The element of the collection the loop is at.                           *)
Element(w) == IF pass[w] = 0 THEN tx[w].from ELSE tx[w].to

(* Mutants of CurrenciesMatch: only the source is compared; the check      *)
(* waits until the branch has read both rows, and so for the second        *)
(* iteration.                                                              *)
SourceCurrencyMatches(w) == unit[w].from = tx[w].currency

CurrenciesMatchLate(w) ==
    pass[w] = 0 \/ (unit[w].from = unit[w].to /\ unit[w].from = tx[w].currency)

(* The currency check at the head of every iteration.                      *)
CurrenciesMatch(w) ==
    /\ unit[w].from = unit[w].to
    /\ unit[w].from = tx[w].currency

(* Mutant of Executes: either branch runs at either element.               *)
ExecutesAnywhere(w) == IsCredit(tx[w]) \/ IsDebit(tx[w])

(* A credit is executed at the element that is its source, a debit at the  *)
(* element that is its destination.                                        *)
Executes(w) ==
    \/ IsCredit(tx[w]) /\ Element(w) = tx[w].from
    \/ IsDebit(tx[w]) /\ Element(w) = tx[w].to

Goto(w, step) == pc' = [pc EXCEPT ![w] = step]

(* Mutant of NextElement: the loop runs once too often.                    *)
NextElementOnceMore(w) ==
    /\ pass' = [pass EXCEPT ![w] = @ + 1]
    /\ Goto(w, IF pass[w] =< 1 THEN "iterate" ELSE "returned")

(* The element is done: on to the next of the two, or out of the loop.     *)
NextElement(w) ==
    /\ pass' = [pass EXCEPT ![w] = @ + 1]
    /\ Goto(w, IF pass[w] = 0 THEN "iterate" ELSE "returned")

(* The three ends of an iteration's first part.  The row re-read there is  *)
(* used for its number only.                                               *)
Reject(w) ==
    /\ pc[w] = "iterate"
    /\ \/ ~CurrenciesMatch(w)
       \/ ~Executes(w) /\ tx[w].from = tx[w].to
    /\ Goto(w, "threw")
    /\ UNCHANGED <<accounts, locals>>

Execute(w) ==
    /\ pc[w] = "iterate"
    /\ CurrenciesMatch(w)
    /\ Executes(w)
    /\ Goto(w, "readFrom")
    /\ UNCHANGED <<accounts, locals>>

Skip(w) ==
    /\ pc[w] = "iterate"
    /\ CurrenciesMatch(w)
    /\ ~Executes(w)
    /\ tx[w].from # tx[w].to
    /\ NextElement(w)
    /\ UNCHANGED <<accounts, tx, unit, newFrom, newTo, writes>>

(* Mutants of Debited and Credited: the debit branch has the credit        *)
(* branch's signs.                                                         *)
DebitedAsCredit(b, t) == b - t.amount * t.type
CreditedAsCredit(b, t) == b + t.amount * t.type

(* The new balances, with the sign the branch gives the amount.            *)
Debited(b, t) == b + t.amount * (IF IsCredit(t) THEN -t.type ELSE t.type)
Credited(b, t) == b + t.amount * (IF IsCredit(t) THEN t.type ELSE -t.type)

(* Mutant of ReadFrom: no check against zero.                              *)
ReadFromUnchecked(w) ==
    /\ pc[w] = "readFrom"
    /\ LET row == accounts[tx[w].from]
       IN  /\ newFrom' = [newFrom EXCEPT ![w] = Debited(row.balance, tx[w])]
           /\ unit' = [unit EXCEPT ![w] = [from |-> row.currency, to |-> @.to]]
    /\ Goto(w, "readTo")
    /\ UNCHANGED <<accounts, tx, pass, newTo, writes>>

(* Read the source row and compute its balance; a negative one throws.     *)
ReadFrom(w) ==
    /\ pc[w] = "readFrom"
    /\ LET row == accounts[tx[w].from]
           new == Debited(row.balance, tx[w])
       IN  /\ newFrom' = [newFrom EXCEPT ![w] = new]
           /\ unit' = [unit EXCEPT ![w] = [from |-> row.currency, to |-> @.to]]
           /\ Goto(w, IF new < 0 THEN "threw" ELSE "readTo")
    /\ UNCHANGED <<accounts, tx, pass, newTo, writes>>

(* The same for the destination row.                                       *)
ReadTo(w) ==
    /\ pc[w] = "readTo"
    /\ LET row == accounts[tx[w].to]
           new == Credited(row.balance, tx[w])
       IN  /\ newTo' = [newTo EXCEPT ![w] = new]
           /\ unit' = [unit EXCEPT ![w] = [from |-> @.from, to |-> row.currency]]
           /\ Goto(w, IF new < 0 THEN "threw" ELSE "updateFrom")
    /\ UNCHANGED <<accounts, tx, pass, newFrom, writes>>

(* updateAccount: balance and status are overwritten, whatever they are;   *)
(* the column rounds the balance.                                          *)
UpdateAccount(n, b, s) ==
    accounts' = [accounts EXCEPT
                   ![n] = [balance |-> Stored(b), status |-> s,
                           currency |-> @.currency]]

UpdateFrom(w) ==
    /\ pc[w] = "updateFrom"
    /\ UpdateAccount(tx[w].from, newFrom[w], Outgoing)
    /\ writes' = [writes EXCEPT ![w] = @ + 1]
    /\ Goto(w, "updateTo")
    /\ UNCHANGED <<tx, pass, unit, newFrom, newTo>>

UpdateTo(w) ==
    /\ pc[w] = "updateTo"
    /\ UpdateAccount(tx[w].to, newTo[w], Incoming)
    /\ writes' = [writes EXCEPT ![w] = @ + 1]
    /\ NextElement(w)
    /\ UNCHANGED <<tx, unit, newFrom, newTo>>

-----------------------------------------------------------------------------
(* A statement fails: the method throws, and what an earlier statement of  *)
(* the call committed stays.                                               *)
ReadFails(w) ==
    /\ "read" \in FaultyOps
    /\ pc[w] \in {"iterate", "readFrom", "readTo"}
    /\ Goto(w, "threw")
    /\ UNCHANGED <<accounts, locals>>

UpdateFails(w) ==
    /\ "update" \in FaultyOps
    /\ pc[w] \in {"updateFrom", "updateTo"}
    /\ Goto(w, "threw")
    /\ UNCHANGED <<accounts, locals>>

(* The commit took effect but its acknowledgement was lost.  (The element's *)
(* outerLock is softly referenced: should it be cleared, unlock throws     *)
(* after the UPDATEs, as here, or after an element skipped, as ReadFails.) *)
AckLost(w) ==
    /\ "ack" \in FaultyOps
    /\ \/ /\ pc[w] = "updateFrom"
          /\ UpdateAccount(tx[w].from, newFrom[w], Outgoing)
       \/ /\ pc[w] = "updateTo"
          /\ UpdateAccount(tx[w].to, newTo[w], Incoming)
    /\ writes' = [writes EXCEPT ![w] = @ + 1]
    /\ Goto(w, "threw")
    /\ UNCHANGED <<tx, pass, unit, newFrom, newTo>>

(* The call is over; its locals are garbage.                               *)
Return(w) ==
    /\ pc[w] \in {"returned", "threw"}
    /\ Goto(w, "idle")
    /\ tx' = [tx EXCEPT ![w] = NoTransaction]
    /\ pass' = [pass EXCEPT ![w] = 0]
    /\ unit' = [unit EXCEPT ![w] = NoUnits]
    /\ newFrom' = [newFrom EXCEPT ![w] = 0]
    /\ newTo' = [newTo EXCEPT ![w] = 0]
    /\ writes' = [writes EXCEPT ![w] = 0]
    /\ UNCHANGED accounts

(* The process dies: every call vanishes, the table stays.  Nothing in the *)
(* code looks for half-done transfers when it starts again.                *)
Crash ==
    /\ MayCrash
    /\ \E w \in Workers : IsActive(w)
    /\ pc' = [w \in Workers |-> "idle"]
    /\ tx' = [w \in Workers |-> NoTransaction]
    /\ pass' = [w \in Workers |-> 0]
    /\ unit' = [w \in Workers |-> NoUnits]
    /\ newFrom' = [w \in Workers |-> 0]
    /\ newTo' = [w \in Workers |-> 0]
    /\ writes' = [w \in Workers |-> 0]
    /\ UNCHANGED accounts

(* What w's thread does of itself inside the call, and how it may fail.    *)
Advance(w) ==
    \/ Reject(w) \/ Execute(w) \/ Skip(w)
    \/ ReadFrom(w) \/ ReadTo(w)
    \/ UpdateFrom(w) \/ UpdateTo(w)

Fail(w) == ReadFails(w) \/ UpdateFails(w) \/ AckLost(w)

Next ==
    \/ \E n \in Numbers, b \in Deposits, c \in Currencies : PutAccount(n, b, c)
    \/ \E w \in Workers :
          \/ \E t \in Transactions : Call(w, t)
          \/ Advance(w)
          \/ Fail(w)
          \/ Return(w)
    \/ Crash

Spec == Init /\ [][Next]_vars

-----------------------------------------------------------------------------
TypeOK ==
    /\ accounts \in [Numbers -> Rows \union {NoAccount}]
    /\ pc \in [Workers -> Steps]
    /\ tx \in [Workers -> Transactions \union {NoTransaction}]
    /\ \A w \in Workers :
          /\ IsActive(w) <=> tx[w] # NoTransaction
          /\ IsActive(w) => unit[w] # NoUnits
    /\ pass \in [Workers -> 0..2]
    /\ unit \in [Workers -> [from : Currencies, to : Currencies] \union {NoUnits}]
    /\ newFrom \in [Workers -> Int]
    /\ newTo \in [Workers -> Int]
    /\ writes \in [Workers -> Nat]

(* No account is ever overdrawn, whatever interleaving of blind writes,    *)
(* failures and crashes the callers produce: the check against zero        *)
(* protects the value that is written, so a stale read cannot defeat it.   *)
BalancesNonNegative ==
    \A n \in Numbers : IsOpen(n) => accounts[n].balance >= 0

(* Money is never written across currencies: an UPDATE under way is for a  *)
(* transaction in the currency both rows have in the table at that moment, *)
(* although the check was made against copies read several steps earlier.  *)
SameCurrency ==
    \A w \in Workers :
        pc[w] \in {"updateFrom", "updateTo"} =>
            \A n \in Parties(tx[w]) : accounts[n].currency = tx[w].currency

(* The loop visits two elements, each of which may match a branch; between *)
(* different accounts exactly one of them does.  A call that returns has   *)
(* committed one debit and one credit, or nothing for type 0, and no call  *)
(* commits more.                                                           *)
AppliedOnce ==
    \A w \in Workers :
        IsActive(w) /\ tx[w].from # tx[w].to =>
            /\ writes[w] =< 2
            /\ tx[w].type = 0 => writes[w] = 0
            /\ pc[w] = "returned" => writes[w] \in {0, 2}
            /\ pc[w] = "returned" /\ tx[w].type # 0 => writes[w] = 2

(* An exception out of transactInAccounts means nothing was written.       *)
ThrowsLeaveNoTrace ==
    \A w \in Workers :
        pc[w] = "threw" /\ tx[w].from # tx[w].to => writes[w] = 0

(* A transfer from an account to itself is refused and writes nothing.     *)
SelfTransfersRefused ==
    \A w \in Workers :
        IsActive(w) /\ tx[w].from = tx[w].to => writes[w] = 0

-----------------------------------------------------------------------------
(* The exceptions the method raises itself, whatever fails around them,    *)
(* find nothing written.  Between different accounts the currencies are    *)
(* compared again in the second iteration, when both UPDATEs may have      *)
(* committed, against rows read since; and a balance is checked in either. *)
(* Only a failing statement may throw later; a step that may be either     *)
(* counts as a refusal.                                                    *)
RejectionsLeaveNoTrace ==
    [][\A w \in Workers :
          /\ pc[w] # "threw" /\ pc'[w] = "threw"
          /\ tx[w].from # tx[w].to
          /\ Reject(w) \/ ~Fail(w)
          => writes[w] = 0]_vars

(* What the callers are promised.  The debit of a call between its two     *)
(* UPDATEs still counts as the source's.                                   *)
InFlight(n) ==
    IF \E w \in Workers : pc[w] = "updateTo" /\ tx[w].from = n
    THEN Taken(tx[CHOOSE w \in Workers :
                    pc[w] = "updateTo" /\ tx[w].from = n].amount)
    ELSE 0

BookEntry(n) ==
    IF IsOpen(n)
    THEN [balance |-> accounts[n].balance + InFlight(n),
          currency |-> accounts[n].currency]
    ELSE NoAccount

Promise == INSTANCE Ledger WITH
    book <- [n \in Numbers |-> BookEntry(n)],
    Amounts <- {t.amount : t \in Transactions},
    Lossy <- MayCrash \/ FaultyOps # {}

(* The service implements the ledger: when no two calls in progress share  *)
(* an account and no transfer is from an account to itself, every step is  *)
(* an opening, one whole transfer, or (with faults) a transfer cut after   *)
(* its debit.                                                              *)
ImplementsLedger == Promise!Spec

(* What follows from it for the money: over the accounts that are open,    *)
(* callers change the total of a currency by no more than the rounding of  *)
(* one transfer at a time, and faults only downwards.                      *)
MoneyConserved == Promise!Conservation

(* Money is lost to a failing statement or a crash only: no step the code  *)
(* takes of itself destroys any, also while other transfers are being cut. *)
OnlyFaultsLose ==
    [][Crash \/ (\E w \in Workers : Fail(w)) \/ Promise!NothingLost]_vars

(* Why it does: a value read stays the table's value until it is written.  *)
ReadsStayCurrent ==
    Isolated =>
        \A w \in Workers :
            /\ pc[w] \in {"readTo", "updateFrom"} =>
                  newFrom[w] = accounts[tx[w].from].balance - tx[w].amount
            /\ pc[w] \in {"updateFrom", "updateTo"} /\ tx[w].from # tx[w].to =>
                  newTo[w] = accounts[tx[w].to].balance + tx[w].amount
            /\ pc[w] = "updateTo" =>
                  Stored(newFrom[w]) = accounts[tx[w].from].balance
=============================================================================
