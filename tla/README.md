# Verification of homerest's accounts and transfers

homerest is a small bank behind REST: accounts are rows of one table, a
transfer is a POST that moves an amount between two of them. The modules here
model the account service and the transfer request that runs on it, statement
by statement, with concurrent callers, failing statements, lost
acknowledgements, cleared weak references and crashes; the table as the
default profile creates it, with its dates and duplicate numbers; and the
session factory that the first requests build together. TLC checks small
instances; the TLA+ proof system proves the safety properties of all of them
for every instance, the refinement of the ledger among them.

Paths below are relative to the repository; `…/` stands for
`src/main/java/rev/gretty/homerest/`.

## 1. Inventory

| Component | State | Operations | Interacts with |
|---|---|---|---|
| Account service, `…/service/impl/AccountServiceImpl.java` | table `bank_account`; locals of `transactInAccounts` | `putAccount`, `getAccountByNumber`, `updateAccount`, `transactInAccounts`, listings; `putAllAccounts` is an empty stub | called by the servlets and the first functor; a database session per statement |
| Transaction service, `…/service/impl/TransactionServiceImpl.java` | `ConcurrencyAccess`: its lock and its exception, per request | `processTransaction`, `run`, `closeTransaction`, `putTransaction`, listing | runs both functors in order |
| Functors, `FunctorBiConsumeService4Accounts`, `…4Transactions` | a weakly referenced lock and a weakly referenced exception each | `accept`, `getException`, `setException` | account service; `closeTransaction` |
| Servlets, `…/servlet/HomeRestTransactTestingServlet.java`, `HomeRestAccountsTestingServlet.java` | none (a page per request) | `doPost` | `processTransaction`; `putAccount` |
| Session factory, `…/persistence/HibernateSessionUtils.java` | static registry and factory | `getSessionFactory`, `shutdown` | every statement |
| Connection pool, `src/main/resources/hibernate.cfg.xml` | connections handed out | open, close | sessions of services and Groovy queries |
| Test-profile services, `…/service/fortest/` | none of their own | listings that process what they list | account service |
| Entities, `…/entity/` | fields; setters validate currency, IBAN, sign | setters, `isCredit`, `isDebit` | all |
| Groovy queries and schema export; start-up and injection; REST handlers and views; serializers; Kotlin mock servlet | none that a property concerns | listings, wiring, formatting | |

What is hard in this code:

* **Every statement is a transaction of its own.** `getAccountByNumber` and
  `updateAccount` each open a session, run one statement and commit. The
  `@Transactional` on `transactInAccounts` has no interceptor in the wiring, so
  a transfer is two SELECTs and two UPDATEs with absolute values, and anything
  may happen between them.
* **Locks that exclude nobody.** Each `ReentrantLock` is created for the call
  that takes it, and the monitors belong to the caller's own entities.
* **A loop over two accounts with two branches**, either of which may match
  either element; a balance check, a currency check and an "else" that are
  reached in an order that is not obvious.
* **A chain of two functors that report through weak references** and
  exceptions thrown by exception handlers.
* **A status field three writers share** (10 outgoing, 20 incoming, 60 closed).
* **Collections ordered by date.** Rows are collected in a
  `ConcurrentSkipListSet`, and `BankAccount.compareTo` compares update times
  only: accounts written in one instant are one element. With two rows of a
  number, a lookup takes the one with the oldest date and an UPDATE writes
  both.
* **A session factory built lazily without synchronisation**, over a schema
  setting (`create-drop`) that drops the tables whenever a factory is built,
  with a handler that destroys whatever registry the static field holds.
* **Amounts of any scale** against columns of two decimals, each rounded on its
  own.
* **No recovery**: a crash between the UPDATEs leaves a debit without its
  credit, and nothing looks for it.

What makes each component correct:

* account service: no overdraft; no write across currencies; a transfer is
  applied once; a refused one leaves no trace; callers who do not share
  accounts see a ledger in which money only moves;
* transfer request: every request is answered; a page that reports a failure
  is right; an account marked in process has a request that will close it;
* session factory: one factory in the end, never a stopped one, null only
  after a failure, tables in use never dropped; pool: nobody waits for ever;
  registry: a lookup answers what was last written, a listing shows every
  account once.

The hazards, each at its line, are under `hazards` in `PROJECT.json`.

## 2. Modules

```
Money                        what columns keep of amounts
  ^ extended by
Ledger                       what the account service promises (abstract)
  ^ implemented by
AccountService               the table and transactInAccounts, statement by statement
  ^ extended by
TransferRequest              servlet, processTransaction, run(), both functors, close
TransactionListing           (also extends AccountService) the test profile's listing
                             that processes what it lists, and its connections

AccountRegistry              rows with dates and duplicate numbers; lookups, listings,
                             UPDATEs by number
SessionFactoryInit           the lazily built session factory

Proofs, each module extending the one it is about:
SetInduction                 least naturals, smallest subsets
LedgerProofs                 (Ledger, SetInduction) sums; a ledger conserves money
AccountServiceProofs         (AccountService) whoever calls the service
  ^ extended by
AccountServiceRefinement     the service implements the ledger; an instance of LedgerProofs
  ^ extended by
TransferRequestProofs        (TransferRequest)
TransactionListingProofs     (TransactionListing, AccountServiceProofs)
AccountRegistryProofs        (AccountRegistry, SetInduction)
SessionFactoryInitProofs     (SessionFactoryInit)

MCAccountService, MCTransferRequest, MCTransactionListing,
MCAccountRegistry, MCSessionFactoryInit                      instances for TLC
```

### Money

Amounts and balances are integers in half minor units. An entity carries a
`BigDecimal` of any scale (the servlet uses the overload of
`setTransactionAmount` that does not round), the arithmetic of a transfer is
exact, and the columns are `decimal(19,2)`: `Stored(v)` is what a column keeps,
half a cent rounded up. Smaller fractions add no case, since what matters is on
which side of the half a balance falls.

### Ledger

One variable, `book`. `Open` adds an account, `Move` takes an amount from one
account to another of the same currency in one step, `Forfeit` (only when
`Lossy`) lets debits stand alone. It is the account service as a caller of
`IAccountService` would describe it, and it says what rounding does:
`Move` takes `Taken(a)` and brings `Stored(a)`, which differ by a cent when the
amount ends in half a cent. `Conservation` bounds the change of each
currency's total by that difference.

### AccountService

`accounts[n]` is the row of number `n` (balance, status, currency) or
`NoAccount`. A worker is a thread inside the service; `pc[w]` names the next
statement of `transactInAccounts`, the other variables are the method's locals:

| Variable | Code |
|---|---|
| `tx[w]` | the parameter `bankTransaction` |
| `pass[w]` | how many elements the `for` has finished |
| `unit[w]` | currencies of the objects `balanceFrom`, `balanceTo` |
| `newFrom[w]`, `newTo[w]` | the `newBalance` set into each |
| `writes[w]` | history: UPDATEs this call committed |

| Action | Code (`AccountServiceImpl.java`) |
|---|---|
| `PutAccount` | `putAccount`, 160-191 |
| `BeginTransact` | entry with the rows the caller looked up, 338-357 |
| `Reject`, `Execute`, `Skip` | the first part of an iteration: re-read, currency check, choice of branch, 360-407, 464, 523-542 |
| `ReadFrom`, `ReadTo` | the SELECTs inside a branch with the new balance and its check, 409-443 and 471-505 |
| `UpdateFrom`, `UpdateTo` | the two `updateAccount` calls, 445-452 and 507-514 |
| `ReadFails`, `UpdateFails`, `AckLost` | a statement throws: rolled back, or committed nonetheless |
| `Return`, `Crash` | the call ends; the process dies |

The credit and the debit branch are the same statements with the sign
mirrored, so they share actions: `Executes` says which element runs which
branch, `Debited` and `Credited` carry the signs.

Decisions that matter:

* A step is one statement, since each runs in its own database transaction.
  Reads are of committed data and UPDATEs overwrite, as on the configured
  MySQL and H2.
* The locks are left out because no other thread can reach them.
* The table has at most one row per number, as in the migrated schema
  (`src/main/resources/profiles/V2__Create_tables-test.sql:18`, `UNIQUE`). A second
  insert is refused and rolled back and is no step. AccountRegistry is about
  the schema without the constraint.
* The row re-read at the head of an iteration is used for its number alone,
  which a row never changes; only that the read may fail is kept.
* `PutAccount` and `UpdateAccount` store what the column keeps (`Money`); the
  copies a worker computes are exact. `setCurrentBalance` refuses negative
  deposits and `setTransactionAmount` negative amounts, hence `Nat`.
* The exception for a missing row cannot come up inside `transactInAccounts`
  because its caller has just read both rows and no operation deletes one.
* `ConstraintViolationException` is swallowed by `updateAccount`: the UPDATE
  sets no constrained column, so it is not an outcome.
* `outerLock` is softly referenced. Cleared under memory pressure, `unlock`
  throws in the `finally`: the outcome of `AckLost` after the second UPDATE,
  and of `ReadFails` in an element that was skipped.

### TransferRequest

Extends AccountService: worker `w` is now the thread of a request, and the
calls to the service are those the request makes.

| Variable | Code |
|---|---|
| `stage[w]` | where the request is between `doPost` and its page |
| `req[w]` | the transaction of the request |
| `exc[w]` | `ConcurrencyAccess.exception`, by whether its message is blank |
| `answer[w]` | what the page says |
| `failed[w]` | history: which part of the request failed |

| Action | Code |
|---|---|
| `PostAccount` | accounts servlet `doPost` |
| `Post`, `PostTypeless` | `processTransaction` for types ±1, and for 0 |
| `RunLock`, `AccLock`, `TxLock` | dereferencing the weakly referenced lock of `run`, of the first and of the second functor |
| `LookupFrom`, `LookupTo`, `LookupFails` | the lookups of the first functor |
| `Transact`, `TransactFault`, `TransactReturns`, `TransactThrows` | `transactInAccounts` inside the request |
| `Capture` | the functor's handler and the copy of its exception by `run` |
| `Close`, `CloseFault` | `closeTransaction` and the copy of the second exception |
| `Respond` | the page |
| `ServerCrash` | the process dies |

Where the code writes `lock.get()` the collector may have cleared the
reference (`GcClears`): each such step has a second outcome, the
NullPointerException with whatever its handler does, including the handler
that dereferences the same lock and throws again. On the Java the build names
(1.8) the message of that exception is null, so the page treats it as blank.
An exception of a failing statement may have no message either: without a
session factory `openSession` throws one, and `session.close()` in the
`finally` of `closeTransaction` another (`TransactionServiceImpl.java:278-280`).
`Copied` is what `run` may have of an exception, these outcomes included;
where statements may fail it allows them after a refusal too, which is one
more "All OK" and no more than that.
A second and later request of the same worker starts with a new
`ConcurrencyAccess`.

`Admitted` is a hypothesis on the clients, not code: with `Isolated` a request
is posted only while none in progress names one of its accounts.

### TransactionListing

The test profile binds `TransactionServiceImpl4Test`, whose
`getAllTransactions` processes each row of its query in the lambda of a
`forEach`. A worker is the thread of one listing.

| Variable | Code |
|---|---|
| `stored` | table `bank_transaction`, amounts as the column rounds them |
| `inUse` | pooled connections held by listings |
| `phase[w]` | where the listing is |
| `rows[w]` | how often each transaction is still to come in the list; the join has one row per existing account, in no order |
| `row[w]` | the element the lambda has |

`BeginListing` opens the session and runs the query (with its page limit),
`NextRow` takes an element, `LookupFrom` to `RowDone` process it through the
functor and `transactInAccounts`, `AbandonRow` is every exception before the
transfer, `EndListing` commits and closes. The transaction of the listing is
open throughout, so its connection stays taken (c3p0 does not release
within a transaction, whatever `release_mode` says), and each statement
inside waits for a free one. Transfers of a listing are `AccountService`'s own steps.

The model lets several listings run at once, as nothing in the service keeps
them apart. It is more than the repository does: the only caller of this
listing is a sequential JUnit test (`BankTransactionReadTests.java:61`), so
there is one listing at a time, and listings that wait for each other's
connections cannot come about. For the safety properties the model only allows
more than the code does.

### AccountRegistry

The default profile has Hibernate create its schema from `account.hbm.xml`,
where the account number carries no unique constraint (the annotation
`unique = true` in `BankAccount.java:64` is not read: the configuration maps
the hbm files). Rows are by id, several may have a number.

| Variable | Code |
|---|---|
| `table[i]` | row of `bank_account`: number, balance, `date_updated` |
| `clock` | `new Date()` in `setUpdateAt`, at the column's precision |
| `doing[c]`, `held[c]` | what a request's thread is at, and the entity (or the closing) it has in its hands |
| `written[n]`, `settled` | history: the balance of the last UPDATE of `n`; the numbers without an insert since |

`NewAccount` and `Insert` are the accounts servlet and `putAccount`; `Lookup`
is `getAccountByNumber`, `Change` is `setCurrentBalance`, which takes the date,
`Update` is `updateAccount`; `BeginClose` and `Close` are `closeTransaction`.
`InsertFails` and `UpdateFails` are the statements rolled back. `Collected` is
the ordered set: of rows with one date it keeps the one that came first, which
the database chooses, so it is a set of possible sets; `Found` and `Listings`
are what a lookup and `getAllAccounts` may return. The limit of fifty rows on
the lookup's SELECT (`AccountServiceImpl.java:117`) is left out: it makes a
difference only to a number with more rows than that. An UPDATE reaches all rows
of a number (`Reached`): `setMaxResults(1)` limits results, and there are none.
The currency and the status play no part. Between a lookup and its UPDATE any
other client may write; the balance a client writes is any balance, as
AccountService says which.

### SessionFactoryInit

| Variable | Code |
|---|---|
| `registry`, `sessionFactory` | the static fields |
| `destroyed` | registries that `StandardServiceRegistryBuilder.destroy` stopped |
| `at[t]`, `own[t]`, `result[t]` | where a thread is in `getSessionFactory`; the factory it is building; what it returned |
| `rows` | whether the tables hold something committed |
| `failed[t]`, `overlapped`, `dropped` | history |

An action per access to a static field: `Check` (31), `BuildRegistry` (34),
`ReadSources` (37, where the field is read back), `BuildFactory` (43, which
drops and creates the tables), `Store` (43), `BuildFails` and `Catch` (45-50),
`Return` (52, reads the field again), and `Use`, the caller's statement. The
fields are not volatile; the model takes them as sequentially consistent, which
leaves out that a thread may go on seeing null after another has stored (it
would then build again: one more overlap of the kind modelled).
Building on a registry that has been stopped is taken to fail. Ids of objects
nobody refers to are used again, so the model is finite without a bound on the
number of builds.

## 3. Runs

| Run | Question | Size |
|---|---|---|
| `shared` | what holds of the service with no isolation at all? | 2 accounts, 2 callers, 2 currencies, all faults and crashes, all kinds of transfer |
| `disjoint` | does the chain from the POST to the close implement the ledger when requests in progress name different accounts? | 4 accounts, 2 requests, failing and unacknowledged UPDATEs, crashes |
| `marks` | does an in-process mark always have an owner, and does it always end? | 3 accounts, 2 requests sharing one account, failing statements |
| `answers` | are reported failures true, and is every request answered? | 2 requests, failing statements and closes, cleared references |
| `listing` | do listings that process what they list end, and leave transfers to oneself alone? | 2 listings, 3 connections, pages of 3 rows, every fault |
| `registry` | what do lookups and listings return with ties, late dates and duplicate numbers? | 3 rows, 2 numbers, 2 clients, 3 dates |
| `factory` | what do first requests that build the session factory together end up with? | 3 threads, 6 ids, any failures |
| `atomic`, `concurrent`, `self`, `reported`, `hidden` | violations, see section 6 | |

What the passing runs show. `disjoint` shows the refinement: each request is
one `Move` (at its second UPDATE, the amount counting as the source's until
then), or nothing, or with a fault a `Forfeit`, so money can be lost by a cut
transfer and never created. `OnlyFaultsLose` sharpens it: the step that loses
is a failing statement or a crash, never a step of the code itself, also while
another request is being cut. `MoneyConserved` is what the ledger means for
each currency's total. `ReadsStayCurrent` is the reason: between the read and
the write nobody else touches the rows.

`shared` shows what survives lost updates: the
value written is the value checked, so no row goes below zero; currencies
are immutable, so a check against old copies stays true; and the loop applies
a transfer between two accounts exactly once. Accounts and transactions come in two
currencies there, so transfers are refused for the currency, in front of
other calls' writes and among failing statements;
`RejectionsLeaveNoTrace` says that a refusal of the method's own, in whichever
iteration, finds nothing written. A failing SELECT at the head of an iteration
is the same step as a refusal there and is held to the same. `marks` shows
that the three writers of the status leave no stale mark as long as the close
itself neither fails nor is skipped; with those faults allowed the marks do
stay, which is why the hypotheses stand in `InProcessHasOwner`.

`listing` depends on the join's condition that leaves out transfers from an
account to itself: stored ones would otherwise gain money at each listing
(section 6, `self`).

`registry` shows how duplicates behave: after an UPDATE of a number all its
rows say the same, so it does not matter which one a lookup finds or which of
two equal dates the set keeps (`LookupsReadLastWrite`), and a listing has the
number once (`ListedOnce`); a second row made later does not answer for
the number (`DuplicatesStayHidden`). It all rests on the UPDATE reaching every
row.

`RegistryTypeOK` includes that no row and no entity is dated ahead of the clock,
whatever time lies between taking a date and writing it.

`factory` shows the extent of the race: a null result always has a failure
of one's own behind it, and the field settles on one factory. `FactoryTypeOK`
includes that a factory is never built on null, although its registry is read
back from a field everybody writes. Dropped tables
and a stopped factory do happen, but only where two builds overlap.

Bounds. `MaxBalance` bounds the balances from which a call starts; the
transfers of a run can reach every mix of refusal and success below it.
Amounts and deposits are half units: 1, a fraction a column cannot keep, and 2,
a whole cent. Two
callers and two accounts are the smallest instance in which a lost update
happens, and the properties speak of one account and at most two callers. Four
accounts allow two disjoint transfers at once, three a chain of requests that
share the middle account. The state is reset when a call ends, so longer
histories add only other balances. Two rows of one number and a third of
another, with a date before, at and after, give every tie and every order of
two dates a property compares. Three threads let one build fail, one succeed
and one come late. Workers are permuted (`SYMMETRY`) where no
liveness is checked, in `registry` and `hidden` also ids and numbers.
`Isolated` limits the environment to requests that name
disjoint accounts; it is TRUE in `disjoint` and `atomic` and FALSE elsewhere,
where the code itself decides.

Deadlock is checked where the instance cannot stop. It is off in `shared`,
`self` and
the runs of requests and listings: there the environment may run into the
bound (balances above `MaxBalance`, no new call) or have nothing left to move,
and the system may really stop, waiting for a request.

Fairness. `FairRequestSpec` asks weak fairness of each request's thread, step
by step. The container gives each request a thread; a step waits for no other
request, since the locks are private, and a statement holds one connection at
a time out of a pool of a hundred, which every statement gives back. Nothing is assumed
of the clients, of the faults or of the collector. Crashes are excluded from
the liveness runs, since a crash ends the requests in progress.
`ListingSpec` asks the same of each listing's thread. A step that needs a
connection is enabled only while one is free; with a connection more than
listings one always is, so weak fairness is enough. With as many listings as
connections the model's would wait for ever, as no check-out time-out is
configured; in the repository, which lists one at a time from a pool of a
hundred, that cannot happen, and the run has a connection to spare. `FactorySpec` asks weak fairness of each thread
inside `getSessionFactory`, where nothing waits for anything; whether a build
fails and whether calls come at all is left open.

## 4. Proofs

Everything below holds for any sets of workers, accounts, currencies, deposits
and transactions, finite or not, any kind of fault and any number of crashes;
the constants satisfy the assumptions named with them (`ConstantsAssumption`,
`FaultsAssumption`, `MarksAssumption` in AccountService, and those of the other
modules), which say that amounts are natural numbers and that marks such as
`NoAccount` are no data. Bounds of the runs such as `MaxBalance` play no part.

### The service among arbitrary callers (AccountServiceProofs)

`Next` of AccountService, the requests of TransferRequest and the listings of
TransactionListing call the service under different conditions. The proofs are
about `ServiceNext`, which has its steps and no condition on who calls when,
and which also lets a closing UPDATE set any marks. `SpecIsService`,
`RequestsCallService` and the first step of `ListingsKeepAccounts` show that
each of the three specifications implies `ServiceSpec`, so that what is proved
of the service once holds in all of them.

| Theorem | Property | Argument |
|---|---|---|
| `TypeCorrect` | `TypeOK` | `TypeInv` is `TypeOK` with `LoopBounded` (inside the loop at most one element is finished, which bounds `pass`) and `PartiesOpen` (both rows of a call exist, as rows never disappear, so the rows read are rows) |
| `NoOverdraft` | `BalancesNonNegative` | `NonNegativeInv`, together with `WritesNonNegative` of the values computed: a balance stays non-negative because the value about to be written has passed the check, and other callers' writes cannot change that value |
| `OneCurrency` | `SameCurrency` | `CurrencyInv` adds that `unit` tells the table's currencies truly, since no operation changes the currency of a row, and that a call past the check has them equal to the transaction's |
| `TransfersAppliedOnce` | `AppliedOnce` | `AppliedInv` ties `writes` to `pc` and `pass`: between different accounts a branch matches at exactly one of the two elements |
| `RefusalsLeaveNoTrace` | `RejectionsLeaveNoTrace` | by the same invariant: a refusal in the first iteration finds nothing written, one in the second would need currencies that do not match, which the first has checked. Stated of the step, so faults elsewhere do not weaken it |

None of them is inductive alone; `ServiceInv` is their conjunction. Every proof
has one step per action. Rounding enters by one lemma, `StoredTyped`: what a
column keeps of a number is a number, and not negative if the number was not.

### The refinement (LedgerProofs, AccountServiceRefinement)

| Theorem | Property | Argument |
|---|---|---|
| `ReadsCurrent` | `ReadsStayCurrent` | `CurrentInv`: balances are whole (`BalancesEven`), and for each call (`OneCurrent`) the values computed are the table's plus or minus the amount; `Disjoint`, that no two calls in progress share an account, keeps others' writes away |
| `LedgerImplemented` | `ImplementsLedger` | one lemma per kind of step: `DebitStep` (stutters: what is taken from the row is in flight), `CreditStep` (the `Move`), `FailedCredit`, `UnheardDebit` and `CrashStep` (a `Forfeit`), `OpenStep`, `MarkStep` and `QuietStep` |
| `LedgerConserves` | `Conservation` of Ledger | below |
| `MoneyKept`, `LossesAreFaults` | `MoneyConserved`, `OnlyFaultsLose` | `ServiceMoves`: a step is an opening, a move or no change of the book, unless it is a fault that cuts transfers; and LedgerProofs about the ledger the service implements |

Two hypotheses stand in the refinement theorems. `Isolated`: callers in
progress name different accounts; without it the run `concurrent` is the
counterexample. `NoSelfTransfers`, that a transaction's two accounts differ:
without it the run `self` is one. `ReadsCurrent` has neither, since
`ReadsStayCurrent` states `Isolated` and excepts self-transfers itself. The
hypotheses are those of the run `disjoint`, so states satisfy them.

`BalancesEven` is needed because of rounding: that an amount taken from a
column and rounded is `Taken(a)` less (`Rounding`) is true of whole balances
only. The refinement mapping (`Book`) adds what is in flight to the source's
row; `InFlight` chooses a worker, and `InFlightOf` shows that among disjoint
calls there is one to choose at most.

Money is the sum of balances over a set of accounts, a fold of the library and
so a recursive function over the subsets. Its induction is done in first-order
terms: `SmallestSubset` (from the library's well-founded orders) gives every
non-empty set of counterexamples a smallest member. `IterationExists` and
`IteratesAgree` show that the recursion has one solution, `IterationAddsUp` that
it does not matter which element it takes first, `TotalGrows` and `TotalMoves`
how a sum follows its terms. The ledger may have infinitely many account
numbers: `BookInv` says that finitely many are open.

### The transfer request (TransferRequestProofs)

| Theorem | Property | Argument |
|---|---|---|
| `RequestTypeCorrect` | `RequestTypeOK` | `RequestInv` with the service's `TypeInv`: a call is in progress exactly in the stage `transact`, with the request's transaction |
| `RequestsKeepAccounts`, `RequestRefusals` | `BalancesNonNegative`, `SameCurrency`, `AppliedOnce`; `RejectionsLeaveNoTrace` | from the service's theorems |
| `FailuresAreHonest` | `HonestFailure` | `HonestRequest`: a request that keeps an exception with a message, or was answered "failed", has a failure on record |
| `MarksHaveOwners` | `InProcessHasOwner` | inductive as it stands with `RequestInv`: `OwnerStays` and `TransactRows` (a transfer writes its own request's accounts only). Its hypotheses are in the property: closes do not fail, references stay, no crash |
| `RequestReadsCurrent`, `RequestsImplementLedger`, `RequestsConserveMoney` | `ReadsStayCurrent`, `ImplementsLedger`, `MoneyConserved`, `OnlyFaultsLose` | `RequestsDisjoint`: requests that name different accounts make calls on different accounts; the rest is the service's |

### The listing, the registry, the session factory

| Theorem | Property | Argument |
|---|---|---|
| `ListingTypeCorrect` | `ListingTypeOK` | `ListingInv`: `PoolInv` counts the listings in progress, a finite set, against the connections; `ListingFits` ties rows, row and call to the phase |
| `SelfTransfersStayOut` | `SelfTransfersFiltered` | `ListingFits`: whatever is still to come in a page is stored and between two accounts |
| `ListingsKeepAccounts` | the service's three invariants | by `ListingIsService` |
| `RegistryTypeCorrect` | `RegistryTypeOK` | `RegistryInv`: table, clock and each client apart; `NoneAheadStep`: a date comes from the clock or from a row or entity not ahead of it |
| `LookupsCurrent` | `LookupsReadLastWrite` | `BalanceShared`: after an UPDATE all rows of the number have the balance written; then it does not matter which row is found |
| `NumbersListedOnce` | `ListedOnce` | `DateShared`: and one date, of which an ordered set keeps one |
| `DuplicatesHidden` | `DuplicatesStayHidden` | `First` of a collection is its row of least date (`OldestFirst`), and a younger row changes no least date, in either direction of the equality of the two sets `Found` |
| `FactoryTypeCorrect` | `FactoryTypeOK` | `SpareId` counts: each thread refers to one registry at most, so a new one always has an id; and `SourcesHave`, the field is never null when it is read back. For any finite set of threads and more ids than they and the two fields refer to (`FactoryAssumption`) |
| `NullOnlyAfterFailure` | `NullMeansFailure` | `AnswerInv` follows a call from its handler to its result; the field never goes back to null |
| `TablesSafe`, `FactorySafe` | `TablesSurvive`, `FactoryRuns` | `AloneInv`: until builds have overlapped at most one thread builds, it has found the field null and the field still is, its registry runs, and nothing can have been committed (`StoredFirst`) |

### Only model-checked

The liveness properties `MarksCleared`, `RequestsAnswered`, `ListingsEnd` and
`FactorySettles`: they need fairness and so ENABLED, which is beyond the
prover. Every invariant and every action property of a passing run is proved.

## 5. Not modelled

Listed with reasons under `components` in `PROJECT.json`.

* The vendored browser libraries, `src/main/webapp/jquery-1.8.3.js` and
  `assets/js/bootstrap.js`: by far the longest files of the repository, and
  none of its own logic. The pages use them for layout.
* Groovy queries, injection and start-up, REST handlers, serializers, Kotlin
  mock servlet and pages: I/O, wiring or formatting. The one query that leaves
  its session open (`selectAll`,
  `src/main/groovy/rev/gretty/homerest/persistence/CallingHibernateStandalone.groovy:52`) is reached from the user and
  authority handlers only, which are bound to no path.
* `HibernateSessionUtils.shutdown` and `getAccountByUUID`: no caller in the
  repository.
* Users, authorities and `BankTransfer`: entities no service uses.
* Outside the test profile `putTransaction` stores a row that no transfer
  reads, and `getAllTransactions` only reads.

## 6. Where the code disagrees with what it says

| Run | Statement | What the run shows |
|---|---|---|
| `concurrent` | "we have accounts locked" (functor), "Concurrent" (README) | two requests are inside `transactInAccounts` with the same accounts; opposite transfers overwrite each other's balances and money appears |
| `atomic` | `@Transactional` on `transactInAccounts` | a failing second UPDATE leaves the debit |
| `self` | a branch refuses transfers to oneself | it is the last `else`: credits and debits to oneself run for both elements, and the account gains the amount each time |
| `reported` | "Pass the exception from previous functor" | the second functor's blank exception replaces it: "All OK" for a failed transfer |
| `hidden` | "read all after inserts" (the test of `getAllAccounts`) | two accounts with one update time, as every close produces them, are one element of the set: one is missing from the listing |

Others are visible in the actions and have no run: `Close` gives the
status "For finished trnx" also after a refused transfer; `PostTypeless` is the
NullPointerException behind "Yes, the nulls are handled."; `DropTables` happens
at every build of a factory, not only "at the startup time"
(`…/guicebound/GuiceBoundConfigModule.java`); `Insert` accepts a second row of a number that
the entity declares `unique = true`; `Reached` ignores the `setMaxResults(1)`
set on the UPDATEs; and a transfer of half a cent leaves the source as it is
and gives the destination a cent.

## 7. Plan

Built, in this order: Ledger, AccountService and its refinement,
TransferRequest, TransactionListing, Money, AccountRegistry and
SessionFactoryInit; then the proofs, of the service, the session factory, the
refinement, the requests, the listing, the registry and the sums. Of the
program's own code nothing that changes state is left unmodelled but what
section 5 lists.

Next: what the proofs say of the instances the runs refute, as theorems of
their own, above all how much two callers that do share accounts can gain or
lose; bounds on the steps a request and a listing take, the safety half of
`RequestsAnswered` and `ListingsEnd`; and an abstract registry, one balance and
one date per number, that AccountRegistry implements after an UPDATE.
