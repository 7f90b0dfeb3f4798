-------------------------- MODULE AccountRegistry ---------------------------
(***************************************************************************)
(* The rows behind the accounts, as the default profile has them: the      *)
(* schema Hibernate creates from account.hbm.xml has no unique constraint  *)
(* on the account number, so a number may have several rows.  The services *)
(* address rows by number and collect what they read in a                  *)
(* ConcurrentSkipListSet, which BankAccount.compareTo orders, and          *)
(* identifies, by the date of the last update alone.                       *)
(*                                                                         *)
(* A client is the thread of a request.  The date an account carries is    *)
(* taken when the entity is changed, steps before it is written, and the   *)
(* clock has the precision of the column, so dates may be equal or arrive  *)
(* out of order.                                                           *)
(***************************************************************************)
EXTENDS Integers, FiniteSets

CONSTANTS
    Clients,   \* threads of requests
    Ids,       \* account_id of the rows; bounds the table
    Numbers,   \* account numbers
    Balances,  \* balances a row may have
    LastDate,  \* bound of the clock
    NoRow,     \* an id without a row
    Unknown    \* no UPDATE has set the balance of a number yet

ASSUME RegistryAssumption ==
    /\ Balances \subseteq Nat
    /\ LastDate \in Nat
    /\ NoRow \notin [number : Numbers, balance : Balances, date : Nat]
    /\ NoRow \notin [from : Numbers, to : Numbers, date : Nat]
    /\ Unknown \notin Balances

Dates == 0..LastDate

(* A BankAccount, in the table or in the hands of a client.                *)
Accounts == [number : Numbers, balance : Balances, date : Dates]

(* What closeTransaction knows: both numbers, and the date it will write.  *)
Closings == [from : Numbers, to : Numbers, date : Dates]

VARIABLES
    table,    \* table[i]: the row with id i
    clock,    \* the time of day
    doing,    \* doing[c]: what client c is at
    held,     \* held[c]: the entity or the closing c has in its hands
    written,  \* written[n]: history, the balance the last UPDATE gave n,
              \*   Unknown once a row of n is inserted after it
    settled   \* history, the numbers no row was inserted for since their
              \*   last UPDATE of any kind

registryVars == <<table, clock, doing, held, written, settled>>

Activities == {"idle", "insert", "change", "update", "close"}

RowIds == {i \in Ids : table[i] # NoRow}
RowsOf(n) == {i \in RowIds : table[i].number = n}

RegistryInit ==
    /\ table = [i \in Ids |-> NoRow]
    /\ clock = 0
    /\ doing = [c \in Clients |-> "idle"]
    /\ held = [c \in Clients |-> NoRow]
    /\ written = [n \in Numbers |-> Unknown]
    /\ settled = {}

-----------------------------------------------------------------------------
(* What the ordered set keeps of a list of rows: one row of each date, the *)
(* one the database happened to return first.                              *)
Collected(ids) ==
    { kept \in SUBSET ids :
        \A i \in ids : \E k \in kept :
            /\ table[k].date = table[i].date
            /\ \A other \in kept : table[other].date = table[i].date => other = k }

(* Mutant of First: the latest row.                                        *)
Latest(kept) == CHOOSE i \in kept : \A k \in kept : table[i].date >= table[k].date

(* The first of the set is the row with the oldest date.                   *)
First(kept) == CHOOSE i \in kept : \A k \in kept : table[i].date =< table[k].date

(* The rows getAccountByNumber may return.  (Its SELECT fetches fifty rows *)
(* at most; here a number has fewer.)                                      *)
Found(n) == {First(kept) : kept \in Collected(RowsOf(n)) \ {{}}}

(* The collections getAllAccounts may return.                              *)
Listings == Collected(RowIds)

-----------------------------------------------------------------------------
Tick ==
    /\ clock < LastDate
    /\ clock' = clock + 1
    /\ UNCHANGED <<table, doing, held, written, settled>>

(* HomeRestAccountsTestingServlet.doPost fills a new entity in.            *)
NewAccount(c, n, b) ==
    /\ doing[c] = "idle"
    /\ doing' = [doing EXCEPT ![c] = "insert"]
    /\ held' = [held EXCEPT ![c] = [number |-> n, balance |-> b, date |-> clock]]
    /\ UNCHANGED <<table, clock, written, settled>>

(* The request is done with its entity.                                    *)
Release(c) ==
    /\ doing' = [doing EXCEPT ![c] = "idle"]
    /\ held' = [held EXCEPT ![c] = NoRow]

(* putAccount: one more row, whatever rows the number has.                 *)
Insert(c) ==
    /\ doing[c] = "insert"
    /\ \E i \in Ids \ RowIds : table' = [table EXCEPT ![i] = held[c]]
    /\ written' = [written EXCEPT ![held[c].number] = Unknown]
    /\ settled' = settled \ {held[c].number}
    /\ Release(c)
    /\ UNCHANGED clock

(* The insert fails; it is rolled back.                                    *)
InsertFails(c) ==
    /\ doing[c] = "insert"
    /\ Release(c)
    /\ UNCHANGED <<table, clock, written, settled>>

(* getAccountByNumber, as transactInAccounts reads an account it is to     *)
(* change.  Without a row it throws and nothing happens.                   *)
Lookup(c, n) ==
    /\ doing[c] = "idle"
    /\ \E i \in Found(n) : held' = [held EXCEPT ![c] = table[i]]
    /\ doing' = [doing EXCEPT ![c] = "change"]
    /\ UNCHANGED <<table, clock, written, settled>>

(* setCurrentBalance: the new balance, and the date with it.               *)
Change(c, b) ==
    /\ doing[c] = "change"
    /\ held' = [held EXCEPT ![c].balance = b, ![c].date = clock]
    /\ doing' = [doing EXCEPT ![c] = "update"]
    /\ UNCHANGED <<table, clock, written, settled>>

(* Mutant of Reached: setMaxResults(1) holds for the UPDATE as well.       *)
ReachedOne(numbers) ==
    LET all == {i \in RowIds : table[i].number \in numbers}
    IN  IF all = {} THEN {} ELSE {CHOOSE i \in all : TRUE}

(* An UPDATE by number reaches every row of it: setMaxResults(1) is about  *)
(* results, of which an UPDATE has none.                                   *)
Reached(numbers) == {i \in RowIds : table[i].number \in numbers}

(* Mutant of Update: the column rounds the date up.                        *)
UpdateDatedAhead(c) ==
    LET account == [held[c] EXCEPT !.date = @ + 1]
        reached == Reached({account.number})
    IN  /\ doing[c] = "update"
        /\ table' = [i \in Ids |-> IF i \in reached THEN account ELSE table[i]]
        /\ written' = [written EXCEPT ![account.number] = account.balance]
        /\ settled' = settled \union {account.number}
        /\ Release(c)
        /\ UNCHANGED clock

(* updateAccount.                                                          *)
Update(c) ==
    LET account == held[c]
        reached == Reached({account.number})
    IN  /\ doing[c] = "update"
        /\ table' = [i \in Ids |-> IF i \in reached THEN account ELSE table[i]]
        /\ written' = [written EXCEPT ![account.number] = account.balance]
        /\ settled' = settled \union {account.number}
        /\ Release(c)
        /\ UNCHANGED clock

(* closeTransaction takes the date of a new account,                       *)
BeginClose(c, from, to) ==
    /\ doing[c] = "idle"
    /\ doing' = [doing EXCEPT ![c] = "close"]
    /\ held' = [held EXCEPT ![c] = [from |-> from, to |-> to, date |-> clock]]
    /\ UNCHANGED <<table, clock, written, settled>>

(* and gives it to the rows of both numbers.                               *)
Close(c) ==
    LET numbers == {held[c].from, held[c].to}
        reached == Reached(numbers)
    IN  /\ doing[c] = "close"
        /\ table' = [i \in Ids |->
                       IF i \in reached THEN [table[i] EXCEPT !.date = held[c].date]
                       ELSE table[i]]
        /\ settled' = settled \union numbers
        /\ Release(c)
        /\ UNCHANGED <<clock, written>>

(* An UPDATE fails and is rolled back.                                     *)
UpdateFails(c) ==
    /\ doing[c] \in {"update", "close"}
    /\ Release(c)
    /\ UNCHANGED <<table, clock, written, settled>>

RegistryNext ==
    \/ Tick
    \/ \E c \in Clients :
          \/ \E n \in Numbers, b \in Balances : NewAccount(c, n, b)
          \/ Insert(c) \/ InsertFails(c)
          \/ \E n \in Numbers : Lookup(c, n)
          \/ \E b \in Balances : Change(c, b)
          \/ \E from, to \in Numbers : BeginClose(c, from, to)
          \/ Update(c) \/ Close(c) \/ UpdateFails(c)

RegistrySpec == RegistryInit /\ [][RegistryNext]_registryVars

-----------------------------------------------------------------------------
(* No row and no entity has a date that is still to come, although dates   *)
(* are taken steps before they are written.                                *)
NoneAhead ==
    /\ \A i \in RowIds : table[i].date =< clock
    /\ \A c \in Clients : doing[c] # "idle" => held[c].date =< clock

(* Rows and entities are well formed, and dated in the past.               *)
RegistryTypeOK ==
    /\ table \in [Ids -> Accounts \union {NoRow}]
    /\ clock \in Dates
    /\ doing \in [Clients -> Activities]
    /\ \A c \in Clients :
          CASE doing[c] = "idle" -> held[c] = NoRow
            [] doing[c] = "close" -> held[c] \in Closings
            [] OTHER -> held[c] \in Accounts
    /\ written \in [Numbers -> Balances \union {Unknown}]
    /\ settled \subseteq Numbers
    /\ NoneAhead

(* A lookup returns the balance the last UPDATE gave the number, whichever *)
(* of its rows it finds and however dates tie, as long as no row has been  *)
(* inserted for the number since: an UPDATE leaves no row of it behind.    *)
LookupsReadLastWrite ==
    \A n \in Numbers :
        written[n] # Unknown =>
            \A i \in Found(n) : table[i].balance = written[n]

(* Duplicates do not show: an UPDATE gives all rows of a number one date,  *)
(* so a listing has the number once, until a row is inserted for it.       *)
ListedOnce ==
    \A kept \in Listings, n \in settled :
        Cardinality({i \in kept : table[i].number = n}) =< 1

(* A second row of a number, made later than the rows it has, does not     *)
(* answer a lookup: the account that was there first keeps the number.     *)
DuplicatesStayHidden ==
    [][\A c \in Clients, n \in Numbers :
          /\ doing[c] = "insert" /\ doing'[c] = "idle"
          /\ held[c].number = n
          /\ RowsOf(n) # {}
          /\ \A i \in RowsOf(n) : table[i].date < held[c].date
          => Found(n)' = Found(n)]_registryVars

(* A listing shows every account.                                          *)
ListingsComplete ==
    \A kept \in Listings, i \in RowIds :
        \E k \in kept : table[k].number = table[i].number
=============================================================================
