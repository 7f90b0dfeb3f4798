---------------------------- MODULE LedgerProofs ----------------------------
(***************************************************************************)
(* A ledger keeps its money: for every set of accounts, also an infinite   *)
(* one, the total of a currency changes by no more than the rounding of    *)
(* one transfer at a time, and only a transfer cut half way lowers it.     *)
(*                                                                         *)
(* The total is a sum over a set, which the library defines by recursion   *)
(* on the subsets.  The lemmas of the first part unfold that recursion     *)
(* once and for all: the element taken out first does not matter.          *)
(***************************************************************************)
EXTENDS Ledger, SetInduction

Pick(s) == CHOOSE x \in s : TRUE

(* it adds f up over the subsets of S, one chosen element at a time. *)
Iterates(it, f, S) ==
    it = [s \in SUBSET S |->
            IF s = {} THEN 0 ELSE f[Pick(s)] + it[s \ {Pick(s)}]]

(* it is the sum of f, whichever element is added last. *)
AddsUp(it, f, S) ==
    /\ it \in [SUBSET S -> Int]
    /\ it[{}] = 0
    /\ \A s \in SUBSET S : \A x \in s : it[s] = f[x] + it[s \ {x}]

Total(f, S) == SumFunctionOnSet(f, S)

(* A chosen element is an element.                                         *)
LEMMA PickIn == \A s : s # {} => Pick(s) \in s
  BY DEF Pick

(* Two iterations agree where what they add up agrees.                     *)
LEMMA IteratesAgree ==
    ASSUME NEW S, NEW T, NEW f, NEW g, NEW it, NEW jt, IsFiniteSet(S),
           S \subseteq T, Iterates(it, f, S), Iterates(jt, g, T),
           \A x \in S : f[x] = g[x]
    PROVE  \A s \in SUBSET S : it[s] = jt[s]
<1> DEFINE C == {s \in SUBSET S : it[s] # jt[s]}
<1> SUFFICES ASSUME C # {}
             PROVE  FALSE
  OBVIOUS
<1>0. C \in SUBSET (SUBSET S) /\ C # {}
  OBVIOUS
<1> HIDE DEF C
<1>1. PICK s \in C : \A r \in C : r \subseteq s => r = s
  BY <1>0, SmallestSubset
<1> USE DEF C
<1>2. s \in SUBSET S /\ s \in SUBSET T /\ it[s] # jt[s]
  BY <1>1
<1>3. CASE s = {}
  <2>1. it[s] = 0 /\ jt[s] = 0
    BY <1>2, <1>3 DEF Iterates
  <2> QED BY <1>2, <2>1
<1>4. CASE s # {}
  <2>1. Pick(s) \in s
    BY <1>4, PickIn
  <2>2. s \ {Pick(s)} \in SUBSET S /\ s \ {Pick(s)} # s /\ s \ {Pick(s)} \subseteq s
    BY <1>2, <2>1
  <2>3. it[s \ {Pick(s)}] = jt[s \ {Pick(s)}]
    BY <1>1, <2>2
  <2>4. it[s] = f[Pick(s)] + it[s \ {Pick(s)}]
    BY <1>2, <1>4 DEF Iterates
  <2>5. jt[s] = g[Pick(s)] + jt[s \ {Pick(s)}]
    BY <1>2, <1>4 DEF Iterates
  <2>6. f[Pick(s)] = g[Pick(s)]
    BY <1>2, <2>1
  <2> QED BY <1>2, <2>3, <2>4, <2>5, <2>6
<1> QED BY <1>3, <1>4

(* Every finite set has an iteration.                                      *)
LEMMA IterationExists ==
    ASSUME NEW S, IsFiniteSet(S), NEW f
    PROVE  \E it : Iterates(it, f, S)
<1> DEFINE C == {T \in SUBSET S : ~\E it : Iterates(it, f, T)}
<1> SUFFICES ASSUME C # {}
             PROVE  FALSE
  OBVIOUS
<1>0. C \in SUBSET (SUBSET S) /\ C # {}
  OBVIOUS
<1> HIDE DEF C
<1>1. PICK T \in C : \A r \in C : r \subseteq T => r = T
  BY <1>0, SmallestSubset
<1> USE DEF C
<1> DEFINE For(r) == CHOOSE it : Iterates(it, f, r)
           g == [s \in SUBSET T |->
                   IF s = {} THEN 0
                   ELSE f[Pick(s)] + For(s \ {Pick(s)})[s \ {Pick(s)}]]
<1>2. T \in SUBSET S /\ ~\E it : Iterates(it, f, T)
  BY <1>1
<1>3. ASSUME NEW r \in SUBSET T, r # T
      PROVE  Iterates(For(r), f, r)
  <2>1. \E it : Iterates(it, f, r)
    BY <1>1, <1>2, <1>3
  <2> QED BY <2>1
<1> HIDE DEF For
<1>4. ASSUME NEW r \in SUBSET T, r # T
      PROVE  g[r] = For(r)[r]
  <2>1. Iterates(For(r), f, r)
    BY <1>3, <1>4
  <2>2. CASE r = {}
    <3>1. g[r] = 0
      BY <2>2
    <3>2. For(r)[r] = 0
      BY <2>1, <2>2 DEF Iterates
    <3> QED BY <3>1, <3>2
  <2>3. CASE r # {}
    <3> DEFINE q == r \ {Pick(r)}
    <3>1. Pick(r) \in r
      BY <2>3, PickIn
    <3>2. q \in SUBSET T /\ q # T /\ q \subseteq r
      BY <3>1
    <3>3. Iterates(For(q), f, q)
      BY <1>3, <3>2
    <3>4. IsFiniteSet(q)
      BY <1>2, <3>2, FS_Subset
    <3>5. For(q)[q] = For(r)[q]
      BY <2>1, <3>2, <3>3, <3>4, IteratesAgree
    <3>6. For(r)[r] = f[Pick(r)] + For(r)[q]
      BY <2>1, <2>3 DEF Iterates
    <3>7. g[r] = f[Pick(r)] + For(q)[q]
      BY <2>3
    <3> QED BY <3>5, <3>6, <3>7
  <2> QED BY <2>2, <2>3
<1>5. ASSUME NEW s \in SUBSET T, s # {}
      PROVE  g[s] = f[Pick(s)] + g[s \ {Pick(s)}]
  <2>1. Pick(s) \in s
    BY <1>5, PickIn
  <2>2. s \ {Pick(s)} \in SUBSET T /\ s \ {Pick(s)} # T
    BY <2>1
  <2>3. g[s \ {Pick(s)}] = For(s \ {Pick(s)})[s \ {Pick(s)}]
    BY <1>4, <2>2
  <2>4. g[s] = f[Pick(s)] + For(s \ {Pick(s)})[s \ {Pick(s)}]
    BY <1>5
  <2> QED BY <2>3, <2>4
<1>6. g[{}] = 0
  OBVIOUS
<1>7. g = [s \in SUBSET T |-> g[s]]
  OBVIOUS
<1> HIDE DEF g
<1>8. g = [s \in SUBSET T |-> IF s = {} THEN 0 ELSE f[Pick(s)] + g[s \ {Pick(s)}]]
  BY <1>5, <1>6, <1>7
<1> QED BY <1>2, <1>8 DEF Iterates

(* An iteration over integers adds up, whichever element comes last.       *)
LEMMA IterationAddsUp ==
    ASSUME NEW S, IsFiniteSet(S), NEW f \in [S -> Int], NEW it, Iterates(it, f, S)
    PROVE  AddsUp(it, f, S)
<1>1. it[{}] = 0
  BY DEF Iterates
<1>2. \A s \in SUBSET S : s # {} =>
         /\ Pick(s) \in s /\ f[Pick(s)] \in Int
         /\ it[s] = f[Pick(s)] + it[s \ {Pick(s)}]
  BY PickIn DEF Iterates
<1>3. \A s \in SUBSET S : it[s] \in Int
  <2> DEFINE C == {s \in SUBSET S : it[s] \notin Int}
  <2> SUFFICES ASSUME C # {}
               PROVE  FALSE
    OBVIOUS
  <2>0. C \in SUBSET (SUBSET S) /\ C # {}
    OBVIOUS
<2> HIDE DEF C
<2>1. PICK s \in C : \A r \in C : r \subseteq s => r = s
    BY <2>0, SmallestSubset
<2> USE DEF C
  <2>2. s \in SUBSET S /\ it[s] \notin Int /\ s # {}
    <3>1. s \in SUBSET S /\ it[s] \notin Int
      BY <2>1
    <3>2. it[{}] \in Int
      BY <1>1
    <3> QED BY <3>1, <3>2
  <2>3. /\ Pick(s) \in s /\ f[Pick(s)] \in Int
        /\ it[s] = f[Pick(s)] + it[s \ {Pick(s)}]
    BY <1>2, <2>2
  <2>4. s \ {Pick(s)} \in SUBSET S /\ s \ {Pick(s)} \subseteq s /\ s \ {Pick(s)} # s
    BY <2>2, <2>3
  <2>5. it[s \ {Pick(s)}] \in Int
    BY <2>1, <2>4
  <2> QED BY <2>2, <2>3, <2>5
<1>4. \A s \in SUBSET S : \A x \in s : it[s] = f[x] + it[s \ {x}]
  <2> DEFINE C == {s \in SUBSET S : \E x \in s : it[s] # f[x] + it[s \ {x}]}
  <2> SUFFICES ASSUME C # {}
               PROVE  FALSE
    OBVIOUS
  <2>0. C \in SUBSET (SUBSET S) /\ C # {}
    OBVIOUS
<2> HIDE DEF C
<2>1. PICK s \in C : \A r \in C : r \subseteq s => r = s
    BY <2>0, SmallestSubset
<2> USE DEF C
  <2>2. PICK x \in s : it[s] # f[x] + it[s \ {x}]
    BY <2>1
  <2>3. PICK y \in s : it[s] = f[y] + it[s \ {y}]
    BY <1>2, <2>1, <2>2
  <2>4. s \in SUBSET S /\ x # y /\ f[x] \in Int /\ f[y] \in Int
    BY <2>1, <2>2, <2>3
  <2>5. it[s \ {y}] = f[x] + it[(s \ {y}) \ {x}]
    <3>1. s \ {y} \in SUBSET S /\ s \ {y} \subseteq s /\ s \ {y} # s /\ x \in s \ {y}
      BY <2>2, <2>3, <2>4
    <3> QED BY <2>1, <3>1
  <2>6. it[s \ {x}] = f[y] + it[(s \ {x}) \ {y}]
    <3>1. s \ {x} \in SUBSET S /\ s \ {x} \subseteq s /\ s \ {x} # s /\ y \in s \ {x}
      BY <2>2, <2>3, <2>4
    <3> QED BY <2>1, <3>1
  <2>7. (s \ {x}) \ {y} = (s \ {y}) \ {x} /\ (s \ {x}) \ {y} \in SUBSET S
    BY <2>4
  <2>8. PICK i \in Int : i = it[(s \ {x}) \ {y}]
    BY <1>3, <2>7
  <2>9. it[s] = f[y] + (f[x] + i) /\ f[x] + it[s \ {x}] = f[x] + (f[y] + i)
    BY <2>3, <2>5, <2>6, <2>7, <2>8
  <2> QED BY <2>2, <2>4, <2>9
<1>5. it \in [SUBSET S -> Int]
  BY <1>3 DEF Iterates
<1> QED BY <1>1, <1>4, <1>5 DEF AddsUp

(* The library's sum adds up.                                              *)
LEMMA TotalAddsUp ==
    ASSUME NEW S, IsFiniteSet(S), NEW f \in [S -> Int]
    PROVE  \E it : AddsUp(it, f, S) /\ Total(f, S) = it[S]
<1> DEFINE it == CHOOSE it : it = [s \in SUBSET S |->
                   IF s = {} THEN 0
                   ELSE f[CHOOSE x \in s : TRUE] + it[s \ {CHOOSE x \in s : TRUE}]]
<1>1. Total(f, S) = it[S]
  BY DEF Total, SumFunctionOnSet, FoldFunctionOnSet, MapThenFoldSet
<1>2. \E jt : jt = [s \in SUBSET S |->
                   IF s = {} THEN 0
                   ELSE f[CHOOSE x \in s : TRUE] + jt[s \ {CHOOSE x \in s : TRUE}]]
  <2>1. PICK jt : Iterates(jt, f, S)
    BY IterationExists
  <2> QED BY <2>1 DEF Iterates, Pick
<1>3. it = [s \in SUBSET S |->
                   IF s = {} THEN 0
                   ELSE f[CHOOSE x \in s : TRUE] + it[s \ {CHOOSE x \in s : TRUE}]]
  BY <1>2
<1> HIDE DEF it
<1>4. Iterates(it, f, S)
  BY <1>3 DEF Iterates, Pick
<1> QED BY <1>1, <1>4, IterationAddsUp

-----------------------------------------------------------------------------
(* A sum has no value but an integer, and that of nothing is 0.            *)
LEMMA TotalType ==
    ASSUME NEW S, IsFiniteSet(S), NEW f \in [S -> Int]
    PROVE  Total(f, S) \in Int
<1>1. PICK it : AddsUp(it, f, S) /\ Total(f, S) = it[S]
  BY TotalAddsUp
<1>2. S \in SUBSET S
  OBVIOUS
<1> QED BY <1>1, <1>2 DEF AddsUp

(* Sums change with their terms: none is smaller when no term is.          *)
LEMMA TotalGrows ==
    ASSUME NEW S, IsFiniteSet(S), NEW f \in [S -> Int], NEW g \in [S -> Int],
           \A x \in S : f[x] =< g[x]
    PROVE  Total(f, S) =< Total(g, S)
<1>1. PICK it : AddsUp(it, f, S) /\ Total(f, S) = it[S]
  BY TotalAddsUp
<1>2. PICK jt : AddsUp(jt, g, S) /\ Total(g, S) = jt[S]
  BY TotalAddsUp
<1> DEFINE C == {s \in SUBSET S : ~(it[s] =< jt[s])}
<1>3. C = {}
  <2> SUFFICES ASSUME C # {}
               PROVE  FALSE
    OBVIOUS
  <2>0. C \in SUBSET (SUBSET S) /\ C # {}
    OBVIOUS
  <2> HIDE DEF C
  <2>1. PICK s \in C : \A r \in C : r \subseteq s => r = s
    BY <2>0, SmallestSubset
  <2> USE DEF C
  <2>2. s \in SUBSET S /\ ~(it[s] =< jt[s])
    BY <2>1
  <2>3. PICK x : x \in s
    <3>1. it[{}] = 0 /\ jt[{}] = 0
      BY <1>1, <1>2 DEF AddsUp
    <3>2. s # {}
      BY <2>2, <3>1
    <3> QED BY <3>2
  <2>4. s \ {x} \in SUBSET S /\ s \ {x} \subseteq s /\ s \ {x} # s
    BY <2>2, <2>3
  <2>5. it[s \ {x}] =< jt[s \ {x}]
    BY <2>1, <2>4
  <2>6. it[s] = f[x] + it[s \ {x}] /\ jt[s] = g[x] + jt[s \ {x}]
    BY <1>1, <1>2, <2>2, <2>3 DEF AddsUp
  <2>7. /\ f[x] \in Int /\ g[x] \in Int /\ f[x] =< g[x]
        /\ it[s \ {x}] \in Int /\ jt[s \ {x}] \in Int
    BY <1>1, <1>2, <2>2, <2>3, <2>4 DEF AddsUp
  <2> QED BY <2>2, <2>5, <2>6, <2>7
<1>4. S \in SUBSET S
  OBVIOUS
<1> QED BY <1>1, <1>2, <1>3, <1>4

(* A sum changes by what one of its terms changes by.                      *)
LEMMA TotalMoves ==
    ASSUME NEW S, IsFiniteSet(S), NEW f \in [S -> Int], NEW g \in [S -> Int],
           NEW x \in S, \A y \in S \ {x} : f[y] = g[y]
    PROVE  Total(g, S) - Total(f, S) = g[x] - f[x]
<1>1. PICK it : AddsUp(it, f, S) /\ Total(f, S) = it[S]
  BY TotalAddsUp
<1>2. PICK jt : AddsUp(jt, g, S) /\ Total(g, S) = jt[S]
  BY TotalAddsUp
<1> DEFINE C == {s \in SUBSET S : x \notin s /\ it[s] # jt[s]}
<1>3. C = {}
  <2> SUFFICES ASSUME C # {}
               PROVE  FALSE
    OBVIOUS
  <2>0. C \in SUBSET (SUBSET S) /\ C # {}
    OBVIOUS
  <2> HIDE DEF C
  <2>1. PICK s \in C : \A r \in C : r \subseteq s => r = s
    BY <2>0, SmallestSubset
  <2> USE DEF C
  <2>2. s \in SUBSET S /\ x \notin s /\ it[s] # jt[s]
    BY <2>1
  <2>3. PICK y : y \in s
    <3>1. it[{}] = 0 /\ jt[{}] = 0
      BY <1>1, <1>2 DEF AddsUp
    <3>2. s # {}
      BY <2>2, <3>1
    <3> QED BY <3>2
  <2>4. /\ s \ {y} \in SUBSET S /\ s \ {y} \subseteq s /\ s \ {y} # s
        /\ x \notin s \ {y}
    BY <2>2, <2>3
  <2>5. it[s \ {y}] = jt[s \ {y}]
    BY <2>1, <2>4
  <2>6. it[s] = f[y] + it[s \ {y}] /\ jt[s] = g[y] + jt[s \ {y}]
    BY <1>1, <1>2, <2>2, <2>3 DEF AddsUp
  <2>7. f[y] = g[y]
    BY <2>2, <2>3
  <2> QED BY <2>2, <2>5, <2>6, <2>7
<1>4. S \in SUBSET S /\ S \ {x} \in SUBSET S /\ x \notin S \ {x}
  OBVIOUS
<1>5. it[S \ {x}] = jt[S \ {x}]
  BY <1>3, <1>4
<1>6. it[S] = f[x] + it[S \ {x}] /\ jt[S] = g[x] + jt[S \ {x}]
  BY <1>1, <1>2, <1>4 DEF AddsUp
<1>7. it[S \ {x}] \in Int /\ f[x] \in Int /\ g[x] \in Int
  BY <1>1, <1>4 DEF AddsUp
<1> QED BY <1>1, <1>2, <1>5, <1>6, <1>7

-----------------------------------------------------------------------------
(* The accounts there are. *)
OpenNumbers == {n \in Numbers : IsOpen(n)}

BookOK == book \in [Numbers -> Entries \union {NoAccount}]

(* Every entry is one, and finitely many accounts were opened. *)
BookInv == BookOK /\ IsFiniteSet(OpenNumbers)

Held(c) == {n \in Numbers : IsOpen(n) /\ book[n].currency = c}

(* What the ledger asks of its constants. *)
LedgerConstants ==
    /\ NoAccount \notin Entries
    /\ Deposits \subseteq Int
    /\ Amounts \subseteq Nat

(* Rounding gains at most a unit and never costs one.                      *)
LEMMA AmountsRounded ==
    ASSUME NEW a \in Nat
    PROVE  Stored(a) \in Int /\ Taken(a) \in Nat /\ Stored(a) - Taken(a) >= 0
  BY DEF Stored, Taken

(* An empty book is a book.                                                *)
LEMMA BookInit == Init => BookInv
<1> SUFFICES ASSUME Init
             PROVE  BookInv
  OBVIOUS
<1>1. OpenNumbers = {}
  BY DEF Init, OpenNumbers, IsOpen
<1> QED BY <1>1, FS_EmptySet DEF Init, BookInv, BookOK

(* A step leaves the entries entries, and opens at most one account.       *)
LEMMA BookStep ==
    ASSUME LedgerConstants
    PROVE  BookInv /\ [Next]_book => BookInv'
<1> SUFFICES ASSUME BookInv, [Next]_book
             PROVE  BookInv'
  OBVIOUS
<1> USE DEF LedgerConstants
<1>1. ASSUME NEW n \in Numbers, NEW b \in Deposits, NEW c \in Currencies, Open(n, b, c)
      PROVE  BookInv'
  <2>1. Stored(b) \in Int
    BY DEF Stored
  <2>2. BookOK'
    BY <1>1, <2>1 DEF BookInv, BookOK, Open, Entries
  <2>3. OpenNumbers' \subseteq OpenNumbers \union {n}
    BY <1>1 DEF OpenNumbers, IsOpen, Open, BookInv, BookOK
  <2>4. IsFiniteSet(OpenNumbers \union {n})
    BY FS_AddElement DEF BookInv
  <2> QED BY <2>2, <2>3, <2>4, FS_Subset DEF BookInv
<1>2. ASSUME NEW f \in Numbers, NEW t \in Numbers, NEW a \in Amounts, Move(f, t, a)
      PROVE  BookInv'
  <2>1. Stored(a) \in Int /\ Taken(a) \in Int
    BY AmountsRounded
  <2>2. book[f] \in Entries /\ book[t] \in Entries
    BY <1>2 DEF BookInv, BookOK, Move, IsOpen
  <2>3. BookOK'
    BY <1>2, <2>1, <2>2 DEF BookInv, BookOK, Move, Entries
  <2>4. OpenNumbers' \subseteq OpenNumbers
    <3>1. \A n \in Numbers \ {f, t} : book'[n] = book[n]
      BY <1>2 DEF Move, BookInv, BookOK
    <3> QED BY <1>2, <3>1 DEF OpenNumbers, IsOpen, Move
  <2> QED BY <2>3, <2>4, FS_Subset DEF BookInv
<1>3. CASE Forfeit
  <2>1. \A loss \in Losses : loss \in Nat
    BY AmountsRounded DEF Losses
  <2>2. ASSUME NEW n \in Numbers
        PROVE  /\ book'[n] \in Entries \union {NoAccount}
               /\ book'[n] # NoAccount => IsOpen(n)
    <3>1. CASE book'[n] = book[n]
      BY <3>1 DEF BookInv, BookOK, IsOpen
    <3>2. CASE /\ IsOpen(n)
               /\ \E loss \in Losses :
                     /\ book[n].balance >= loss
                     /\ book'[n] = [book[n] EXCEPT !.balance = @ - loss]
      BY <2>1, <3>2 DEF BookInv, BookOK, IsOpen, Entries
    <3> QED BY <1>3, <3>1, <3>2 DEF Forfeit
  <2>3. BookOK'
    BY <1>3, <2>2 DEF Forfeit, BookOK
  <2>4. OpenNumbers' \subseteq OpenNumbers
    BY <2>2 DEF OpenNumbers, IsOpen
  <2> QED BY <2>3, <2>4, FS_Subset DEF BookInv
<1>4. CASE UNCHANGED book
  BY <1>4 DEF BookInv, BookOK, OpenNumbers, IsOpen
<1> QED BY <1>1, <1>2, <1>3, <1>4 DEF Next

(* The balances whose total Change compares.                               *)
LEMMA HeldBalances ==
    ASSUME LedgerConstants, BookInv, BookInv', [Next]_book, NEW c \in Currencies
    PROVE  /\ IsFiniteSet(Held(c))
           /\ [n \in Held(c) |-> book[n].balance] \in [Held(c) -> Int]
           /\ [n \in Held(c) |-> book'[n].balance] \in [Held(c) -> Int]
<1>1. Held(c) \subseteq OpenNumbers
  BY DEF Held, OpenNumbers
<1>2. ASSUME NEW n \in Held(c)
      PROVE  book[n] \in Entries /\ book'[n] # NoAccount
  <2>1. n \in Numbers /\ IsOpen(n) /\ book[n] \in Entries
    BY DEF Held, IsOpen, BookInv, BookOK
  <2>2. ASSUME NEW f \in Numbers, NEW t \in Numbers, NEW a \in Amounts, Move(f, t, a)
        PROVE  book'[n] # NoAccount
    <3>1. Stored(a) \in Int /\ Taken(a) \in Int
      BY AmountsRounded DEF LedgerConstants
    <3>2. book[f] \in Entries /\ book[t] \in Entries
      BY <2>2 DEF BookInv, BookOK, Move, IsOpen
    <3>3. book'[n] \in Entries
      BY <2>1, <2>2, <3>1, <3>2 DEF Move, BookInv, BookOK, Entries
    <3> QED BY <3>3 DEF LedgerConstants
  <2>3. CASE Forfeit
    <3>1. \A loss \in Losses : loss \in Nat
      BY AmountsRounded DEF Losses, LedgerConstants
    <3>2. book'[n] \in Entries
      BY <2>1, <2>3, <3>1 DEF Forfeit, Entries
    <3> QED BY <2>1, <3>2 DEF LedgerConstants
  <2>4. ASSUME NEW m \in Numbers, NEW b \in Deposits, NEW d \in Currencies, Open(m, b, d)
        PROVE  book'[n] # NoAccount
    BY <2>1, <2>4 DEF Open, IsOpen, BookInv, BookOK
  <2>5. CASE UNCHANGED book
    BY <2>1, <2>5 DEF IsOpen
  <2>6. CASE \E m \in Numbers, b \in Deposits, d \in Currencies : Open(m, b, d)
    BY <2>1, <2>4, <2>6
  <2>7. CASE \E f, t \in Numbers, a \in Amounts : Move(f, t, a)
    BY <2>1, <2>2, <2>7
  <2> QED BY <2>1, <2>3, <2>5, <2>6, <2>7 DEF Next
<1>3. ASSUME NEW n \in Held(c)
      PROVE  book[n].balance \in Int /\ book'[n].balance \in Int
  <2>1. n \in Numbers
    BY DEF Held
  <2>2. book'[n] \in Entries
    BY <1>2, <2>1 DEF BookInv, BookOK
  <2> QED BY <1>2, <2>2 DEF Entries
<1> QED BY <1>1, <1>3, FS_Subset DEF BookInv

(* A step that cuts no transfer. *)
Whole ==
    \/ \E n \in Numbers, b \in Deposits, c \in Currencies : Open(n, b, c)
    \/ \E f, t \in Numbers, a \in Amounts : Move(f, t, a)
    \/ UNCHANGED book

(* No step makes money but by rounding one transfer, and none that cuts no *)
(* transfer destroys any.                                                  *)
LEMMA KeepsTotals ==
    ASSUME LedgerConstants, BookInv, BookInv', [Next]_book
    PROVE  NothingMade /\ (Whole => NothingLost)
<1> SUFFICES ASSUME NEW c \in Currencies
             PROVE  /\ Change(c) =< 0 \/ \E a \in Amounts : Change(c) = Stored(a) - Taken(a)
                    /\ Whole => Change(c) >= 0
  BY DEF NothingMade, NothingLost
<1> DEFINE S == Held(c)
           now == [n \in S |-> book[n].balance]
           next == [n \in S |-> book'[n].balance]
<1>1. IsFiniteSet(S) /\ now \in [S -> Int] /\ next \in [S -> Int]
  BY HeldBalances
<1>2. /\ Change(c) = Total(next, S) - Total(now, S)
      /\ Total(next, S) \in Int /\ Total(now, S) \in Int
  BY <1>1, TotalType DEF Change, Holdings, Total, Held
<1>3. ASSUME next = now
      PROVE  Change(c) = 0
  BY <1>2, <1>3
<1>4. ASSUME NEW n \in Numbers, NEW b \in Deposits, NEW d \in Currencies, Open(n, b, d)
      PROVE  next = now
  <2>1. \A m \in S : m # n /\ m \in Numbers
    BY <1>4 DEF Held, Open
  <2>2. \A m \in S : book'[m] = book[m]
    BY <1>4, <2>1 DEF Open, BookInv, BookOK
  <2> QED BY <2>2
<1>5. ASSUME Forfeit
      PROVE  Change(c) =< 0
  <2>1. \A loss \in Losses : loss \in Nat
    BY AmountsRounded DEF Losses, LedgerConstants
  <2>2. ASSUME NEW n \in S
        PROVE  next[n] =< now[n]
    <3>1. n \in Numbers /\ book[n] \in Entries
      BY DEF Held, IsOpen, BookInv, BookOK
    <3>2. book[n].balance \in Int
      BY <3>1 DEF Entries
    <3>3. CASE book'[n] = book[n]
      BY <3>2, <3>3
    <3>4. ASSUME NEW loss \in Losses, book'[n] = [book[n] EXCEPT !.balance = @ - loss]
          PROVE  next[n] =< now[n]
      <4>1. book'[n].balance = book[n].balance - loss
        BY <3>1, <3>4 DEF Entries
      <4> QED BY <2>1, <3>2, <4>1
    <3> QED BY <1>5, <3>1, <3>3, <3>4 DEF Forfeit
  <2>3. Total(next, S) =< Total(now, S)
    <3> HIDE DEF S, now, next
    <3> QED BY <1>1, <2>2, TotalGrows
  <2> QED BY <1>2, <1>5, <2>3
<1>6. ASSUME NEW f \in Numbers, NEW t \in Numbers, NEW a \in Amounts, Move(f, t, a)
      PROVE  Change(c) = 0 \/ Change(c) = Stored(a) - Taken(a)
  <2>1. a \in Nat /\ Stored(a) \in Int /\ Taken(a) \in Int
    BY AmountsRounded DEF LedgerConstants
  <2>2. book[f] \in Entries /\ book[t] \in Entries /\ f # t
    BY <1>6 DEF BookInv, BookOK, Move, IsOpen
  <2>3. /\ book'[f].balance = book[f].balance - Taken(a)
        /\ book'[t].balance = book[t].balance + Stored(a)
        /\ \A n \in Numbers \ {f, t} : book'[n] = book[n]
    BY <1>6, <2>1, <2>2 DEF Move, BookInv, BookOK, Entries
  <2>4. f \in S <=> t \in S
    BY <1>6 DEF Held, Move
  <2>5. S \subseteq Numbers
    BY DEF Held
  <2>6. CASE f \notin S
    <3>1. \A n \in S : book'[n] = book[n]
      BY <2>3, <2>4, <2>5, <2>6
    <3>2. next = now
      BY <3>1
    <3> QED BY <1>2, <3>2
  <2>7. CASE f \in S
    <3> DEFINE mid == [n \in S |-> IF n = f THEN book'[n].balance ELSE book[n].balance]
    <3>1. now[f] \in Int /\ now[t] \in Int
      BY <1>1, <2>4, <2>7
    <3>2. /\ mid \in [S -> Int]
          /\ \A n \in S \ {f} : now[n] = mid[n]
          /\ \A n \in S \ {t} : mid[n] = next[n]
      <4>1. \A n \in S : book[n].balance \in Int /\ book'[n].balance \in Int
        BY <1>1
      <4>2. \A n \in S \ {f, t} : book'[n] = book[n]
        BY <2>3, <2>5
      <4> QED BY <4>1, <4>2
    <3>3. /\ mid[f] = now[f] - Taken(a) /\ mid[t] = now[t]
          /\ next[t] = now[t] + Stored(a)
      BY <2>2, <2>3, <2>4, <2>7
    <3>4. Total(mid, S) - Total(now, S) = mid[f] - now[f]
      <4> HIDE DEF S, now, mid
      <4> QED BY <1>1, <2>7, <3>2, TotalMoves
    <3>5. Total(next, S) - Total(mid, S) = next[t] - mid[t]
      <4> HIDE DEF S, next, mid
      <4> QED BY <1>1, <2>4, <2>7, <3>2, TotalMoves
    <3>6. Total(mid, S) \in Int
      <4> HIDE DEF S, mid
      <4> QED BY <1>1, <3>2, TotalType
    <3> HIDE DEF S, now, next, mid
    <3>7. Total(next, S) - Total(now, S) = Stored(a) - Taken(a)
      BY <1>2, <2>1, <3>1, <3>3, <3>4, <3>5, <3>6
    <3> QED BY <1>2, <3>7
  <2> QED BY <2>6, <2>7
<1>7. ASSUME NEW f \in Numbers, NEW t \in Numbers, NEW a \in Amounts, Move(f, t, a)
      PROVE  /\ Change(c) =< 0 \/ \E d \in Amounts : Change(c) = Stored(d) - Taken(d)
             /\ Change(c) >= 0
  <2>1. Stored(a) - Taken(a) >= 0
    BY AmountsRounded DEF LedgerConstants
  <2> QED BY <1>6, <1>7, <2>1
<1>8. ASSUME Whole
      PROVE  /\ Change(c) =< 0 \/ \E d \in Amounts : Change(c) = Stored(d) - Taken(d)
             /\ Change(c) >= 0
  <2>1. CASE UNCHANGED book
    BY <1>3, <2>1
  <2>2. CASE \E n \in Numbers, b \in Deposits, d \in Currencies : Open(n, b, d)
    BY <1>3, <1>4, <2>2
  <2>3. CASE \E f, t \in Numbers, a \in Amounts : Move(f, t, a)
    BY <1>7, <2>3
  <2> QED BY <1>8, <2>1, <2>2, <2>3 DEF Whole
<1> QED BY <1>5, <1>8 DEF Next, Whole

(* A ledger's entries stay entries, finitely many of them of open          *)
(* accounts.                                                               *)
THEOREM BookCorrect ==
    ASSUME LedgerConstants
    PROVE  Spec => []BookInv
  BY BookInit, BookStep, PTL DEF Spec

(* A ledger conserves money: whatever the accounts and however many, a     *)
(* step changes the total of a currency by the rounding of one transfer at *)
(* most, and lowers it only where transfers may stop half way.             *)
THEOREM LedgerConserves ==
    ASSUME LedgerConstants
    PROVE  Spec => Conservation
<1>1. BookInv /\ BookInv' /\ [Next]_book => [NothingMade /\ (NothingLost \/ Lossy)]_book
  BY KeepsTotals DEF Next, Whole, Forfeit
<1> QED BY <1>1, BookCorrect, PTL DEF Spec, Conservation
=============================================================================
