--------------------------- MODULE LockOrderProofs ---------------------------
(***************************************************************************)
(* Transactions that take their locks in the documented order never wait   *)
(* in a circle and serve each account one by one, for any number of        *)
(* transactions and rows.                                                  *)
(***************************************************************************)
EXTENDS LockOrder, TLAPS, WellFoundedInduction

\* Every set of numbers has a smallest one.
LEMMA SmallestOf ==
  ASSUME NEW T \in SUBSET Nat, T # {}
  PROVE  \E x \in T : \A y \in T : x <= y
<1>1. PICK x \in T : \A y \in T : ~ (<<y, x>> \in OpToRel(<, Nat))
  BY NatLessThanWellFounded, WFMin, Zenon
<1>2. \A y \in T : ~ (y < x)
  BY <1>1 DEF OpToRel
<1> QED
  BY <1>2

-----------------------------------------------------------------------------
(* What a transaction has comes before what it still asks for. *)

AllInOrder == \A p \in Programs : InOrder(p)

Before(a, b) ==
  \/ Position[a.kind] < Position[b.kind]
  \/ a.kind = b.kind /\ a.id < b.id

HeldBeforeMissing(t) ==
  \A h \in held[t], n \in DOMAIN program[t] :
    n >= step[t] /\ ~Harmless(program[t][n]) =>
      \A j \in Missing(t, n) : Before(h, LockOf(program[t][n], j))

WaitsForNext(t) ==
  \A w \in wait[t] :
    /\ step[t] \in DOMAIN program[t]
    /\ \E i \in Missing(t, step[t]) :
         /\ w = LockOf(program[t][step[t]], i)
         /\ \A j \in Missing(t, step[t]) : i <= j

AccountsShared(t) == \A h \in held[t] : h.kind = "account" => h.mode # "Update"

NothingBetween(t) == program[t] = <<>> => held[t] = {} /\ wait[t] = {}

TxnInv(t) ==
  HeldBeforeMissing(t) /\ WaitsForNext(t) /\ AccountsShared(t) /\ NothingBetween(t)

LocksInv == LocksTypeOK /\ \A t \in Txns : TxnInv(t)

\* Every program, and the empty one, is in order and made of groups.
LEMMA ProgramsOfTxns ==
  ASSUME AllInOrder, NEW p \in Programs \cup {<<>>}
  PROVE  /\ p \in Seq(Group) /\ InOrder(p)
         /\ DOMAIN p = 1..Len(p) /\ Len(p) \in Nat
         /\ \A n \in DOMAIN p : /\ p[n] \in Group
                                /\ \A i \in p[n].ids : LockOf(p[n], i) \in Lock
<1>1. CASE p \in Programs
  <2>1. p \in Seq(Group)
    BY <1>1, ProgramsAreSequences
  <2>2. DOMAIN p = 1..Len(p) /\ Len(p) \in Nat /\ \A n \in DOMAIN p : p[n] \in Group
    BY <2>1
  <2> QED
    BY <1>1, <2>1, <2>2 DEF AllInOrder, Group, LockOf, Lock
<1>2. CASE p = <<>>
  BY <1>2 DEF InOrder
<1> QED
  BY <1>1, <1>2

\* Taking the next lock, at once or after waiting, keeps the order.
LEMMA TakingKeepsOrder ==
  ASSUME AllInOrder, LocksTypeOK, NEW t \in Txns, NEW n \in DOMAIN program[t], n >= step[t],
         HeldBeforeMissing(t), AccountsShared(t),
         NEW i \in Missing(t, n), \A j \in Missing(t, n) : i <= j,
         program' = program, step'[t] = n,
         held' = [held EXCEPT ![t] = @ \cup {LockOf(program[t][n], i)}]
  PROVE  HeldBeforeMissing(t)' /\ AccountsShared(t)'
<1> DEFINE p == program[t]
           l == LockOf(p[n], i)
<1>1. /\ InOrder(p) /\ DOMAIN p = 1..Len(p) /\ Len(p) \in Nat
      /\ \A m \in DOMAIN p : /\ p[m] \in Group
                             /\ \A j \in p[m].ids : LockOf(p[m], j) \in Lock
  BY ProgramsOfTxns DEF LocksTypeOK
<1>2. held'[t] = held[t] \cup {l} /\ step[t] \in Nat
  BY DEF LocksTypeOK
<1>3. l.kind = p[n].kind /\ l.mode = p[n].mode /\ l.id = i /\ i \in p[n].ids
  BY DEF LockOf, Missing
<1>4. AccountsShared(t)'
  BY <1>1, <1>2, <1>3 DEF AccountsShared, InOrder
<1>5. ASSUME NEW h \in held'[t], NEW m \in DOMAIN p, m >= n, ~Harmless(p[m]),
             NEW j \in Missing(t, m)'
      PROVE  Before(h, LockOf(p[m], j))
  <2>1. j \in Missing(t, m) /\ (m = n => j # i)
    BY <1>2, <1>5 DEF Missing
  <2>2. LockOf(p[m], j).kind = p[m].kind /\ LockOf(p[m], j).id = j /\ i \in Int /\ j \in Int
    BY <1>1, <1>3, <2>1 DEF LockOf, Missing, Group, Ids
  <2>3. CASE h \in held[t]
    BY <1>1, <1>2, <1>5, <2>1, <2>3 DEF HeldBeforeMissing
  <2>4. CASE h = l /\ m = n
    BY <1>3, <2>1, <2>2, <2>4 DEF Before
  <2>5. CASE h = l /\ m > n
    BY <1>1, <1>3, <1>5, <2>2, <2>5 DEF Before, InOrder
  <2> QED
    BY <1>1, <1>2, <1>5, <2>3, <2>4, <2>5
<1>6. HeldBeforeMissing(t)'
  BY <1>5 DEF HeldBeforeMissing
<1> QED
  BY <1>4, <1>6

LEMMA LocksInvInit ==
  ASSUME Init
  PROVE  LocksInv
BY DEF Init, LocksInv, TxnInv, LocksTypeOK, HeldBeforeMissing, WaitsForNext,
       AccountsShared, NothingBetween

\* A step of one transaction leaves what the others have as it was.
LEMMA OthersStay ==
  ASSUME LocksInv, NEW u \in Txns,
         program'[u] = program[u], step'[u] = step[u],
         held'[u] = held[u], wait'[u] = wait[u]
  PROVE  TxnInv(u)'
BY DEF LocksInv, TxnInv, HeldBeforeMissing, WaitsForNext, AccountsShared, Missing,
       NothingBetween

LEMMA BeginKeeps ==
  ASSUME LocksInv, NEW t \in Txns, Begin(t)
  PROVE  LocksInv'
<1>1. LocksTypeOK'
  BY DEF Begin, LocksInv, LocksTypeOK
<1>2. held'[t] = {} /\ wait'[t] = {}
  BY DEF Begin, LocksInv, TxnInv, NothingBetween
<1>3. TxnInv(t)'
  BY <1>2 DEF TxnInv, HeldBeforeMissing, WaitsForNext, AccountsShared, NothingBetween
<1>4. ASSUME NEW u \in Txns \ {t}
      PROVE  TxnInv(u)'
  BY <1>4, OthersStay DEF Begin, LocksInv, LocksTypeOK
<1> QED
  BY <1>1, <1>3, <1>4 DEF LocksInv

LEMMA EndKeeps ==
  ASSUME LocksInv, NEW t \in Txns, End(t)
  PROVE  LocksInv'
<1>1. LocksTypeOK'
  BY DEF End, LocksInv, LocksTypeOK
<1>2. held'[t] = {} /\ wait'[t] = {}
  BY DEF End, LocksInv, LocksTypeOK
<1>3. TxnInv(t)'
  BY <1>2 DEF TxnInv, HeldBeforeMissing, WaitsForNext, AccountsShared, NothingBetween
<1>4. ASSUME NEW u \in Txns \ {t}
      PROVE  TxnInv(u)'
  BY <1>4, OthersStay DEF End, LocksInv, LocksTypeOK
<1> QED
  BY <1>1, <1>3, <1>4 DEF LocksInv

LEMMA AskKeeps ==
  ASSUME AllInOrder, LocksInv, NEW t \in Txns, Ask(t)
  PROVE  LocksInv'
<1> USE DEF LocksInv
<1>1. LocksTypeOK /\ TxnInv(t) /\ wait[t] = {} /\ program' = program
  BY DEF Ask
<1>2. PICK n \in step[t]..Len(program[t]) : \E i \in Missing(t, n) :
        /\ step' = [step EXCEPT ![t] = n]
        /\ \A j \in Missing(t, n) : i <= j
        /\ LET lock == LockOf(program[t][n], i)
           IN  IF Refused(t, lock)
               THEN wait' = [wait EXCEPT ![t] = {lock}] /\ UNCHANGED held
               ELSE held' = [held EXCEPT ![t] = @ \cup {lock}] /\ UNCHANGED wait
  BY DEF Ask
<1>3. PICK i \in Missing(t, n) :
        /\ step' = [step EXCEPT ![t] = n]
        /\ \A j \in Missing(t, n) : i <= j
        /\ LET lock == LockOf(program[t][n], i)
           IN  IF Refused(t, lock)
               THEN wait' = [wait EXCEPT ![t] = {lock}] /\ UNCHANGED held
               ELSE held' = [held EXCEPT ![t] = @ \cup {lock}] /\ UNCHANGED wait
  BY <1>2
<1>4. /\ program[t] \in Programs \cup {<<>>}
      /\ DOMAIN program[t] = 1..Len(program[t]) /\ Len(program[t]) \in Nat
      /\ \A m \in DOMAIN program[t] : \A j \in program[t][m].ids :
            LockOf(program[t][m], j) \in Lock
  BY <1>1, ProgramsOfTxns DEF LocksTypeOK
<1>5. step[t] \in Nat \ {0} /\ n \in DOMAIN program[t] /\ n >= step[t] /\ n \in Nat \ {0}
      /\ LockOf(program[t][n], i) \in Lock /\ step'[t] = n
  BY <1>1, <1>2, <1>3, <1>4 DEF LocksTypeOK, Missing
<1>6. LocksTypeOK'
  <2> DEFINE lock == LockOf(program[t][n], i)
  <2>1. step' \in [Txns -> Nat \ {0}] /\ program' \in [Txns -> Programs \cup {<<>>}]
    BY <1>1, <1>3, <1>5 DEF LocksTypeOK
  <2>2. lock \in Lock
    BY <1>5
  <2>3. \/ wait' = [wait EXCEPT ![t] = {lock}] /\ held' = held
        \/ held' = [held EXCEPT ![t] = @ \cup {lock}] /\ wait' = wait
    BY <1>3
  <2> HIDE DEF lock
  <2>4. held' \in [Txns -> SUBSET Lock] /\ wait' \in [Txns -> SUBSET Lock]
    BY <1>1, <2>2, <2>3 DEF LocksTypeOK
  <2>5. QED
    BY <2>1, <2>4 DEF LocksTypeOK
<1>7. ASSUME NEW u \in Txns \ {t}
      PROVE  TxnInv(u)'
  BY <1>1, <1>2, <1>3, <1>7, OthersStay DEF LocksTypeOK
<1>8. CASE Refused(t, LockOf(program[t][n], i))
  <2>1. held' = held /\ wait'[t] = {LockOf(program[t][n], i)}
    BY <1>1, <1>2, <1>3, <1>8 DEF LocksTypeOK
  <2>2. HeldBeforeMissing(t)'
    BY <1>1, <1>5, <2>1 DEF TxnInv, HeldBeforeMissing, Missing, LocksTypeOK
  <2>3. WaitsForNext(t)'
    BY <1>1, <1>2, <1>3, <1>5, <2>1 DEF WaitsForNext, Missing
  <2>4. AccountsShared(t)' /\ NothingBetween(t)'
    BY <1>1, <1>5, <2>1 DEF TxnInv, AccountsShared, NothingBetween
  <2> QED
    BY <1>6, <1>7, <2>2, <2>3, <2>4 DEF TxnInv
<1>9. CASE ~Refused(t, LockOf(program[t][n], i))
  <2>1. held' = [held EXCEPT ![t] = @ \cup {LockOf(program[t][n], i)}] /\ wait' = wait
    BY <1>2, <1>3, <1>9
  <2>2. HeldBeforeMissing(t)' /\ AccountsShared(t)'
    BY <1>1, <1>2, <1>3, <1>5, <2>1, TakingKeepsOrder DEF TxnInv
  <2>3. WaitsForNext(t)' /\ NothingBetween(t)'
    BY <1>1, <1>5, <2>1 DEF WaitsForNext, NothingBetween
  <2> QED
    BY <1>6, <1>7, <2>2, <2>3 DEF TxnInv
<1> QED
  BY <1>8, <1>9

\* A transaction waits for one lock at a time.
LEMMA WaitsForOne ==
  ASSUME AllInOrder, LocksInv, NEW t \in Txns, NEW w \in wait[t], NEW v \in wait[t]
  PROVE  v = w
<1>1. PICK i \in Missing(t, step[t]) :
        /\ step[t] \in DOMAIN program[t]
        /\ w = LockOf(program[t][step[t]], i)
        /\ \A j \in Missing(t, step[t]) : i <= j
  BY DEF LocksInv, TxnInv, WaitsForNext
<1>2. PICK j \in Missing(t, step[t]) :
        v = LockOf(program[t][step[t]], j) /\ \A k \in Missing(t, step[t]) : j <= k
  BY DEF LocksInv, TxnInv, WaitsForNext
<1>3. i \in Int /\ j \in Int
  BY <1>1, ProgramsOfTxns DEF LocksInv, LocksTypeOK, Missing, Group, Ids
<1> QED
  BY <1>1, <1>2, <1>3

LEMMA GrantKeeps ==
  ASSUME AllInOrder, LocksInv, NEW t \in Txns, Grant(t)
  PROVE  LocksInv'
<1> USE DEF LocksInv
<1>1. LocksTypeOK /\ TxnInv(t) /\ program' = program /\ step' = step /\ wait'[t] = {}
  BY DEF Grant, LocksTypeOK
<1>2. PICK w \in wait[t], i \in Missing(t, step[t]) :
        /\ step[t] \in DOMAIN program[t]
        /\ w = LockOf(program[t][step[t]], i)
        /\ \A j \in Missing(t, step[t]) : i <= j
  BY DEF Grant, TxnInv, WaitsForNext
<1>3. wait[t] = {w}
  BY WaitsForOne
<1>4. held' = [held EXCEPT ![t] = @ \cup {LockOf(program[t][step[t]], i)}]
  BY <1>1, <1>2, <1>3 DEF Grant, LocksTypeOK
<1>5. LocksTypeOK'
  BY <1>1, <1>3 DEF Grant, LocksTypeOK
<1>6. HeldBeforeMissing(t)' /\ AccountsShared(t)'
  <2>1. step[t] \in Nat /\ step[t] >= step[t] /\ step'[t] = step[t]
    BY <1>1 DEF LocksTypeOK
  <2>2. LocksTypeOK /\ HeldBeforeMissing(t) /\ AccountsShared(t) /\ program' = program
    BY <1>1 DEF TxnInv
  <2> QED
    BY <1>2, <1>4, <2>1, <2>2, TakingKeepsOrder
<1>7. WaitsForNext(t)' /\ NothingBetween(t)'
  BY <1>1, <1>2 DEF WaitsForNext, NothingBetween
<1>8. ASSUME NEW u \in Txns \ {t}
      PROVE  TxnInv(u)'
  BY <1>1, <1>8, OthersStay DEF Grant, LocksTypeOK
<1> QED
  BY <1>5, <1>6, <1>7, <1>8 DEF TxnInv

LEMMA LocksInvNext ==
  ASSUME AllInOrder, LocksInv, [Next]_locksVars
  PROVE  LocksInv'
<1>1. CASE UNCHANGED locksVars
  BY <1>1 DEF LocksInv, TxnInv, locksVars, LocksTypeOK, HeldBeforeMissing, WaitsForNext,
              AccountsShared, NothingBetween, Missing
<1>2. CASE Next
  BY <1>2, BeginKeeps, AskKeeps, GrantKeeps, EndKeeps DEF Next
<1> QED
  BY <1>1, <1>2

-----------------------------------------------------------------------------
(* No circle: follow the waiting transactions to the last row asked for. *)

\* A transaction is only blocked by one that, if it waits itself for anything
\* that can block, waits for a row further on.
LEMMA BlockedByLater ==
  ASSUME AllInOrder, LocksInv, NEW t \in Txns, NEW u \in Txns, NEW w \in wait[t],
         NEW h \in held[u], Conflict(w, h), NEW v \in wait[u]
  PROVE  ~Harmless(w) /\ (~Harmless(v) => Before(w, v))
<1>1. /\ w \in Lock /\ h \in Lock /\ v \in Lock /\ w.kind = h.kind /\ w.id = h.id
      /\ <<w.mode, h.mode>> \in ConflictingModes
  BY DEF LocksInv, LocksTypeOK, Conflict
<1>2. ~Harmless(w)
  BY <1>1 DEF LocksInv, TxnInv, AccountsShared, Harmless, ConflictingModes
<1>3. ASSUME ~Harmless(v)
      PROVE  Before(h, v)
  <2>1. PICK i \in Missing(u, step[u]) :
          step[u] \in DOMAIN program[u] /\ v = LockOf(program[u][step[u]], i)
    BY DEF LocksInv, TxnInv, WaitsForNext
  <2>2. ~Harmless(program[u][step[u]])
    BY <1>3, <2>1 DEF Harmless, LockOf
  <2>3. step[u] \in Nat /\ step[u] >= step[u]
    BY DEF LocksInv, LocksTypeOK
  <2> QED
    BY <2>1, <2>2, <2>3 DEF LocksInv, TxnInv, HeldBeforeMissing
<1> QED
  BY <1>1, <1>2, <1>3 DEF Before

LEMMA InOrderNoDeadlock ==
  ASSUME AllInOrder, LocksInv
  PROVE  NoDeadlock
<1> SUFFICES ASSUME NEW S \in SUBSET Txns, S # {},
                    \A t \in S : \E u \in S \ {t} : BlockedBy(t, u)
             PROVE  FALSE
  BY DEF NoDeadlock
<1> DEFINE W == UNION {wait[t] : t \in S}
<1>1. W \subseteq Lock
  BY DEF LocksInv, LocksTypeOK
<1>2. \A w \in W : ~Harmless(w) /\ \E v \in W : Before(w, v)
  <2>1. ASSUME NEW t \in S, NEW w \in wait[t]
        PROVE  ~Harmless(w) /\ \E v \in W : Before(w, v)
    <3>1. PICK u \in S \ {t} : BlockedBy(t, u)
      OBVIOUS
    <3>2. PICK x \in wait[t], h \in held[u] : Conflict(x, h)
      BY <3>1 DEF BlockedBy
    <3>3. x = w
      BY <2>1, WaitsForOne
    <3>4. PICK u2 \in S : BlockedBy(u, u2)
      OBVIOUS
    <3>5. PICK v \in wait[u], h2 \in held[u2] : Conflict(v, h2)
      BY <3>4 DEF BlockedBy
    <3>6. PICK v2 \in wait[u2] : TRUE
      BY DEF BlockedBy
    <3>7. ~Harmless(v)
      BY <3>5, <3>6, BlockedByLater
    <3>8. ~Harmless(w) /\ Before(w, v)
      BY <3>2, <3>3, <3>5, <3>7, BlockedByLater
    <3> QED
      BY <3>5, <3>8
  <2> QED
    BY <2>1
<1>3. W # {}
  BY DEF BlockedBy
<1>4. \A w \in W : Position[w.kind] \in 1..9 /\ w.id \in 1..MaxId
  BY <1>1 DEF Lock, Kinds, Position, Ids
<1> DEFINE Last(w) == 9 - Position[w.kind]
<1> HIDE DEF W
<1>5. PICK k \in {Last(w) : w \in W} : \A l \in {Last(w) : w \in W} : k <= l
  <2>1. {Last(w) : w \in W} \in SUBSET Nat /\ {Last(w) : w \in W} # {}
    BY <1>3, <1>4
  <2> HIDE DEF Last
  <2> QED
    BY <2>1, SmallestOf
<1>6. PICK kind : \A w \in W : Position[w.kind] <= Position[kind] /\ (Position[w.kind] = Position[kind] => w.kind = kind)
                 /\ \E v \in W : v.kind = kind
  <2>1. PICK x \in W : Last(x) = k
    OBVIOUS
  <2>2. ASSUME NEW w \in W
        PROVE  Position[w.kind] <= Position[x.kind]
    <3>1. Last(w) \in {Last(y) : y \in W}
      OBVIOUS
    <3>2. 9 - Position[x.kind] <= 9 - Position[w.kind]
      BY <1>5, <2>1, <3>1, Zenon
    <3>3. Position[w.kind] \in Int /\ Position[x.kind] \in Int
      BY <1>4
    <3> QED
      BY <3>2, <3>3
  <2>3. \A w \in W : Position[w.kind] = Position[x.kind] => w.kind = x.kind
    BY <1>1, <2>1 DEF Position, Lock, Kinds
  <2> QED
    BY <2>1, <2>2, <2>3
<1> DEFINE Ends == {MaxId - w.id : w \in {v \in W : v.kind = kind}}
<1>7. Ends \in SUBSET Nat /\ Ends # {}
  BY <1>3, <1>4, <1>6, MaxIdIsNat
<1>8. PICK m \in Ends : \A n \in Ends : m <= n
  <2> HIDE DEF Ends
  <2> QED
    BY <1>7, SmallestOf
<1>9. PICK w \in W : w.kind = kind /\ m = MaxId - w.id
  BY <1>8
<1>10. PICK v \in W : Before(w, v)
  BY <1>2
<1>11. v.kind = kind /\ w.id < v.id
  BY <1>4, <1>6, <1>9, <1>10 DEF Before
<1>12. MaxId - v.id \in Ends
  BY <1>11
<1>13. MaxId - w.id <= MaxId - v.id
  BY <1>8, <1>9, <1>12, Zenon
<1>14. w.id \in Int /\ v.id \in Int
  BY <1>4
<1> QED
  BY <1>11, <1>13, <1>14, MaxIdIsNat

-----------------------------------------------------------------------------
(* One transaction for each account *)

\* A transaction has all that its earlier statements ask for.
EarlierTaken(t) ==
  /\ program[t] = <<>> => step[t] = 1
  /\ \A m \in DOMAIN program[t] : m < step[t] => Missing(t, m) = {}

Exclusive ==
  \A t, u \in Txns : t # u => \A h \in held[t], g \in held[u] : ~Conflict(h, g)

ServeInv == LocksInv /\ (\A t \in Txns : EarlierTaken(t)) /\ Exclusive

LEMMA ConflictIsMutual ==
  ASSUME NEW a, NEW b, Conflict(a, b)
  PROVE  Conflict(b, a)
BY DEF Conflict, ConflictingModes

\* Whoever takes locks that nobody refuses it stays exclusive.
LEMMA TakingStaysExclusive ==
  ASSUME LocksTypeOK, Exclusive, NEW t \in Txns, NEW new,
         \A lock \in new : ~Refused(t, lock),
         held' = [held EXCEPT ![t] = @ \cup new]
  PROVE  Exclusive'
<1>1. held'[t] = held[t] \cup new /\ \A u \in Txns \ {t} : held'[u] = held[u]
  BY DEF LocksTypeOK
<1>2. \A u \in Txns \ {t} : \A h \in held'[t], g \in held[u] : ~Conflict(h, g)
  BY <1>1 DEF Exclusive, Refused
<1>3. \A u \in Txns \ {t} : \A h \in held'[t], g \in held[u] : ~Conflict(g, h)
  BY <1>2, ConflictIsMutual
<1>4. ASSUME NEW x \in Txns, NEW u \in Txns, x # u, NEW h \in held'[x], NEW g \in held'[u]
      PROVE  ~Conflict(h, g)
  <2>1. CASE x = t
    BY <1>1, <1>2, <1>4, <2>1
  <2>2. CASE u = t
    BY <1>1, <1>3, <1>4, <2>2
  <2>3. CASE x # t /\ u # t
    BY <1>1, <1>4, <2>3 DEF Exclusive
  <2>4. QED
    BY <2>1, <2>2, <2>3
<1>5. QED
  BY <1>4 DEF Exclusive

LEMMA ServeInit == Init => ServeInv
<1> SUFFICES ASSUME Init PROVE ServeInv
  OBVIOUS
<1>1. LocksInv
  BY LocksInvInit
<1>2. (\A t \in Txns : EarlierTaken(t)) /\ Exclusive
  BY DEF Init, EarlierTaken, Exclusive
<1>3. QED
  BY <1>1, <1>2 DEF ServeInv

\* Statements are left behind when nothing of them is missing any more.
LEMMA MovingOn ==
  ASSUME LocksTypeOK, NEW t \in Txns, EarlierTaken(t), program' = program,
         program[t] # <<>>, NEW n \in Nat, n >= step[t], step'[t] = n,
         \A m \in step[t]..(n - 1) : Missing(t, m) = {},
         held[t] \subseteq held'[t], DOMAIN program[t] \subseteq Nat
  PROVE  EarlierTaken(t)'
<1>1. step[t] \in Nat
  BY DEF LocksTypeOK
<1>2. ASSUME NEW m \in DOMAIN program[t], m < n PROVE Missing(t, m)' = {}
  <2>1. Missing(t, m) = {}
    BY <1>1, <1>2 DEF EarlierTaken
  <2>2. QED
    BY <2>1 DEF Missing
<1>3. QED
  BY <1>2 DEF EarlierTaken

LEMMA ServeNext ==
  ASSUME AllInOrder, ServeInv, [Next]_locksVars
  PROVE  ServeInv'
<1>1. LocksInv' /\ LocksInv /\ LocksTypeOK /\ Exclusive
  BY LocksInvNext DEF ServeInv, LocksInv
<1>2. ASSUME NEW t \in Txns, program'[t] = program[t], step'[t] = step[t], held'[t] = held[t]
      PROVE  EarlierTaken(t)'
  BY <1>2 DEF ServeInv, EarlierTaken, Missing
<1>3. CASE UNCHANGED locksVars
  BY <1>1, <1>2, <1>3 DEF locksVars, ServeInv, Exclusive
<1>4. ASSUME NEW t \in Txns, Begin(t) \/ Ask(t) \/ Grant(t) \/ End(t) PROVE ServeInv'
  <2>1. ASSUME NEW u \in Txns \ {t} PROVE EarlierTaken(u)'
    <3>1. program'[u] = program[u] /\ step'[u] = step[u] /\ held'[u] = held[u]
      BY <1>1, <1>4, <2>1 DEF Begin, Ask, Grant, End, LocksTypeOK
    <3>2. QED
      BY <1>2, <3>1
  <2>2. EarlierTaken(t) /\ NothingBetween(t) /\ program[t] \in Programs \cup {<<>>}
        /\ DOMAIN program[t] \subseteq Nat /\ step[t] \in Nat
    BY <1>1, ProgramsOfTxns DEF ServeInv, LocksInv, TxnInv, LocksTypeOK
  <2>3. CASE Begin(t)
    <3>1. step'[t] = 1 /\ held' = held
      BY <2>2, <2>3 DEF Begin, EarlierTaken
    <3>2. program'[t] \in Programs
      BY <1>1, <2>3 DEF Begin, LocksTypeOK
    <3>3. \A m \in DOMAIN program'[t] : m >= 1
      BY <3>2, ProgramsOfTxns
    <3>4. EarlierTaken(t)'
      BY <3>1, <3>2, <3>3, ProgramsOfTxns DEF EarlierTaken
    <3>5. QED
      BY <1>1, <2>1, <3>1, <3>4 DEF ServeInv, Exclusive
  <2>4. CASE Ask(t)
    <3>1. PICK n \in step[t]..Len(program[t]) : \E i \in Missing(t, n) :
            /\ step' = [step EXCEPT ![t] = n]
            /\ \A m \in step[t]..(n - 1) : Missing(t, m) = {}
            /\ LET lock == LockOf(program[t][n], i)
               IN  IF Refused(t, lock)
                   THEN wait' = [wait EXCEPT ![t] = {lock}] /\ UNCHANGED held
                   ELSE held' = [held EXCEPT ![t] = @ \cup {lock}] /\ UNCHANGED wait
      BY <2>4 DEF Ask
    <3>2. PICK lock : \/ UNCHANGED held
                      \/ ~Refused(t, lock) /\ held' = [held EXCEPT ![t] = @ \cup {lock}]
      BY <3>1
    <3>3. Exclusive'
      <4>1. CASE UNCHANGED held
        BY <1>1, <4>1 DEF Exclusive
      <4>2. CASE ~Refused(t, lock) /\ held' = [held EXCEPT ![t] = @ \cup {lock}]
        <5> DEFINE new == {lock}
        <5>1. (\A l \in new : ~Refused(t, l)) /\ held' = [held EXCEPT ![t] = @ \cup new]
          BY <4>2
        <5> HIDE DEF new
        <5>2. QED
          BY <1>1, <5>1, TakingStaysExclusive
      <4>3. QED
        BY <3>2, <4>1, <4>2
    <3>4. n \in Nat /\ n >= step[t] /\ step'[t] = n /\ program[t] # <<>>
      BY <1>1, <2>2, <3>1 DEF LocksTypeOK
    <3>5. held[t] \subseteq held'[t]
      BY <1>1, <3>2 DEF LocksTypeOK
    <3>6. EarlierTaken(t)'
      BY <1>1, <2>2, <2>4, <3>1, <3>4, <3>5, MovingOn DEF Ask
    <3>7. QED
      BY <1>1, <2>1, <3>3, <3>6 DEF ServeInv
  <2>5. CASE Grant(t)
    <3>1. /\ \A lock \in wait[t] : ~Refused(t, lock)
          /\ held' = [held EXCEPT ![t] = @ \cup wait[t]]
          /\ program' = program /\ step' = step
      BY <2>5 DEF Grant
    <3>2. Exclusive'
      BY <1>1, <3>1, TakingStaysExclusive
    <3>3. held[t] \subseteq held'[t]
      BY <1>1, <3>1 DEF LocksTypeOK
    <3>4. EarlierTaken(t)'
      BY <2>2, <3>1, <3>3 DEF EarlierTaken, Missing
    <3>5. QED
      BY <1>1, <2>1, <3>2, <3>4 DEF ServeInv
  <2>6. CASE End(t)
    <3>1. program'[t] = <<>> /\ step'[t] = 1 /\ held'[t] = {}
          /\ \A u \in Txns \ {t} : held'[u] = held[u]
      BY <1>1, <2>6 DEF End, LocksTypeOK
    <3>2. EarlierTaken(t)'
      BY <3>1 DEF EarlierTaken
    <3>3. Exclusive'
      BY <1>1, <3>1 DEF Exclusive
    <3>4. QED
      BY <1>1, <2>1, <3>2, <3>3 DEF ServeInv
  <2>7. QED
    BY <1>4, <2>3, <2>4, <2>5, <2>6
<1>5. QED
  BY <1>3, <1>4 DEF Next

\* A transaction past the account's lock has that of every account it serves.
LEMMA ServedIsHeld ==
  ASSUME AllInOrder, ServeInv, NEW t \in Txns, PastAccount(t), NEW a \in Serves(t)
  PROVE  \E h \in held[t] : h.kind = "account" /\ h.id = a /\ h.mode = "NoKeyUpdate"
<1>1. PICK n \in DOMAIN program[t] :
        /\ program[t][n].kind = "account" /\ ~Harmless(program[t][n])
        /\ a \in program[t][n].ids
  BY DEF Serves
<1>2. /\ program[t][n] \in Group /\ n \in Nat /\ step[t] \in Nat
      /\ program[t][n].mode # "Update"
  BY <1>1, ProgramsOfTxns DEF ServeInv, LocksInv, LocksTypeOK, InOrder
<1>3. program[t][n].mode = "NoKeyUpdate"
  BY <1>1, <1>2 DEF Group, Modes, Harmless
<1>4. PICK h \in held[t] : Position[h.kind] > Position["account"]
  BY DEF PastAccount
<1>5. h.kind \in Kinds
  BY <1>4 DEF ServeInv, LocksInv, LocksTypeOK, Lock
<1>6. ~Before(h, LockOf(program[t][n], a))
  BY <1>1, <1>4, <1>5 DEF Before, LockOf, Position, Kinds
<1>7. a \notin Missing(t, n)
  <2>1. CASE n < step[t]
    BY <2>1 DEF ServeInv, EarlierTaken
  <2>2. CASE n >= step[t]
    BY <1>1, <1>6, <2>2 DEF ServeInv, LocksInv, TxnInv, HeldBeforeMissing
  <2>3. QED
    BY <1>2, <2>1, <2>2
<1>8. QED
  BY <1>1, <1>3, <1>7 DEF Missing, LockOf

LEMMA ServedOneByOne == ASSUME AllInOrder, ServeInv PROVE OneForEachAccount
<1> SUFFICES ASSUME NEW t \in Txns, NEW u \in Txns, t # u, PastAccount(t), PastAccount(u),
                    NEW a \in Serves(t), a \in Serves(u)
             PROVE  FALSE
  BY DEF OneForEachAccount
<1>1. PICK h \in held[t] : h.kind = "account" /\ h.id = a /\ h.mode = "NoKeyUpdate"
  BY ServedIsHeld
<1>2. PICK g \in held[u] : g.kind = "account" /\ g.id = a /\ g.mode = "NoKeyUpdate"
  BY ServedIsHeld
<1>3. Conflict(h, g)
  BY <1>1, <1>2 DEF Conflict, ConflictingModes
<1>4. QED
  BY <1>3 DEF ServeInv, Exclusive

-----------------------------------------------------------------------------
(* Theorems *)

\* Whatever the transactions do, as long as each takes its locks in the
\* documented order, none of them ever wait for each other in a circle.
THEOREM OrderPreventsDeadlock == AllInOrder => (Spec => []NoDeadlock)
<1> SUFFICES ASSUME AllInOrder
             PROVE  Spec => []NoDeadlock
  OBVIOUS
<1>1. Init => LocksInv
  BY LocksInvInit
<1>2. LocksInv /\ [Next]_locksVars => LocksInv'
  BY LocksInvNext
<1>3. LocksInv => NoDeadlock
  BY InOrderNoDeadlock
<1> QED
  BY <1>1, <1>2, <1>3, PTL DEF Spec

\* In that order, whoever has come past an account's lock is alone in serving it.
THEOREM OrderServesOneByOne == AllInOrder => (Spec => []OneForEachAccount)
<1> SUFFICES ASSUME AllInOrder
             PROVE  Spec => []OneForEachAccount
  OBVIOUS
<1>1. Init => ServeInv
  BY ServeInit
<1>2. ServeInv /\ [Next]_locksVars => ServeInv'
  BY ServeNext
<1>3. ServeInv => OneForEachAccount
  BY ServedOneByOne
<1> QED
  BY <1>1, <1>2, <1>3, PTL DEF Spec

\* Carts, sign-in, checkout, cancellation, payment, customer input and the
\* panel's forms take their locks in the documented order, whichever rows
\* they need.
THEOREM PathsAreInOrder == \A p \in OrderedPaths : InOrder(p)
<1> USE DEF InOrder, Harmless, Position, InPkOrder, One, Account, Author
<1>1. \A p \in CartPaths : InOrder(p)
  <2>1. \A s, c, p : InOrder(EditGuestCart(s, c, p)) /\ InOrder(PurgeGuestCarts(c))
    BY DEF EditGuestCart, PurgeGuestCarts
  <2>2. \A a, c, p : InOrder(EditAccountCart(a, c, p))
    BY DEF EditAccountCart
  <2>3. \A s, a, cs, ps : InOrder(SignIn(s, a, cs, ps))
    BY DEF SignIn
  <2> HIDE DEF InOrder
  <2> QED
    BY <2>1, <2>2, <2>3 DEF CartPaths
<1>2. \A p \in OrderPaths : InOrder(p)
  <2>1. \A a, c, os, products, ps, codes, items :
          InOrder(Checkout(a, c, os, products, ps, codes, items))
    BY DEF Checkout
  <2>2. \A a, o, products, ps, codes, items, authors :
          InOrder(Cancel(a, o, products, ps, codes, items, authors))
    BY DEF Cancel
  <2>3. \A a, o, payments, items, actor : InOrder(Pay(a, o, payments, items, actor))
    BY DEF Pay
  <2>4. \A a, o, i, actor : InOrder(TakeInput(a, o, i, actor))
    BY DEF TakeInput
  <2> HIDE DEF InOrder
  <2> QED
    BY <2>1, <2>2, <2>3, <2>4 DEF OrderPaths
<1>3. \A p \in PanelPaths : InOrder(p)
  <2>1. \A products, p, operator : InOrder(StockForm(products, p, operator))
    BY DEF StockForm
  <2>2. \A products, ps, operator : InOrder(ProductPage(products, ps, operator))
    BY DEF ProductPage
  <2>3. \A products, codes, operator : InOrder(CodeForm(products, codes, operator))
    BY DEF CodeForm
  <2> HIDE DEF InOrder
  <2> QED
    BY <2>1, <2>2, <2>3 DEF PanelPaths
<1> HIDE DEF InOrder
<1> QED
  BY <1>1, <1>2, <1>3 DEF OrderedPaths

\* So any number of them at the same time never deadlock.
THEOREM PathsNeverDeadlock == Programs \subseteq OrderedPaths => (Spec => []NoDeadlock)
BY OrderPreventsDeadlock, PathsAreInOrder DEF AllInOrder

\* And any number of them serve each customer one after the other, which is what
\* the rule of one unpaid order relies on (decisions/0029).
THEOREM PathsServeOneByOne == Programs \subseteq OrderedPaths => (Spec => []OneForEachAccount)
BY OrderServesOneByOne, PathsAreInOrder DEF AllInOrder

=============================================================================
