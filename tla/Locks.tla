-------------------------------- MODULE Locks --------------------------------
(***************************************************************************)
(* The row locks a transaction takes, as far as the order it takes them in *)
(* matters.  PostgreSQL is external: its three row locks, which of them    *)
(* conflict, that a transaction keeps what it has until it ends, and that  *)
(* a deadlock is a circle of transactions waiting for each other.          *)
(*                                                                         *)
(* A program is the sequence of lock statements of a transaction, each a   *)
(* group of rows of one table that is taken in primary-key order; rows     *)
(* taken in any other order are groups of their own.  Waiters of one row   *)
(* are not queued: a queue adds waits for others that wait for the same    *)
(* row, and no circle.                                                     *)
(***************************************************************************)
EXTENDS Integers, Sequences

CONSTANTS
  Txns,      \* transactions at the same time
  MaxId,     \* primary keys are 1..MaxId
  Programs   \* what a transaction may do

Kinds == {"session", "account", "cart", "order", "payment",
          "product", "plan", "code", "item"}
Modes == {"KeyShare", "NoKeyUpdate", "Update"}
Ids == 1..MaxId

Lock == [kind : Kinds, id : Ids, mode : Modes]
Group == [kind : Kinds, ids : SUBSET Ids, mode : Modes]

ASSUME MaxIdIsNat == MaxId \in Nat
ASSUME ProgramsAreSequences == Programs \subseteq Seq(Group)

VARIABLES
  program,   \* what each transaction does; empty between transactions
  step,      \* the statement it is in
  held,      \* the locks it has
  wait       \* the lock it waits for, if any

locksVars == <<program, step, held, wait>>

\* Every variable keeps its type.
LocksTypeOK ==
  /\ program \in [Txns -> Programs \cup {<<>>}]
  /\ step \in [Txns -> Nat \ {0}]
  /\ held \in [Txns -> SUBSET Lock]
  /\ wait \in [Txns -> SUBSET Lock]

-----------------------------------------------------------------------------
(* PostgreSQL's row locks *)

ConflictingModes ==
  {<<"Update", "Update">>, <<"Update", "NoKeyUpdate">>, <<"NoKeyUpdate", "Update">>,
   <<"NoKeyUpdate", "NoKeyUpdate">>, <<"Update", "KeyShare">>, <<"KeyShare", "Update">>}

Conflict(a, b) ==
  a.kind = b.kind /\ a.id = b.id /\ <<a.mode, b.mode>> \in ConflictingModes

Refused(t, lock) == \E u \in Txns \ {t} : \E h \in held[u] : Conflict(lock, h)

LockOf(g, i) == [kind |-> g.kind, id |-> i, mode |-> g.mode]

Missing(t, n) == {i \in program[t][n].ids : LockOf(program[t][n], i) \notin held[t]}

Begin(t) ==
  /\ program[t] = <<>>
  /\ \E p \in Programs : program' = [program EXCEPT ![t] = p]
  /\ UNCHANGED <<step, held, wait>>

\* The next lock is there for the taking, or the transaction waits for it.
Ask(t) ==
  /\ wait[t] = {}
  /\ \E n \in step[t]..Len(program[t]) :
       /\ \A m \in step[t]..(n - 1) : Missing(t, m) = {}
       /\ step' = [step EXCEPT ![t] = n]
       /\ \E i \in Missing(t, n) :
            LET lock == LockOf(program[t][n], i)
            IN  /\ \A j \in Missing(t, n) : i <= j
                /\ IF Refused(t, lock)
                   THEN wait' = [wait EXCEPT ![t] = {lock}] /\ UNCHANGED held
                   ELSE held' = [held EXCEPT ![t] = @ \cup {lock}] /\ UNCHANGED wait
  /\ UNCHANGED program

Grant(t) ==
  /\ wait[t] # {}
  /\ \A lock \in wait[t] : ~Refused(t, lock)
  /\ held' = [held EXCEPT ![t] = @ \cup wait[t]]
  /\ wait' = [wait EXCEPT ![t] = {}]
  /\ UNCHANGED <<program, step>>

\* Commit, or rollback wherever the transaction is.
End(t) ==
  /\ program[t] # <<>>
  /\ program' = [program EXCEPT ![t] = <<>>]
  /\ step' = [step EXCEPT ![t] = 1]
  /\ held' = [held EXCEPT ![t] = {}]
  /\ wait' = [wait EXCEPT ![t] = {}]

Init ==
  /\ program = [t \in Txns |-> <<>>]
  /\ step = [t \in Txns |-> 1]
  /\ held = [t \in Txns |-> {}]
  /\ wait = [t \in Txns |-> {}]

Next == \E t \in Txns : Begin(t) \/ Ask(t) \/ Grant(t) \/ End(t)

Spec == Init /\ [][Next]_locksVars

-----------------------------------------------------------------------------
(* Properties *)

BlockedBy(t, u) == \E w \in wait[t], h \in held[u] : Conflict(w, h)

\* No circle of transactions each waiting for a lock another of them has:
\* whichever group of transactions one looks at, one of them waits for none
\* of the others.  PostgreSQL would break such a circle by failing one of its
\* transactions, a customer's checkout or an operator's payment.
NoDeadlock ==
  \A S \in SUBSET Txns : S # {} =>
    \E t \in S : \A u \in S \ {t} : ~BlockedBy(t, u)

=============================================================================
