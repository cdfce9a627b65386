--------------------------- MODULE ConnectionPool ---------------------------
(***************************************************************************)
(* The pool of database connections (app/db_pool.py) and what the service  *)
(* does with it: an operation takes a connection and keeps it until its    *)
(* transaction ends (_idempotent_write), and a change of a booking that    *)
(* finds no table asks for more connections meanwhile, one after the       *)
(* other, to look for alternatives (update_confirmed_booking,              *)
(* check_availability).  asyncpg is external: a request for a connection   *)
(* waits its turn without a limit of time.                                 *)
(***************************************************************************)
EXTENDS Naturals, Sequences, FiniteSets

CONSTANTS
  Tasks,      \* operations that may be under way at once
  Changes,    \* those of them that change a booking
  Size        \* max_size

ASSUME PoolAssumption ==
  IsFiniteSet(Tasks) /\ Changes \subseteq Tasks /\ Size \in Nat \ {0}

VARIABLES
  pc,        \* per task: idle, first (waits), one (holds), second (holds and waits), two
  waiting    \* tasks that wait for a connection, in turn

vars == <<pc, waiting>>

Init == pc = [t \in Tasks |-> "idle"] /\ waiting = <<>>

At(label) == {t \in Tasks : pc[t] = label}
Holders == {t \in Tasks : pc[t] \in {"one", "second", "two"}}
InUse == Cardinality(Holders) + Cardinality(At("two"))

\* pool.acquire
Ask(t, label) ==
  /\ pc' = [pc EXCEPT ![t] = label]
  /\ waiting' = Append(waiting, t)

Begin(t) == pc[t] = "idle" /\ Ask(t, "first")

\* As below, with an operation that forgets to pass its connection on.
NestsAlways(t) == TRUE

\* No table: check_availability runs inside the transaction, on connections of
\* its own.  Everything else passes its connection on.
Nests(t) == t \in Changes

LookForAlternatives(t) == pc[t] = "one" /\ Nests(t) /\ Ask(t, "second")

\* The pool gives a free connection to the first that waits.
Grant ==
  /\ waiting # <<>> /\ InUse < Size
  /\ pc' = [pc EXCEPT ![Head(waiting)] = IF @ = "first" THEN "one" ELSE "two"]
  /\ waiting' = Tail(waiting)

\* The query for alternatives is done; a statement takes 30 seconds at most.
GiveBack(t) == pc[t] = "two" /\ pc' = [pc EXCEPT ![t] = "one"] /\ UNCHANGED waiting

\* Commit or rollback; with an error, out of either query.
End(t) == pc[t] = "one" /\ pc' = [pc EXCEPT ![t] = "idle"] /\ UNCHANGED waiting
Fail(t) == pc[t] = "two" /\ pc' = [pc EXCEPT ![t] = "idle"] /\ UNCHANGED waiting

Next ==
  \/ Grant
  \/ \E t \in Tasks :
       Begin(t) \/ LookForAlternatives(t) \/ GiveBack(t) \/ End(t) \/ Fail(t)

Spec == Init /\ [][Next]_vars

\* A free connection is granted, a query ends, and a transaction ends: it has
\* finitely many statements, so it does not look for alternatives for ever.
Fairness ==
  /\ WF_vars(Grant)
  /\ \A t \in Tasks : WF_vars(GiveBack(t) \/ Fail(t)) /\ SF_vars(End(t))
-----------------------------------------------------------------------------
(* Properties.                                                             *)

\* The type of the pool: a task waits once, and only changes hold a
\* connection while they do.
TypeOK ==
  /\ pc \in [Tasks -> {"idle", "first", "one", "second", "two"}]
  /\ waiting \in Seq(At("first") \union At("second"))
  /\ \A i, j \in 1 .. Len(waiting) : i # j => waiting[i] # waiting[j]
  /\ At("second") \union At("two") \subseteq Changes

\* Not everyone waits for everyone: when a connection is waited for, one is
\* free, or someone who holds one can go on.  It needs fewer changes at a time
\* than the pool has connections.
NotStuck ==
  Cardinality(Changes) < Size =>
    (At("second") # {} => InUse < Size \/ \E t \in Holders : pc[t] \in {"one", "two"})

\* The pool exists so that each query reuses a connection that is ready:
\* whoever asks for one gets it.
EachQueryRuns ==
  \A t \in Tasks : /\ pc[t] = "first" ~> pc[t] = "one"
                   /\ pc[t] = "second" ~> pc[t] = "two"
=============================================================================
