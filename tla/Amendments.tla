----------------------------- MODULE Amendments -----------------------------
(***************************************************************************)
(* Changing and cancelling the reservation of a call: the readback, the    *)
(* caller's turn that answers it, the write behind the confirmation gate,  *)
(* and the turn that takes a cancellation back (app/caller_turn.py,        *)
(* app/pending_confirmation.py, update_confirmed_booking, cancel_booking   *)
(* and reverse_pending_cancellation of app/services/restaurant.py).        *)
(*                                                                         *)
(* Requests of one call are coroutines of one process; a step is what runs *)
(* between two awaits.  Several requests overlap when the caller's client  *)
(* sends a message before the answer to the last one.  The process may die *)
(* between any two steps.  Finding a table is the subject of Bookings: a   *)
(* change finds one or changes nothing.  The draft is in CallMemory.       *)
(***************************************************************************)
EXTENDS Naturals, Sequences

CONSTANTS
  Handlers,       \* requests that may be running at the same time
  Details,        \* what a change may change the reservation to
  Original,       \* what it is at the start
  MaxTurns,       \* bounds on the caller's turns,
  MaxReadbacks,   \*   on readbacks,
  MaxRestarts,    \*   and on crashes
  None            \* no record

ASSUME AmendmentsAssumption ==
  /\ None \notin Details \cup {Original} /\ Original \notin Details
  /\ {MaxTurns, MaxReadbacks, MaxRestarts} \subseteq Nat

Kinds == {"change", "cancel"}
Words == {"affirmative", "negative", "unclear"}

VARIABLES
  memory,     \* the gate's fields in _memory[session_id], or None
  row,        \* the same fields in call_sessions.state, or None
  booking,    \* the committed row of the reservation
  handler,    \* per request: position and local variables
  restarts,   \* crashes so far
  readbacks,  \* the readbacks so far: [kind, details, life]
  agreed,     \* those that came before a turn classified as a yes
  stopped,    \* those of which the caller was told: "I stopped the pending cancellation"
  done,       \* committed changes and cancellations: [readback, kind, details, life]
  overlapped  \* two requests have been running at once, for the properties

vars ==
  <<memory, row, booking, handler, restarts, readbacks, agreed, stopped, done, overlapped>>

talk == <<readbacks, agreed, stopped>>

\* id tells two records apart as created_at does.
Record == [details : Details \cup {None}, turn : Nat, id : Nat]
Gate == [turn : Nat, word : Words, pending : [Kinds -> Record \cup {None}]]

NoGate == [turn |-> 0, word |-> "unclear", pending |-> [k \in Kinds |-> None]]
OrEmpty(m) == IF m = None THEN NoGate ELSE m

Idle == [pc |-> "idle", kind |-> None, details |-> None, seen |-> None,
         patch |-> None, used |-> 0]

Init ==
  /\ memory = None /\ row = None
  /\ booking = [status |-> "confirmed", details |-> Original]
  /\ handler = [h \in Handlers |-> Idle]
  /\ restarts = 0 /\ readbacks = <<>>
  /\ agreed = {} /\ stopped = {} /\ done = <<>> /\ overlapped = FALSE

At(h, label) == handler[h].pc = label
Become(h, x) == handler' = [handler EXCEPT ![h] = x]
GoTo(h, label) == Become(h, [handler[h] EXCEPT !.pc = label])
Finish(h) == Become(h, Idle)

\* The row lock of the reservation is held between the SELECT ... FOR UPDATE
\* and the end of the transaction.
Locked == \E h \in Handlers : handler[h].pc \in {"write", "clear", "commit"}

\* pending_state_patch
StatePatch(m) == [OrEmpty(m) EXCEPT !.pending["cancel"] = None]

\* Mutant: a "no" leaves the record where it is.
ClearedUnlessNo(m, k) ==
  IF m = None \/ m.pending[k] = None \/ m.word = "negative" THEN m
  ELSE [m EXCEPT !.pending[k] = None]

\* clear_pending_confirmation: whatever record of the action is there by now.
Cleared(m, k) ==
  IF m = None \/ m.pending[k] = None THEN m ELSE [m EXCEPT !.pending[k] = None]

-----------------------------------------------------------------------------
(* Arrival, and hydrate_call_memory *)

\* Where a request waits for the row before it goes on.
Reading == [turn |-> "read for turn", readback |-> "read for readback",
            confirm |-> "read for confirm"]

Arrive(h, start, k, d) ==
  /\ At(h, "idle")
  /\ d \in IF k = "change" THEN Details ELSE {None}
  /\ start = "turn" => k = "cancel"
  \* Everything but a cancellation hydrates first, if memory is empty.
  /\ Become(h, [Idle EXCEPT !.kind = k, !.details = d,
       !.pc = IF memory = None /\ ~(k = "cancel" /\ start # "turn")
              THEN Reading[start] ELSE start])
  /\ UNCHANGED <<memory, row, booking, restarts, talk, done>>

\* The SELECT; an error counts as no row.
ReadRow(h, start) ==
  /\ At(h, Reading[start])
  /\ \E s \in {row, None} :
       Become(h, [handler[h] EXCEPT !.pc = start, !.seen = s])
  /\ UNCHANGED <<memory, row, booking, restarts, talk, done>>

\* What was read goes over whatever memory holds by now.
Recalled(h) == IF handler[h].seen = None THEN memory ELSE handler[h].seen

-----------------------------------------------------------------------------
(* process_caller_turn *)

\* begin_caller_turn
Spoken(m, w) == [OrEmpty(m) EXCEPT !.turn = @ + 1, !.word = w]

\* An answer that is not a "no" to a pending cancellation, or that is about
\* the order, goes on to the model.
CallerTurn(h) ==
  LET m == OrEmpty(Recalled(h)) IN
  /\ At(h, "turn") /\ m.turn < MaxTurns
  /\ \E w \in Words :
       /\ memory' = Spoken(m, w)
       /\ agreed' = IF w = "affirmative" THEN agreed \cup DOMAIN readbacks ELSE agreed
  /\ Finish(h)
  /\ UNCHANGED <<row, booking, restarts, readbacks, stopped, done>>

\* A "no" takes the pending cancellation back: the record is cleared in memory
\* in the same step, and then the row is told.
StopCancellation(h) ==
  LET m == OrEmpty(Recalled(h))
      spoken == Spoken(m, "negative")
      cleared == Cleared(spoken, "cancel") IN
  /\ At(h, "turn") /\ m.turn < MaxTurns
  /\ m.pending["cancel"] # None
  /\ memory' = cleared
  /\ Become(h, [handler[h] EXCEPT !.pc = "invalidate", !.patch = StatePatch(cleared),
                                  !.used = m.pending["cancel"].id])
  /\ UNCHANGED <<row, booking, restarts, talk, done>>

\* invalidate_pending_cancellation saves; an error is answered by a second try.
Invalidate(h) ==
  /\ At(h, "invalidate")
  /\ \/ row' = handler[h].patch /\ GoTo(h, "lookup")
     \/ row' = row /\ GoTo(h, "again")
  /\ UNCHANGED <<memory, booking, restarts, talk, done>>

\* The reservation as it is decides the wording.
LookUp(h) ==
  /\ At(h, "lookup")
  /\ \/ /\ stopped' = IF booking.status = "cancelled" THEN stopped
                      ELSE stopped \cup {handler[h].used}
        /\ Finish(h)
     \/ GoTo(h, "again") /\ UNCHANGED stopped
  /\ UNCHANGED <<memory, row, booking, restarts, readbacks, agreed, done>>

\* "I couldn't verify": the record of by now is cleared, the row told again.
InvalidateAgain(h) ==
  /\ At(h, "again")
  /\ memory' = Cleared(memory, "cancel")
  /\ Become(h, [Idle EXCEPT !.pc = "persist", !.patch = StatePatch(Cleared(memory, "cancel"))])
  /\ UNCHANGED <<row, booking, restarts, talk, done>>

-----------------------------------------------------------------------------
(* The readback: caller_confirmed is false *)

ReadBack(h) ==
  LET m == OrEmpty(Recalled(h))
      k == handler[h].kind
      n == Len(readbacks) + 1
      g == [m EXCEPT !.pending[k] =
              [details |-> handler[h].details, turn |-> m.turn, id |-> n]] IN
  /\ At(h, "readback") /\ n <= MaxReadbacks
  /\ readbacks' = Append(readbacks, [kind |-> k, details |-> handler[h].details,
                                     life |-> restarts])
  /\ memory' = g
  /\ Become(h, [handler[h] EXCEPT !.pc = "persist", !.patch = StatePatch(g)])
  /\ UNCHANGED <<row, booking, restarts, agreed, stopped, done>>

\* persist_call_state, whose errors are passed over.
Persist(h) ==
  /\ At(h, "persist")
  /\ row' \in {handler[h].patch, row}
  /\ Finish(h)
  /\ UNCHANGED <<memory, booking, restarts, talk, done>>

-----------------------------------------------------------------------------
(* The write: caller_confirmed is true *)

\* Mutant: a yes to anything will do, even one from before the readback.
AcceptsEarlierYes(m, k, d) ==
  /\ m.pending[k] # None /\ m.pending[k].details = d
  /\ m.word = "affirmative"

\* require_pending_confirmation
Accepts(m, k, d) ==
  /\ m.pending[k] # None /\ m.pending[k].details = d
  /\ m.word = "affirmative" /\ m.turn > m.pending[k].turn

\* The gate refuses, dropping the record if it has expired, or lets go on.
CheckGate(h, next) ==
  LET m == OrEmpty(Recalled(h))
      k == handler[h].kind IN
  /\ \/ /\ m.pending[k] # None
        /\ memory' = Cleared(m, k) /\ Finish(h)
     \/ /\ ~Accepts(m, k, handler[h].details)
        /\ memory' = Recalled(h) /\ Finish(h)
     \/ /\ Accepts(m, k, handler[h].details)
        /\ memory' = Recalled(h)
        /\ Become(h, [handler[h] EXCEPT !.pc = next, !.seen = None, !.used = m.pending[k].id])
  /\ UNCHANGED <<row, booking, restarts, talk, done>>

\* Before the transaction is opened, and again inside it.
CheckFirst(h) == At(h, "confirm") /\ CheckGate(h, "begin")
CheckAgain(h) == At(h, "begin") /\ CheckGate(h, "lock")

\* Mutant: the status that was true before the lock was granted is believed.
LockUnread(h) ==
  /\ At(h, "lock") /\ ~Locked
  /\ GoTo(h, "write")
  /\ UNCHANGED <<memory, row, booking, restarts, talk, done>>

\* SELECT ... FOR UPDATE, and the status it returns.  A change may also find
\* no table: then nothing is changed and the record stays.
Lock(h) ==
  LET k == handler[h].kind IN
  /\ At(h, "lock") /\ ~Locked
  /\ \/ booking.status = "confirmed" /\ GoTo(h, "write") /\ UNCHANGED memory
     \/ k = "change" /\ Finish(h) /\ UNCHANGED memory
     \/ /\ k = "cancel" /\ booking.status = "cancelled"
        /\ memory' = Cleared(memory, k)
        /\ GoTo(h, "patch")
  /\ UNCHANGED <<row, booking, restarts, talk, done>>

\* UPDATE bookings and the merge into call_sessions, uncommitted; an error
\* rolls back.
Write(h) ==
  /\ At(h, "write")
  /\ GoTo(h, "clear") \/ Finish(h)
  /\ UNCHANGED <<memory, row, booking, restarts, talk, done>>

\* Once the statements are done the record is consumed.
ClearRecord(h) ==
  /\ At(h, "clear")
  /\ memory' = Cleared(memory, handler[h].kind)
  /\ GoTo(h, "commit")
  /\ UNCHANGED <<row, booking, restarts, talk, done>>

\* COMMIT, or an error: the transaction is undone, the record is not back.
Commit(h) ==
  LET k == handler[h].kind IN
  /\ At(h, "commit")
  /\ \/ /\ booking' = IF k = "cancel" THEN [booking EXCEPT !.status = "cancelled"]
                      ELSE [booking EXCEPT !.details = handler[h].details]
        /\ done' = Append(done, [readback |-> handler[h].used, kind |-> k,
                                 details |-> handler[h].details, life |-> restarts])
        /\ GoTo(h, "patch")
     \/ Finish(h) /\ UNCHANGED <<booking, done>>
  /\ UNCHANGED <<memory, row, restarts, talk>>

\* What is saved for the row is what memory holds after the commit.
TakePatch(h) ==
  /\ At(h, "patch")
  /\ Become(h, [handler[h] EXCEPT !.pc = "persist", !.patch = StatePatch(memory)])
  /\ UNCHANGED <<memory, row, booking, restarts, talk, done>>

\* The process dies; a COMMIT that was under way may have taken effect.
Crash ==
  /\ restarts < MaxRestarts
  /\ restarts' = restarts + 1
  /\ memory' = None
  /\ handler' = [h \in Handlers |-> Idle]
  /\ UNCHANGED <<row, booking, talk, done>>

Starts == {"turn", "readback", "confirm"}

Step(h) ==
  \/ \E s \in Starts : ReadRow(h, s)
  \/ CallerTurn(h) \/ StopCancellation(h)
  \/ Invalidate(h) \/ LookUp(h) \/ InvalidateAgain(h)
  \/ ReadBack(h) \/ Persist(h)
  \/ CheckFirst(h) \/ CheckAgain(h) \/ Lock(h) \/ Write(h)
  \/ ClearRecord(h) \/ Commit(h) \/ TakePatch(h)

Overlap ==
  \E g, h \in Handlers : g # h /\ handler[g].pc # "idle" /\ handler[h].pc # "idle"

Next ==
  /\ \/ \E h \in Handlers, s \in Starts, k \in Kinds, d \in Details \cup {None} :
          Arrive(h, s, k, d)
     \/ \E h \in Handlers : Step(h)
     \/ Crash
  /\ overlapped' = (overlapped \/ Overlap')

Spec == Init /\ [][Next]_vars

-----------------------------------------------------------------------------

(* Every change and every cancellation that is committed is one that was read *)
(* back to the caller, with these details, and the caller said yes on a later *)
(* turn, across overlapping requests, errors and restarts.                    *)
DoneAsAgreed ==
  \A i \in DOMAIN done :
    LET r == readbacks[done[i].readback] IN
    /\ done[i].readback \in agreed
    /\ r.kind = done[i].kind /\ r.details = done[i].details

(* A cancelled reservation stays as it is, whatever change was already past   *)
(* the gate when it was cancelled.                                            *)
CancelledIsFinal ==
  [][booking.status = "cancelled" => booking' = booking]_vars

(* A cancellation that is committed still stood when it was: this process    *)
(* read it back, since its record does not survive a restart                 *)
(* (pending_confirmation.py:237), and the caller was not told before that    *)
(* "I stopped the pending cancellation" (services/restaurant.py:1746).       *)
CancellationStood ==
  \A i \in DOMAIN done : done[i].kind = "cancel" =>
    /\ readbacks[done[i].readback].life = done[i].life
    /\ done[i].readback \notin stopped

(* It is so as long as no two requests of the call have overlapped, wherever  *)
(* requests fail or the process dies.                                         *)
CancellationStoodIfSerial == ~overlapped => CancellationStood
=============================================================================
