----------------------------- MODULE CallMemory -----------------------------
(***************************************************************************)
(* The structured memory of one call (app/call_memory.py), the gate on     *)
(* create_booking that lives in it (app/pending_confirmation.py), and its  *)
(* durable copy, the row of the call in call_sessions.  Requests about the *)
(* call run as coroutines of one process: a step here is what runs between *)
(* two awaits.  The process may die; memory is then lost and the row stays.*)
(*                                                                         *)
(* The tables and idempotency keys are the subject of Bookings: each       *)
(* create_booking here has a key of its own and finds a table or fails.    *)
(* Only create_booking's pending record is kept; the readbacks of other    *)
(* actions appear by their effect on the row (OtherReadback).              *)
(***************************************************************************)
EXTENDS Naturals, Sequences

CONSTANTS
  Handlers,       \* requests about the call that run at the same time
  Operations,     \* the operations requested
  Details,        \* complete sets of booking details
  MaxTurns,       \* bounds on caller turns,
  MaxReadbacks,   \*   on readbacks,
  MaxRestarts,    \*   on crashes of the process,
  MaxBookings,    \*   and on bookings
  None            \* no record

ASSUME BoundsAssumption ==
  /\ MaxTurns \in Nat /\ MaxReadbacks \in Nat
  /\ MaxRestarts \in Nat /\ MaxBookings \in Nat
  /\ None \notin Details
  /\ Operations \subseteq {"turn", "draft", "readback", "other", "create"}

VARIABLES
  memory,      \* _memory[session_id]: the gate's fields and the draft, or None
  row,         \* call_sessions.state
  handler,     \* per request: its position and its local variables
  restarts,    \* crashes so far
  said,        \* the caller's latest utterance was a yes
  readbacks,   \* the details registered for a readback so far
  agreed,      \* how many of them came before the caller's last yes
  booked,      \* committed bookings of the call
  overlapped   \* two requests have been running at once, for the properties

vars == <<memory, row, handler, restarts, said, readbacks, agreed, booked, overlapped>>

talk == <<said, readbacks, agreed>>

\* id stands for created_at, which tells two readbacks apart.
Pending == [details : Details, turn : Nat, id : Nat]

Gate  == [turn : Nat, yes : BOOLEAN, pending : Pending \cup {None}]
Draft == [details : Details \cup {None}, booking : Nat]

ASSUME NoneAssumption == None \notin Gate

\* The keys of a state row or of a patch to it come in two groups: those of
\* pending_state_patch and those of flatten_draft.
Patch == [gate : Gate \cup {None}, draft : Draft \cup {None}]

Fresh == [gate  |-> [turn |-> 0, yes |-> FALSE, pending |-> None],
          draft |-> [details |-> None, booking |-> 0]]

NoKeys == [gate |-> None, draft |-> None]

OrFresh(m) == IF m = None THEN Fresh ELSE m

Idle == [pc |-> "idle", op |-> None, details |-> None, seen |-> NoKeys,
         patch |-> NoKeys, found |-> 0, used |-> 0]

Init ==
  /\ memory = None
  /\ row = NoKeys
  /\ handler = [h \in Handlers |-> Idle]
  /\ restarts = 0
  /\ said = FALSE
  /\ readbacks = <<>>
  /\ agreed = 0
  /\ booked = <<>>
  /\ overlapped = FALSE

Become(h, x) == handler' = [handler EXCEPT ![h] = x]
GoTo(h, label) == Become(h, [handler[h] EXCEPT !.pc = label])
Finish(h) == Become(h, Idle)

\* state || EXCLUDED.state
Merged(r, p) ==
  [gate  |-> IF p.gate  = None THEN r.gate  ELSE p.gate,
   draft |-> IF p.draft = None THEN r.draft ELSE p.draft]

-----------------------------------------------------------------------------
(* Arrival and hydration *)

Hydrates(op) == op \in {"turn", "draft", "readback"}

Arrive(h) ==
  /\ handler[h] = Idle
  /\ \E op \in Operations :
       \E d \in IF op \in {"draft", "create"} THEN Details ELSE {None} :
         Become(h, [Idle EXCEPT
           !.op = op, !.details = d,
           !.pc = IF op = "create" THEN "session"
                  ELSE IF Hydrates(op) /\ memory = None THEN "read" ELSE "body"])
  /\ UNCHANGED <<memory, row, restarts, talk, booked>>

\* The SELECT of hydrate_call_memory; an error counts as an empty row.
ReadRow(h) ==
  /\ handler[h].pc = "read"
  /\ \E s \in {row, NoKeys} :
       Become(h, [handler[h] EXCEPT !.pc = "body", !.seen = s])
  /\ UNCHANGED <<memory, row, restarts, talk, booked>>

\* What was read is stored over whatever memory holds by now.  A row without a
\* draft restores an empty one.
Hydrated(m, s) ==
  IF s = NoKeys THEN m
  ELSE [gate  |-> IF s.gate = None THEN OrFresh(m).gate ELSE s.gate,
        draft |-> IF s.draft = None THEN Fresh.draft ELSE s.draft]

Recalled(h) == Hydrated(memory, handler[h].seen)

Body(h, op) == handler[h].pc = "body" /\ handler[h].op = op

-----------------------------------------------------------------------------
(* Handlers *)

\* process_caller_turn: the turn number advances, the utterance is classified.
CallerTurn(h) ==
  LET m == OrFresh(Recalled(h)) IN
  /\ Body(h, "turn")
  /\ m.gate.turn < MaxTurns
  /\ \E y \in BOOLEAN :
       /\ memory' = [m EXCEPT !.gate.turn = @ + 1, !.gate.yes = y]
       /\ said' = y
       /\ agreed' = IF y THEN Len(readbacks) ELSE agreed
  /\ Finish(h)
  /\ UNCHANGED <<row, restarts, readbacks, booked>>

\* update_reservation_draft: refused for a confirmed draft, else saved in
\* memory; the patch for the row is written later.
SaveDraft(h) ==
  LET m == OrFresh(Recalled(h))
      d == [m.draft EXCEPT !.details = handler[h].details] IN
  /\ Body(h, "draft")
  /\ \/ /\ m.draft.booking # 0
        /\ memory' = m
        /\ Finish(h)
     \/ /\ m.draft.booking = 0
        /\ memory' = [m EXCEPT !.draft = d]
        /\ Become(h, [handler[h] EXCEPT !.pc = "persist",
                                        !.patch = [gate |-> None, draft |-> d]])
  /\ UNCHANGED <<row, restarts, talk, booked>>

\* Mutant: the durable copy of the gate leaves the turn number out.
GateWithoutTurn(g) == [gate |-> [g EXCEPT !.turn = 0], draft |-> None]

\* pending_state_patch
GatePatch(g) == [gate |-> g, draft |-> None]

\* get_reservation_draft: a complete draft becomes the pending readback.
ReadBack(h) ==
  LET m == OrFresh(Recalled(h))
      n == Len(readbacks) + 1
      g == [m.gate EXCEPT !.pending =
              [details |-> m.draft.details, turn |-> m.gate.turn, id |-> n]] IN
  /\ Body(h, "readback")
  /\ m.draft.booking = 0 /\ m.draft.details # None
  /\ n <= MaxReadbacks
  /\ readbacks' = Append(readbacks, m.draft.details)
  /\ memory' = [m EXCEPT !.gate = g]
  /\ Become(h, [handler[h] EXCEPT !.pc = "persist", !.patch = GatePatch(g)])
  /\ UNCHANGED <<row, restarts, said, agreed, booked>>

\* get_reservation_draft of a draft with nothing to confirm: it is incomplete,
\* or booked, and then reloaded from the bookings table.
ShowDraft(h) ==
  LET m == OrFresh(Recalled(h)) IN
  /\ Body(h, "readback")
  /\ memory' = Recalled(h)
  /\ \/ /\ m.draft.booking # 0
        /\ Become(h, [handler[h] EXCEPT !.pc = "lookup", !.found = m.draft.booking])
     \/ /\ m.draft.booking = 0 /\ m.draft.details = None
        /\ Finish(h)
  /\ UNCHANGED <<row, restarts, talk, booked>>

\* sync_confirmed_draft_from_booking
ApplyBooking(h) ==
  LET b == handler[h].found
      d == [details |-> booked[b].details, booking |-> b] IN
  /\ handler[h].pc = "lookup"
  /\ memory' = [OrFresh(memory) EXCEPT !.draft = d]
  /\ Become(h, [handler[h] EXCEPT !.pc = "persist",
                                  !.patch = [gate |-> None, draft |-> d]])
  /\ UNCHANGED <<row, restarts, talk, booked>>

\* The readback of an order, a change or a cancellation registers its own
\* record, without hydrating, and persists all of the gate's fields.
OtherReadback(h) ==
  LET m == OrFresh(memory) IN
  /\ Body(h, "other")
  /\ memory' = m
  /\ Become(h, [handler[h] EXCEPT !.pc = "persist", !.patch = GatePatch(m.gate)])
  /\ UNCHANGED <<row, restarts, talk, booked>>

\* persist_call_state
Persist(h) ==
  /\ handler[h].pc = "persist"
  /\ row' = Merged(row, handler[h].patch)
  /\ Finish(h)
  /\ UNCHANGED <<memory, restarts, talk, booked>>

-----------------------------------------------------------------------------
(* create_booking *)

ReadSession(h) ==
  /\ handler[h].pc = "session"
  /\ Become(h, [handler[h] EXCEPT !.pc = "gate", !.seen = row])
  /\ UNCHANGED <<memory, row, restarts, talk, booked>>

HasBooked(s) == s.draft # None /\ s.draft.booking # 0

\* Mutant: the turn of the readback itself may confirm it.
AcceptsSameTurn(g, d) ==
  /\ g.pending # None
  /\ g.pending.details = d
  /\ g.yes

\* require_pending_confirmation
Accepts(g, d) ==
  /\ g.pending # None
  /\ g.pending.details = d
  /\ g.yes
  /\ g.turn > g.pending.turn

\* clear_pending_confirmation
Cleared(m) == [OrFresh(m) EXCEPT !.gate.pending = None]

\* The call has a booking: answer with it.  The gate is shut, or its record
\* has expired and is dropped: refuse.  Else go on to find a table.
CheckGate(h) ==
  LET g == OrFresh(memory).gate IN
  /\ handler[h].pc = "gate"
  /\ \/ /\ HasBooked(handler[h].seen) \/ ~Accepts(g, handler[h].details)
        /\ Finish(h)
        /\ UNCHANGED memory
     \/ /\ ~HasBooked(handler[h].seen) /\ g.pending # None
        /\ memory' = Cleared(memory)
        /\ Finish(h)
     \/ /\ ~HasBooked(handler[h].seen) /\ Accepts(g, handler[h].details)
        /\ Become(h, [handler[h] EXCEPT !.pc = "insert", !.used = g.pending.id])
        /\ UNCHANGED memory
  /\ UNCHANGED <<row, restarts, talk, booked>>

\* Mutant: the patch for the row is taken before the record is cleared.
PatchThenClear(h) ==
  /\ handler[h].pc = "insert"
  /\ memory' = Cleared(memory)
  /\ Become(h, [handler[h] EXCEPT !.pc = "commit", !.patch = GatePatch(memory.gate)])
  /\ UNCHANGED <<row, restarts, talk, booked>>

\* The row is inserted, the record cleared in memory, the patch computed.
Insert(h) ==
  /\ handler[h].pc = "insert"
  /\ memory' = Cleared(memory)
  /\ Become(h, [handler[h] EXCEPT !.pc = "commit",
                                  !.patch = GatePatch(Cleared(memory).gate)])
  /\ UNCHANGED <<row, restarts, talk, booked>>

\* COMMIT publishes the booking and the patch together.
Commit(h) ==
  LET b == Len(booked) + 1 IN
  /\ handler[h].pc = "commit"
  /\ b <= MaxBookings
  /\ booked' = Append(booked, [details |-> handler[h].details,
                               readback |-> handler[h].used])
  /\ row' = Merged(row, [handler[h].patch EXCEPT
              !.draft = [details |-> handler[h].details, booking |-> b]])
  /\ Become(h, [handler[h] EXCEPT !.pc = "remember", !.found = b])
  /\ UNCHANGED <<memory, restarts, talk>>

\* set_active_booking, once the connection is back in the pool
Remember(h) ==
  /\ handler[h].pc = "remember"
  /\ memory' = [OrFresh(memory) EXCEPT !.draft =
       [details |-> handler[h].details, booking |-> handler[h].found]]
  /\ Finish(h)
  /\ UNCHANGED <<row, restarts, talk, booked>>

-----------------------------------------------------------------------------
(* Failures *)

\* A statement fails, no table is free, the task is cancelled at an await.
Fail(h) ==
  /\ handler[h] # Idle
  /\ Finish(h)
  /\ UNCHANGED <<memory, row, restarts, talk, booked>>

Restart ==
  /\ restarts < MaxRestarts
  /\ restarts' = restarts + 1
  /\ memory' = None
  /\ handler' = [h \in Handlers |-> Idle]
  /\ UNCHANGED <<row, talk, booked>>

Step(h) ==
  \/ Arrive(h) \/ ReadRow(h) \/ CallerTurn(h) \/ SaveDraft(h) \/ ReadBack(h)
  \/ ShowDraft(h) \/ ApplyBooking(h) \/ OtherReadback(h) \/ Persist(h)
  \/ ReadSession(h) \/ CheckGate(h) \/ Insert(h) \/ Commit(h) \/ Remember(h)
  \/ Fail(h)

Overlap == \E g, h \in Handlers : g # h /\ handler[g] # Idle /\ handler[h] # Idle

Next ==
  /\ Restart \/ \E h \in Handlers : Step(h)
  /\ overlapped' = (overlapped \/ Overlap')

Spec == Init /\ [][Next]_vars

-----------------------------------------------------------------------------
(* Properties *)

Memory == [gate : Gate, draft : Draft]

HandlerType ==
  [pc : {"idle", "read", "body", "persist", "lookup", "session", "gate",
         "insert", "commit", "remember"},
   op : Operations \cup {None}, details : Details \cup {None},
   seen : Patch, patch : Patch, found : Nat, used : Nat]

\* Every variable holds a value of its kind, and a draft in memory or in the
\* row names only a booking that was committed, not one that was rolled back.
TypeOK ==
  /\ memory \in Memory \cup {None}
  /\ row \in Patch
  /\ handler \in [Handlers -> HandlerType]
  /\ restarts \in Nat
  /\ said \in BOOLEAN /\ overlapped \in BOOLEAN
  /\ readbacks \in Seq(Details)
  /\ agreed \in 0..Len(readbacks)
  /\ booked \in Seq([details : Details, readback : Nat])
  /\ memory # None => memory.draft.booking <= Len(booked)
  /\ row.draft # None => row.draft.booking <= Len(booked)

Promise == INSTANCE Confirmation

\* Whatever is restored, overwritten or lost on the way, a booking is made with
\* the details of a readback that a later yes of the caller has covered.
ImplementsConfirmation == Promise!Spec

\* A pending readback is never ahead of the turn counter, in memory, in the row
\* or in a copy under way: the caller's next yes can always confirm it.
Ahead(g) == g.pending # None /\ g.pending.turn > g.turn

NextYesConfirms == memory # None => ~Ahead(memory.gate)

\* As long as no two requests of the call have overlapped, a readback is used
\* for one booking at most, wherever requests fail or the process dies.
SpentOnceIfSerial ==
  ~overlapped =>
    \A i, j \in 1..Len(booked) : i # j => booked[i].readback # booked[j].readback

\* "writes only succeed when this module has a live matching pending record and
\* the latest user utterance was classified affirmative"
\* (app/pending_confirmation.py:3-5).
LatestUtteranceIsYes ==
  [][\A h \in Handlers :
       handler[h].pc = "gate" /\ handler'[h].pc = "insert" => said]_vars
=============================================================================
