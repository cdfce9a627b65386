---------------------------- MODULE RetellHandler ----------------------------
(***************************************************************************)
(* The connections of one call (app/retell_handler.py): for each, the      *)
(* receive loop, the gate that admits one response id, the task that       *)
(* answers, and the behaviour state in memory; between them, the           *)
(* snapshot of that state in call_sessions, the saves under way, and the   *)
(* call control flags (app/call_flags.py).  A step is what a coroutine     *)
(* does between two awaits.  Retell counts its response ids upwards over   *)
(* the whole call.  A behaviour state is its version and what the handler  *)
(* reads of it; module Behavior has the reducer.                           *)
(***************************************************************************)
EXTENDS Naturals, FiniteSets

CONSTANTS
  Conns,      \* connections, each used once: a reconnection is another one
  Kinds,      \* requests Retell makes: see Kind
  None,
  MaxId,      \* bound on response ids
  MaxChunks,  \* bound on the chunks of one answer
  MaxStray    \* bound on cancellations that are swallowed

\* A reminder, a turn without user text, ordinary speech, and speech that
\* makes the reducer end the call.
Kind == {"reminder", "silent", "speech", "threat"}
KindsAreKnown == Kinds \subseteq Kind

VARIABLES
  loop,      \* [Conns -> "absent", "receiving", "cancelling", "closing", "closed"]
  sock,      \* [Conns -> BOOLEAN]: the socket is up
  active,    \* [Conns -> response id the gate allows]
  queued,    \* [Conns -> the request that waits for a cancellation, or None]
  task,      \* [Conns -> the task that answers, or None]
  behavior,  \* [Conns -> behaviour state in memory]
  greeted,   \* [Conns -> greeting_sent]
  wire,      \* [Conns -> last response event sent]
  controls,  \* _control_flags: [scope, by] of requests to end or transfer
  snapshot,  \* behavior_state in call_sessions
  saves,     \* saves under way
  nextId,    \* the next response id of Retell
  stray      \* cancellations swallowed so far

conns == <<loop, sock, active, queued>>
vars == <<loop, sock, active, queued, task, behavior, greeted, wire, controls,
          snapshot, saves, nextId, stray>>

Fresh == [version |-> 0, ended |-> FALSE, greeted |-> FALSE]
NoEvent == [id |-> 0, complete |-> FALSE, control |-> 0, ends |-> FALSE]

\* What the reducer makes of a request.
Reduce(b, kind) ==
  [b EXCEPT !.version = @ + 1, !.ended = @ \/ kind = "threat"]

NewTask(id, kind) ==
  [id |-> id, kind |-> kind, stage |-> "start", staged |-> None, event |-> NoEvent,
   then |-> "done", run |-> FALSE, chunks |-> 0, cancelled |-> FALSE]

\* ResponseGenerationGate.allows
Allows(c, id) == active[c] = id

\* The control a generation asked for, and the flags without those of a scope.
Requested(id) == {k \in controls : k.scope = id}
WithoutControl(id) == {k \in controls : k.scope # id}

Live(c) == task[c] # None
\* A task takes its next step unless it is about to see its cancellation.
At(c, stage) == Live(c) /\ task[c].stage = stage /\ ~task[c].cancelled

Goto(c, stage) == task' = [task EXCEPT ![c].stage = stage]

\* send_response is entered with this event and followed by "then".
PutEvent(t, complete, control, ends, then) ==
  [t EXCEPT !.stage = "put", !.then = then,
            !.event = [id |-> t.id, complete |-> complete, control |-> control,
                       ends |-> ends]]
Put(c, complete, control, ends, then) ==
  task' = [task EXCEPT ![c] = PutEvent(@, complete, control, ends, then)]

\* The task ends: process_interaction clears the control of a response that
\* is no longer wanted.
Finish(c) ==
  /\ task' = [task EXCEPT ![c] = None]
  /\ controls' = IF Allows(c, task[c].id) THEN controls
                 ELSE WithoutControl(task[c].id)
-----------------------------------------------------------------------------
(* The receive loop.                                                       *)

Connect(c) ==
  /\ loop[c] = "absent"
  /\ loop' = [loop EXCEPT ![c] = "receiving"]
  /\ behavior' = [behavior EXCEPT ![c] = snapshot]
  /\ greeted' = [greeted EXCEPT ![c] = snapshot.greeted]
  /\ UNCHANGED <<sock, active, queued, task, wire, controls, snapshot, saves, nextId, stray>>

\* A request opens the gate for its id and cancels the task before it; the
\* task that answers it is created once that one has ended.
Receive(c, kind) ==
  /\ loop[c] = "receiving" /\ sock[c]
  /\ nextId <= MaxId
  /\ nextId' = nextId + 1
  /\ active' = [active EXCEPT ![c] = nextId]
  /\ IF Live(c)
     THEN /\ loop' = [loop EXCEPT ![c] = "cancelling"]
          /\ queued' = [queued EXCEPT ![c] = [kind |-> kind, cancels |-> task[c].id]]
          /\ task' = [task EXCEPT ![c].cancelled = TRUE]
     ELSE /\ task' = [task EXCEPT ![c] = NewTask(nextId, kind)]
          /\ UNCHANGED <<loop, queued>>
  /\ UNCHANGED <<sock, behavior, greeted, wire, controls, snapshot, saves, stray>>

\* cancel_current returns, and the request that waited gets its task.
Cancelled(c) ==
  /\ loop[c] = "cancelling" /\ ~Live(c)
  /\ loop' = [loop EXCEPT ![c] = "receiving"]
  /\ queued' = [queued EXCEPT ![c] = None]
  /\ task' = [task EXCEPT ![c] = NewTask(active[c], queued[c].kind)]
  /\ controls' = WithoutControl(queued[c].cancels)
  /\ UNCHANGED <<sock, active, behavior, greeted, wire, snapshot, saves, nextId, stray>>

\* The line goes down: sends fail from now on, and the loop learns of it when
\* it next receives.
Lose(c) ==
  /\ loop[c] # "absent" /\ sock[c]
  /\ sock' = [sock EXCEPT ![c] = FALSE]
  /\ UNCHANGED <<loop, active, queued, task, behavior, greeted, wire, controls, snapshot, saves, nextId, stray>>

Close(c) ==
  /\ loop[c] = "receiving" /\ ~sock[c]
  /\ loop' = [loop EXCEPT ![c] = IF Live(c) THEN "closing" ELSE "closed"]
  /\ task' = IF Live(c) THEN [task EXCEPT ![c].cancelled = TRUE] ELSE task
  /\ queued' = [queued EXCEPT ![c] = IF Live(c) THEN [kind |-> "silent", cancels |-> task[c].id] ELSE None]
  /\ UNCHANGED <<sock, active, behavior, greeted, wire, controls, snapshot, saves, nextId, stray>>

Closed(c) ==
  /\ loop[c] = "closing" /\ ~Live(c)
  /\ loop' = [loop EXCEPT ![c] = "closed"]
  /\ controls' = WithoutControl(queued[c].cancels)
  /\ UNCHANGED <<sock, active, queued, task, behavior, greeted, wire, snapshot, saves, nextId, stray>>
-----------------------------------------------------------------------------
(* The task that answers.                                                  *)

\* mark_greeting_sent: the flag is set at once, the state saved and awaited
\* only the first time.
MarkGreeting(c, then) ==
  /\ greeted' = [greeted EXCEPT ![c] = TRUE]
  /\ IF behavior[c].greeted
     THEN /\ task' = [task EXCEPT ![c] = IF then = "done" THEN None
                                         ELSE [@ EXCEPT !.stage = then]]
          /\ UNCHANGED <<behavior, saves>>
     ELSE /\ behavior' = [behavior EXCEPT ![c].greeted = TRUE]
          /\ saves' = saves \cup {[state |-> behavior'[c], by |-> c]}
          /\ task' = [task EXCEPT ![c].stage = "marking", ![c].then = then]

\* As Start below, with a reminder counted before it is given.
StartEager(c) ==
  /\ At(c, "start")
  /\ LET t == task[c]
         staged == Reduce(behavior[c], t.kind)
     IN IF t.kind = "reminder"
        THEN /\ Put(c, TRUE, 0, staged.ended, "done")
             /\ behavior' = [behavior EXCEPT ![c] = staged]
             /\ UNCHANGED <<greeted, saves>>
        ELSE IF t.kind = "silent"
        THEN /\ Put(c, TRUE, 0, FALSE, IF greeted[c] THEN "done" ELSE "mark")
             /\ UNCHANGED <<behavior, greeted, saves>>
        ELSE MarkGreeting(c, "caller")
  /\ UNCHANGED <<conns, wire, controls, snapshot, nextId, stray>>

Start(c) ==
  /\ At(c, "start")
  /\ LET t == task[c]
         staged == Reduce(behavior[c], t.kind)
     IN \/ /\ t.kind = "reminder"
           /\ task' = [task EXCEPT ![c] =
                PutEvent([t EXCEPT !.staged = staged], TRUE, 0, staged.ended, "commit")]
           /\ UNCHANGED <<behavior, greeted, saves>>
        \/ /\ t.kind = "silent"
           /\ Put(c, TRUE, 0, FALSE, IF greeted[c] THEN "done" ELSE "mark")
           /\ UNCHANGED <<behavior, greeted, saves>>
        \/ /\ t.kind \in {"speech", "threat"}
           /\ MarkGreeting(c, "caller")
  /\ UNCHANGED <<conns, wire, controls, snapshot, nextId, stray>>

\* process_caller_turn: it answers by itself, or fails, or leaves the turn to
\* the behaviour directive and the language model.
CallerTurn(c) ==
  /\ At(c, "caller")
  /\ LET t == task[c]
         staged == Reduce(behavior[c], t.kind)
     IN \/ /\ ~Allows(c, t.id)
           /\ Finish(c)
        \/ /\ Allows(c, t.id)
           /\ Put(c, TRUE, 0, FALSE, "done")
           /\ UNCHANGED controls
        \/ /\ Allows(c, t.id)
           /\ task' = [task EXCEPT ![c] =
                IF staged.ended
                THEN PutEvent([t EXCEPT !.staged = staged], TRUE, 0, TRUE, "commit")
                ELSE [t EXCEPT !.staged = staged, !.stage = "stream", !.run = TRUE]]
           /\ UNCHANGED controls
  /\ UNCHANGED <<conns, behavior, greeted, wire, snapshot, saves, nextId, stray>>

\* A chunk of the answer of the language model.
Chunk(c) ==
  /\ At(c, "stream") /\ task[c].chunks < MaxChunks
  /\ task' = [task EXCEPT ![c] =
       PutEvent([@ EXCEPT !.chunks = task[c].chunks + 1], FALSE, 0, FALSE, "stream")]
  /\ UNCHANGED <<conns, behavior, greeted, wire, controls, snapshot, saves, nextId, stray>>

\* As RequestControl below, with one flag for the whole call.
RequestControlUnscoped(c) ==
  /\ At(c, "stream")
  /\ Requested(nextId - 1) = {}
  /\ controls' = controls \cup {[scope |-> s, by |-> task[c].id] : s \in 1 .. MaxId}
  /\ UNCHANGED <<conns, task, behavior, greeted, wire, snapshot, saves, nextId, stray>>

\* A tool of the generation asks to end or to transfer the call.
RequestControl(c) ==
  /\ At(c, "stream")
  /\ Requested(task[c].id) = {}
  /\ controls' = controls \cup {[scope |-> task[c].id, by |-> task[c].id]}
  /\ UNCHANGED <<conns, task, behavior, greeted, wire, snapshot, saves, nextId, stray>>

\* The answer is complete, with the control that was asked for.
Complete(c) ==
  /\ At(c, "stream")
  /\ LET t == task[c]
     IN IF Allows(c, t.id)
        THEN /\ controls' = WithoutControl(t.id)
             /\ \E by \in IF Requested(t.id) = {} THEN {0}
                          ELSE {k.by : k \in Requested(t.id)} :
                  Put(c, TRUE, by, FALSE, "commit")
        ELSE Finish(c)
  /\ UNCHANGED <<conns, behavior, greeted, wire, snapshot, saves, nextId, stray>>

\* As Error below, with nothing said.
ErrorSilent(c) ==
  /\ At(c, "stream") \/ At(c, "caller")
  /\ Finish(c)
  /\ UNCHANGED <<conns, behavior, greeted, wire, snapshot, saves, nextId, stray>>

\* An error in the stream or before it: a fixed sentence completes the answer.
\* One in the stream counts as completed, so the turn is committed after it.
Error(c) ==
  /\ At(c, "stream") \/ At(c, "caller")
  /\ IF Allows(c, task[c].id)
     THEN /\ Put(c, TRUE, 0, FALSE, IF task[c].run THEN "commit" ELSE "done")
          /\ UNCHANGED controls
     ELSE Finish(c)
  /\ UNCHANGED <<conns, behavior, greeted, wire, snapshot, saves, nextId, stray>>
-----------------------------------------------------------------------------
(* Sending.                                                                *)

\* As Emit below, with the gate asked only after the send.
EmitUnguarded(c) ==
  /\ At(c, "put")
  /\ LET e == task[c].event
     IN IF sock[c]
        THEN /\ wire' = [wire EXCEPT ![c] = e]
             /\ Goto(c, "sent")
             /\ UNCHANGED controls
        ELSE /\ Finish(c)
             /\ UNCHANGED wire
  /\ UNCHANGED <<conns, behavior, greeted, snapshot, saves, nextId, stray>>

\* send_response: with the lock held the gate is asked and the event given to
\* the socket; a send on a dead line fails, as do the answers to the failure.
Emit(c) ==
  /\ At(c, "put")
  /\ LET e == task[c].event
     IN IF Allows(c, e.id) /\ sock[c]
        THEN /\ wire' = [wire EXCEPT ![c] = e]
             /\ Goto(c, "sent")
             /\ UNCHANGED controls
        ELSE /\ Finish(c)
             /\ UNCHANGED wire
  /\ UNCHANGED <<conns, behavior, greeted, snapshot, saves, nextId, stray>>

\* commit_behavior: the staged state becomes the state of the connection, and
\* a save of it is started without waiting.
CommitBehavior(c) ==
  /\ behavior' = [behavior EXCEPT ![c] = task[c].staged]
  /\ saves' = saves \cup {[state |-> task[c].staged, by |-> None]}

\* The send has returned and the gate is asked once more.
Sent(c) ==
  /\ At(c, "sent")
  /\ LET t == task[c]
     IN \/ /\ ~Allows(c, t.id) \/ t.then = "done"
           /\ Finish(c)
           /\ UNCHANGED <<behavior, greeted, saves>>
        \/ /\ Allows(c, t.id) /\ t.then = "stream"
           /\ Goto(c, "stream")
           /\ UNCHANGED <<behavior, greeted, saves, controls>>
        \/ /\ Allows(c, t.id) /\ t.then = "mark"
           /\ MarkGreeting(c, "done")
           /\ UNCHANGED controls
        \/ /\ Allows(c, t.id) /\ t.then = "commit"
           /\ CommitBehavior(c)
           /\ Finish(c)
           /\ UNCHANGED greeted
  /\ UNCHANGED <<conns, wire, snapshot, nextId, stray>>

\* The save that the greeting waits for has ended, one way or the other.
Marked(c) ==
  /\ At(c, "marking")
  /\ ~\E s \in saves : s.by = c
  /\ IF task[c].then = "done"
     THEN Finish(c)
     ELSE Goto(c, task[c].then) /\ UNCHANGED controls
  /\ UNCHANGED <<conns, behavior, greeted, wire, snapshot, saves, nextId, stray>>

\* A cancelled task ends.  Its finalizer would close an answer that is still
\* wanted, which only a dead line leaves it; a save it waited for is dropped.
Unwind(c) ==
  /\ Live(c) /\ task[c].cancelled
  /\ saves' = {s \in saves : s.by # c}
  /\ Finish(c)
  /\ UNCHANGED <<conns, behavior, greeted, wire, snapshot, nextId, stray>>

\* The caller turn or the stream swallows the cancellation and goes on.
Swallow(c) ==
  /\ Live(c) /\ task[c].cancelled
  /\ task[c].stage \in {"caller", "stream"}
  /\ stray < MaxStray
  /\ stray' = stray + 1
  /\ task' = [task EXCEPT ![c].cancelled = FALSE]
  /\ UNCHANGED <<conns, behavior, greeted, wire, controls, snapshot, saves, nextId>>

\* A save reaches the database, or fails and is only logged.
Land(s) ==
  /\ s \in saves
  /\ saves' = saves \ {s}
  /\ snapshot' \in {s.state, snapshot}
  /\ UNCHANGED <<conns, task, behavior, greeted, wire, controls, nextId, stray>>
-----------------------------------------------------------------------------
Init ==
  /\ loop = [c \in Conns |-> "absent"]
  /\ sock = [c \in Conns |-> TRUE]
  /\ active = [c \in Conns |-> 0]
  /\ queued = [c \in Conns |-> None]
  /\ task = [c \in Conns |-> None]
  /\ behavior = [c \in Conns |-> Fresh]
  /\ greeted = [c \in Conns |-> FALSE]
  /\ wire = [c \in Conns |-> NoEvent]
  /\ controls = {} /\ snapshot = Fresh /\ saves = {}
  /\ nextId = 1 /\ stray = 0

Loop(c) ==
  \/ Connect(c)
  \/ \E kind \in Kinds : Receive(c, kind)
  \/ Cancelled(c) \/ Lose(c) \/ Close(c) \/ Closed(c)

Answer(c) ==
  \/ Start(c) \/ CallerTurn(c) \/ Chunk(c) \/ RequestControl(c) \/ Complete(c)
  \/ Error(c) \/ Emit(c) \/ Sent(c) \/ Marked(c) \/ Unwind(c) \/ Swallow(c)

Next ==
  \/ \E c \in Conns : Loop(c) \/ Answer(c)
  \/ \E s \in saves : Land(s)

Spec == Init /\ [][Next]_vars

\* The event loop runs every coroutine that can go on; the language model
\* answers or fails in the end, and a save ends.
Fairness ==
  /\ \A c \in Conns :
       /\ WF_vars(Start(c)) /\ WF_vars(CallerTurn(c))
       /\ WF_vars(Complete(c) \/ Error(c))
       /\ WF_vars(Emit(c)) /\ WF_vars(Sent(c)) /\ WF_vars(Marked(c))
       /\ WF_vars(Unwind(c))
       /\ WF_vars(Cancelled(c)) /\ WF_vars(Close(c)) /\ WF_vars(Closed(c))
  /\ WF_vars(\E s \in saves : Land(s))

-----------------------------------------------------------------------------
(* Properties.                                                             *)

\* Each connection keeps the protocol of ResponseTurns: no stale answer
\* reaches the caller, and nothing follows a complete one.
Turns ==
  INSTANCE ResponseTurns WITH
    Ids <- 1 .. MaxId,
    asked <- active,
    said <- [c \in Conns |-> [id |-> wire[c].id, complete |-> wire[c].complete]],
    up <- sock
ImplementsTurns == Turns!Spec

\* Retell never waits forever: each request on each connection is answered to
\* the end unless a newer one comes or the line goes down.
EveryTurnIsAnswered == \A c \in Conns, id \in 1 .. MaxId : Turns!Answered(c, id)

\* A call is ended or transferred only by the answer whose own generation
\* asked for it, never by a later one that finds the flag, in any connection.
ControlIsOwn == \A c \in Conns : wire[c].control \in {0, wire[c].id}

\* The behaviour state moves on only with an answer the caller was given to
\* the end, and that is still the one wanted: turns that were interrupted
\* leave no strike and no silence behind.
CommittedWasDelivered ==
  [][\A c \in Conns :
       loop[c] # "absent" /\ behavior'[c].version # behavior[c].version =>
         wire[c].id = active[c] /\ wire[c].complete]_vars

=============================================================================
