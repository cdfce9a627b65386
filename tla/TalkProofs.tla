------------------------------ MODULE TalkProofs ------------------------------
(* Proofs of Talk.  Of the connections: whatever is interrupted, lost,        *)
(* swallowed or reconnected, no stale answer reaches the caller, nothing      *)
(* follows a complete one, a control belongs to the answer that carries it,   *)
(* and the behaviour state moves on with delivered answers only.  Of the      *)
(* reducer: however many turns of whatever kinds there are, a call ends for a *)
(* cause, an upset caller is met calmly, and what was asked for beats what    *)
(* was measured, which a few noisy samples do not change.                    *)
EXTENDS Talk, FiniteSetTheorems, SequenceTheorems, WellFoundedInduction, TLAPS

-----------------------------------------------------------------------------
(* The connections. *)

State == [version : Nat, ended : BOOLEAN, greeted : BOOLEAN]
Event == [id : Nat, complete : BOOLEAN, control : Nat, ends : BOOLEAN]
Stages == {"start", "caller", "stream", "put", "sent", "marking"}
Loops == {"absent", "receiving", "cancelling", "closing", "closed"}
Thens == {"done", "commit", "stream", "mark", "caller"}
Task ==
  [id : Nat \ {0}, kind : Kinds, stage : Stages, staged : State \cup {None}, event : Event,
   then : Thens, run : BOOLEAN, chunks : Nat, cancelled : BOOLEAN]

\* Every variable the properties depend on holds a value of its kind; a flag
\* was set by the generation in whose scope it lies.
Typed ==
  /\ nextId \in Nat \ {0}
  /\ active \in [Conns -> Nat]
  /\ sock \in [Conns -> BOOLEAN]
  /\ loop \in [Conns -> Loops]
  /\ queued \in [Conns -> [kind : Kinds \cup {"silent"}, cancels : Nat] \cup {None}]
  /\ wire \in [Conns -> Event]
  /\ behavior \in [Conns -> State]
  /\ task \in [Conns -> Task \cup {None}]
  /\ snapshot \in State
  /\ \A s \in saves : s.state \in State
  /\ \A k \in controls : k.scope \in Nat /\ k.by = k.scope

\* A task that may still speak.
Speaking(t) ==
  \/ t.stage \in {"start", "caller", "stream", "put"}
  \/ t.stage = "marking" /\ t.then = "caller"
  \/ t.stage = "sent" /\ t.then = "stream"

\* What the task t of a connection knows of the gate and of the wire.
Fits(t, c) ==
  /\ t.id <= active[c]
  /\ loop[c] = "cancelling" => t.id # active[c]
  /\ Speaking(t) /\ t.id = active[c] => ~(wire[c].id = active[c] /\ wire[c].complete)
  /\ t.stage \in {"put", "sent"} =>
       /\ t.event.id = t.id /\ t.event.control \in {0, t.id}
       /\ t.event.complete <=> t.then # "stream"
  /\ t.stage = "sent" => wire[c] = t.event
  /\ t.stage = "start" => t.then = "done"
  /\ t.stage = "marking" => t.then \in {"done", "caller"}
  /\ t.stage = "stream" \/ t.run \/ t.then \in {"commit", "stream"} => t.staged \in State

ConnFits(c) ==
  /\ active[c] < nextId
  /\ wire[c].id <= active[c]
  /\ wire[c].control \in {0, wire[c].id}
  /\ loop[c] = "cancelling" =>
       wire[c].id # active[c] /\ active[c] # 0 /\ queued[c].kind \in Kinds
  /\ Live(c) => Fits(task[c], c)

Inv == Typed /\ \A c \in Conns : ConnFits(c)

-----------------------------------------------------------------------------
\* What a step of one connection leaves alone of the others.
Apart(c) ==
  \A d \in Conns \ {c} :
    /\ active'[d] = active[d] /\ wire'[d] = wire[d] /\ loop'[d] = loop[d]
    /\ task'[d] = task[d] /\ queued'[d] = queued[d]

\* A connection keeps its invariant while another one moves.
LEMMA OthersKeep ==
  ASSUME Inv, NEW c \in Conns, Apart(c), nextId' \in Nat, nextId' >= nextId, ConnFits(c)'
  PROVE  \A d \in Conns : ConnFits(d)'
<1> SUFFICES ASSUME NEW d \in Conns, d # c PROVE ConnFits(d)'
  OBVIOUS
<1>1. ConnFits(d)
  BY DEF Inv
<1>2. /\ active'[d] = active[d] /\ wire'[d] = wire[d] /\ loop'[d] = loop[d]
      /\ task'[d] = task[d] /\ queued'[d] = queued[d]
  BY DEF Apart
<1>3. active[d] < nextId'
  BY <1>1 DEF ConnFits, Inv, Typed
<1> QED BY <1>1, <1>2, <1>3 DEF ConnFits, Fits, Live

-----------------------------------------------------------------------------
(* The receive loop.                                                       *)

\* Accepting, receiving, cancelling, losing and closing a connection keep the
\* invariant.
LEMMA LoopKeeps ==
  ASSUME MaxId \in Nat, Inv, NEW c \in Conns, Loop(c)
  PROVE  Inv'
<1> USE DEF Inv
<1>1. ConnFits(c) /\ Typed
  OBVIOUS
<1>2. CASE Connect(c)
  <2>1. Typed'
    BY <1>2, <1>1 DEF Connect, Typed, State, Loops
  <2>2. Apart(c) /\ nextId' \in Nat /\ nextId' >= nextId
    BY <1>2, <1>1 DEF Connect, Apart, Typed
  <2>3. ConnFits(c)'
    BY <1>2, <1>1 DEF Connect, ConnFits, Fits, Live, Typed
  <2> QED BY <2>1, <2>2, <2>3, OthersKeep
<1>3. ASSUME NEW kind \in Kinds, Receive(c, kind) PROVE Inv'
  <2>1. CASE Live(c)
    <3>1. task[c] \in Task
      BY <1>1, <2>1 DEF Typed, Live
    <3>2. /\ task' = [task EXCEPT ![c] = [task[c] EXCEPT !.cancelled = TRUE]]
          /\ queued' = [queued EXCEPT ![c] = [kind |-> kind, cancels |-> task[c].id]]
          /\ loop' = [loop EXCEPT ![c] = "cancelling"]
      BY <1>3, <2>1 DEF Receive
    <3>3. [task[c] EXCEPT !.cancelled = TRUE] \in Task
      BY <3>1 DEF Task
    <3>4. Typed'
      BY <1>3, <1>1, <3>1, <3>2, <3>3 DEF Receive, Typed, Task, Loops
    <3>5. Apart(c) /\ nextId' \in Nat /\ nextId' >= nextId
      BY <1>3, <1>1, <3>2 DEF Receive, Apart, Typed
    <3>6. ConnFits(c)'
      <4>1. /\ active'[c] = nextId /\ nextId' = nextId + 1 /\ wire' = wire
            /\ queued'[c] = [kind |-> kind, cancels |-> task[c].id] /\ queued'[c].kind = kind
            /\ task'[c] = [task[c] EXCEPT !.cancelled = TRUE]
            /\ loop'[c] = "cancelling"
        BY <1>3, <1>1, <3>2 DEF Receive, Typed
      <4>2. /\ wire[c].id < nextId /\ task[c].id < nextId /\ nextId # 0
            /\ wire[c].id \in Nat /\ task[c].id \in Nat /\ nextId \in Nat
        BY <1>1, <2>1, <3>1 DEF ConnFits, Fits, Typed, Task, Event
      <4> QED BY <1>1, <2>1, <3>1, <4>1, <4>2 DEF ConnFits, Fits, Live, Speaking, Task
    <3> QED BY <3>4, <3>5, <3>6, OthersKeep
  <2>2. CASE ~Live(c)
    <3>1. /\ task' = [task EXCEPT ![c] = NewTask(nextId, kind)]
          /\ active' = [active EXCEPT ![c] = nextId] /\ nextId' = nextId + 1
          /\ UNCHANGED <<loop, queued, sock, behavior, greeted, wire, controls, snapshot, saves>>
          /\ loop[c] = "receiving"
      BY <1>3, <2>2 DEF Receive
    <3>2. NewTask(nextId, kind) \in Task
      BY <1>1 DEF NewTask, NoEvent, Typed, Task, Stages, Thens, Event
    <3>3. Typed'
      BY <1>1, <3>1, <3>2 DEF Typed, Loops
    <3>4. Apart(c) /\ nextId' \in Nat /\ nextId' >= nextId
      BY <1>1, <3>1 DEF Apart, Typed
    <3>5. ConnFits(c)'
      <4>1. /\ active'[c] = nextId /\ nextId' = nextId + 1 /\ wire' = wire
            /\ task'[c] = NewTask(nextId, kind) /\ loop'[c] = "receiving"
        BY <1>1, <3>1 DEF Typed
      <4>2. wire[c].id < nextId /\ wire[c].id \in Nat /\ nextId \in Nat
        BY <1>1 DEF ConnFits, Typed, Event
      <4>3. Fits(task[c], c)'
        BY <1>1, <4>1, <4>2 DEF Fits, NewTask, Speaking
      <4> QED BY <1>1, <4>1, <4>2, <4>3 DEF ConnFits
    <3> QED BY <3>3, <3>4, <3>5, OthersKeep
  <2> QED BY <2>1, <2>2
<1>4. CASE Cancelled(c)
  <2>1. /\ task' = [task EXCEPT ![c] = NewTask(active[c], queued[c].kind)]
        /\ loop' = [loop EXCEPT ![c] = "receiving"]
        /\ queued' = [queued EXCEPT ![c] = None]
        /\ controls' \subseteq controls
        /\ UNCHANGED <<sock, active, behavior, greeted, wire, snapshot, saves, nextId>>
        /\ loop[c] = "cancelling"
    BY <1>4 DEF Cancelled, WithoutControl
  <2>2. /\ active[c] \in Nat \ {0} /\ wire[c].id # active[c] /\ queued[c].kind \in Kinds
    BY <1>1, <2>1 DEF ConnFits, Typed
  <2>3. NewTask(active[c], queued[c].kind) \in Task
    BY <2>2 DEF NewTask, NoEvent, Task, Stages, Thens, Event
  <2>4. Typed'
    BY <1>1, <2>1, <2>3 DEF Typed, Loops
  <2>5. Apart(c) /\ nextId' \in Nat /\ nextId' >= nextId
    BY <1>1, <2>1 DEF Apart, Typed
  <2>6. ConnFits(c)'
    <3>1. /\ task'[c] = NewTask(active[c], queued[c].kind) /\ loop'[c] = "receiving"
          /\ active' = active /\ wire' = wire /\ nextId' = nextId
      BY <1>1, <2>1 DEF Typed
    <3>2. Fits(task[c], c)'
      BY <2>2, <3>1 DEF Fits, NewTask, Speaking
    <3> QED BY <1>1, <3>1, <3>2 DEF ConnFits
  <2> QED BY <2>4, <2>5, <2>6, OthersKeep
<1>5. CASE Lose(c)
  <2>1. Typed'
    BY <1>5, <1>1 DEF Lose, Typed, Loops
  <2>2. Apart(c) /\ nextId' \in Nat /\ nextId' >= nextId
    BY <1>5, <1>1 DEF Lose, Apart, Typed
  <2>3. ConnFits(c)'
    BY <1>5, <1>1 DEF Lose, ConnFits, Fits, Live
  <2> QED BY <2>1, <2>2, <2>3, OthersKeep
<1>6. CASE Close(c)
  <2>1. CASE Live(c)
    <3>1. task[c] \in Task
      BY <1>1, <2>1 DEF Typed, Live
    <3>2. /\ task' = [task EXCEPT ![c] = [task[c] EXCEPT !.cancelled = TRUE]]
          /\ queued' = [queued EXCEPT ![c] = [kind |-> "silent", cancels |-> task[c].id]]
          /\ loop' = [loop EXCEPT ![c] = "closing"]
          /\ UNCHANGED <<sock, active, behavior, greeted, wire, controls, snapshot, saves, nextId>>
      BY <1>6, <2>1 DEF Close
    <3>3. [task[c] EXCEPT !.cancelled = TRUE] \in Task
      BY <3>1 DEF Task
    <3>4. Typed'
      BY <1>1, <3>1, <3>2, <3>3 DEF Typed, Task, Loops
    <3>5. Apart(c) /\ nextId' \in Nat /\ nextId' >= nextId
      BY <1>1, <3>2 DEF Apart, Typed
    <3>6. ConnFits(c)'
      <4>1. /\ task'[c] = [task[c] EXCEPT !.cancelled = TRUE] /\ loop'[c] = "closing"
            /\ active' = active /\ wire' = wire /\ nextId' = nextId
        BY <1>1, <3>2 DEF Typed
      <4> QED BY <1>1, <2>1, <3>1, <4>1 DEF ConnFits, Fits, Live, Speaking, Task
    <3> QED BY <3>4, <3>5, <3>6, OthersKeep
  <2>2. CASE ~Live(c)
    <3>1. /\ loop' = [loop EXCEPT ![c] = "closed"] /\ queued' = [queued EXCEPT ![c] = None]
          /\ UNCHANGED <<task, sock, active, behavior, greeted, wire, controls, snapshot, saves, nextId>>
      BY <1>6, <2>2 DEF Close
    <3>2. Typed'
      BY <1>1, <3>1 DEF Typed, Loops
    <3>3. Apart(c) /\ nextId' \in Nat /\ nextId' >= nextId
      BY <1>1, <3>1 DEF Apart, Typed
    <3>4. ConnFits(c)'
      BY <1>1, <2>2, <3>1 DEF ConnFits, Live, Typed
    <3> QED BY <3>2, <3>3, <3>4, OthersKeep
  <2> QED BY <2>1, <2>2
<1>7. CASE Closed(c)
  <2>1. /\ loop' = [loop EXCEPT ![c] = "closed"] /\ controls' \subseteq controls
        /\ UNCHANGED <<task, queued, sock, active, behavior, greeted, wire, snapshot, saves, nextId>>
        /\ ~Live(c)
    BY <1>7 DEF Closed, WithoutControl
  <2>2. Typed'
    BY <1>1, <2>1 DEF Typed, Loops
  <2>3. Apart(c) /\ nextId' \in Nat /\ nextId' >= nextId
    BY <1>1, <2>1 DEF Apart, Typed
  <2>4. ConnFits(c)'
    BY <1>1, <2>1 DEF ConnFits, Live, Typed
  <2> QED BY <2>2, <2>3, <2>4, OthersKeep
<1> QED BY <1>2, <1>3, <1>4, <1>5, <1>6, <1>7 DEF Loop

-----------------------------------------------------------------------------
(* The task that answers.                                                  *)

\* A step of a task that leaves the wire alone keeps the invariant if the task
\* it leaves fits.
LEMMA TaskStep ==
  ASSUME Inv, NEW c \in Conns, NEW x \in Task \cup {None},
         task' = [task EXCEPT ![c] = x],
         UNCHANGED <<conns, wire, nextId>>,
         behavior' \in [Conns -> State], snapshot' \in State,
         \A s \in saves' : s.state \in State,
         \A k \in controls' : k.scope \in Nat /\ k.by = k.scope,
         x # None => Fits(x, c)
  PROVE  Inv'
<1>1. ConnFits(c) /\ Typed
  BY DEF Inv
<1>2. Typed'
  BY <1>1 DEF Typed, conns
<1>3. Apart(c) /\ nextId' \in Nat /\ nextId' >= nextId
  BY <1>1 DEF Apart, Typed, conns
<1>4. ConnFits(c)'
  <2>1. task'[c] = x
    BY <1>1 DEF Typed
  <2>2. x # None => Fits(x, c)'
    BY DEF Fits, conns
  <2> QED BY <1>1, <2>1, <2>2 DEF ConnFits, Live, conns
<1> QED BY <1>2, <1>3, <1>4, OthersKeep DEF Inv

\* A task that is about to take its next step, with what fits it.
LEMMA Acting ==
  ASSUME Inv, NEW c \in Conns, NEW stage, At(c, stage)
  PROVE  /\ task[c] \in Task /\ task[c].stage = stage /\ Fits(task[c], c)
         /\ active[c] \in Nat /\ behavior[c] \in State
BY DEF Inv, Typed, ConnFits, At, Live

\* Ending a task keeps the invariant.
LEMMA FinishKeeps ==
  ASSUME Inv, NEW c \in Conns, Finish(c), UNCHANGED <<conns, wire, nextId, snapshot>>,
         behavior' \in [Conns -> State], \A s \in saves' : s.state \in State
  PROVE  Inv'
<1>1. task' = [task EXCEPT ![c] = None] /\ controls' \subseteq controls
  BY DEF Finish, WithoutControl
<1>2. \A k \in controls' : k.scope \in Nat /\ k.by = k.scope
  BY <1>1 DEF Inv, Typed
<1>3. snapshot' \in State
  BY DEF Inv, Typed
<1> QED BY <1>1, <1>2, <1>3, TaskStep

\* An event that is given to send_response belongs to the task's own turn, and
\* completes it unless the stream goes on.
LEMMA PutFits ==
  ASSUME NEW c \in Conns, NEW t \in Task, Fits(t, c), Speaking(t), active[c] \in Nat,
         NEW complete \in BOOLEAN, NEW control \in {0, t.id}, NEW ends \in BOOLEAN,
         NEW then \in {"done", "commit", "stream", "mark"},
         complete <=> then # "stream",
         then \in {"commit", "stream"} => t.staged \in State
  PROVE  /\ PutEvent(t, complete, control, ends, then) \in Task
         /\ Fits(PutEvent(t, complete, control, ends, then), c)
<1> DEFINE e == [id |-> t.id, complete |-> complete, control |-> control, ends |-> ends]
           x == PutEvent(t, complete, control, ends, then)
<1>1. e \in Event
  BY DEF Task, Event
<1>2. x = [t EXCEPT !.stage = "put", !.then = then, !.event = e]
  BY DEF PutEvent
<1> HIDE DEF e, x
<1>3. x \in Task
  BY <1>1, <1>2 DEF Task, Stages, Thens
<1>4. /\ x.stage = "put" /\ x.then = then /\ x.event = e /\ x.id = t.id
      /\ x.staged = t.staged /\ x.run = t.run
  BY <1>2 DEF Task
<1>5. e.id = t.id /\ e.control = control /\ e.complete = complete
  BY DEF e
<1>6. Fits(x, c)
  BY <1>4, <1>5 DEF Fits, Speaking
<1> QED BY <1>3, <1>6 DEF x

\* Marking the greeting keeps the invariant, before a turn and after a silence.
LEMMA MarkKeeps ==
  ASSUME Inv, NEW c \in Conns, NEW t \in Task, task[c] = t, Fits(t, c),
         NEW then \in {"done", "caller"}, then = "caller" => Speaking(t),
         t.then \notin {"commit", "stream"}, t.stage # "stream",
         MarkGreeting(c, then), UNCHANGED <<conns, wire, controls, snapshot, nextId>>
  PROVE  Inv'
<1>1. /\ behavior \in [Conns -> State] /\ snapshot \in State /\ active[c] \in Nat
      /\ \A s \in saves : s.state \in State
      /\ \A k \in controls : k.scope \in Nat /\ k.by = k.scope
  BY DEF Inv, Typed
<1>2. CASE behavior[c].greeted
  <2> DEFINE x == IF then = "done" THEN None ELSE [t EXCEPT !.stage = then]
  <2>1. task' = [task EXCEPT ![c] = x] /\ UNCHANGED <<behavior, saves>>
    BY <1>2 DEF MarkGreeting
  <2>2. ASSUME then = "caller" PROVE x \in Task /\ Fits(x, c)
    <3>1. x = [t EXCEPT !.stage = "caller"]
      BY <2>2
    <3> HIDE DEF x
    <3>2. x \in Task /\ x.stage = "caller" /\ x.id = t.id /\ x.then = t.then
          /\ x.staged = t.staged /\ x.run = t.run
      BY <3>1 DEF Task, Stages
    <3> QED BY <2>2, <3>2 DEF Fits
  <2>3. x \in Task \cup {None} /\ (x # None => Fits(x, c))
    BY <2>2
  <2> HIDE DEF x
  <2> QED BY <1>1, <2>1, <2>3, TaskStep
<1>3. CASE ~behavior[c].greeted
  <2> DEFINE x == [t EXCEPT !.stage = "marking", !.then = then]
  <2>1. /\ task' = [task EXCEPT ![c] = x]
        /\ behavior' = [behavior EXCEPT ![c].greeted = TRUE]
        /\ saves' = saves \cup {[state |-> behavior'[c], by |-> c]}
    BY <1>3 DEF MarkGreeting
  <2>2. behavior' \in [Conns -> State]
    BY <1>1, <2>1 DEF State
  <2>3. \A s \in saves' : s.state \in State
    <3> DEFINE b == behavior'[c]
    <3>1. b \in State /\ saves' = saves \cup {[state |-> b, by |-> c]}
      BY <2>1, <2>2
    <3> HIDE DEF b
    <3>2. [state |-> b, by |-> c].state = b
      OBVIOUS
    <3> QED BY <1>1, <3>1, <3>2
  <2>4. x \in Task /\ Fits(x, c)
    BY DEF Fits, Speaking, Task, Stages, Thens
  <2> HIDE DEF x
  <2> QED BY <1>1, <2>1, <2>2, <2>3, <2>4, TaskStep
<1> QED BY <1>2, <1>3

\* The state a request would lead to is a state.
LEMMA ReduceTyped ==
  ASSUME NEW b \in State, NEW kind
  PROVE  Reduce(b, kind) \in State
<1>1. (b.ended \/ kind = "threat") \in BOOLEAN /\ b.version + 1 \in Nat
  BY DEF State
<1> DEFINE e == b.ended \/ kind = "threat"
<1>2. Reduce(b, kind) = [b EXCEPT !.version = b.version + 1, !.ended = e]
  BY Zenon DEF Reduce
<1> HIDE DEF e
<1>3. e \in BOOLEAN
  BY <1>1 DEF e
<1> QED BY <1>1, <1>2, <1>3 DEF State

\* What starts an answer, makes it, and ends it keeps the invariant.
LEMMA AnswerKeeps ==
  ASSUME Inv, NEW c \in Conns, Answer(c)
  PROVE  Inv'
<1> DEFINE t == task[c]
<1>0. /\ behavior \in [Conns -> State] /\ snapshot \in State
      /\ \A s \in saves : s.state \in State
      /\ \A k \in controls : k.scope \in Nat /\ k.by = k.scope
  BY DEF Inv, Typed
<1>1. CASE Start(c)
  <2> DEFINE staged == Reduce(behavior[c], t.kind)
             s == [t EXCEPT !.staged = staged]
  <2>1. /\ t \in Task /\ t.stage = "start" /\ Fits(t, c) /\ active[c] \in Nat
        /\ staged \in State /\ staged.ended \in BOOLEAN
    BY <1>1, Acting, ReduceTyped DEF Start, State
  <2>2. Speaking(t)
    BY <2>1 DEF Speaking
  <2>3. CASE t.kind = "reminder"
    <3>1. /\ task' = [task EXCEPT ![c] = PutEvent(s, TRUE, 0, staged.ended, "commit")]
          /\ UNCHANGED <<behavior, greeted, saves, conns, wire, controls, snapshot, nextId>>
      BY <1>1, <2>3 DEF Start, MarkGreeting
    <3>2. /\ s \in Task /\ Fits(s, c) /\ Speaking(s) /\ s.staged \in State
      BY <2>1 DEF Task, Fits, Speaking
    <3>3. /\ PutEvent(s, TRUE, 0, staged.ended, "commit") \in Task
          /\ Fits(PutEvent(s, TRUE, 0, staged.ended, "commit"), c)
      <4> HIDE DEF s, staged
      <4> QED BY <2>1, <3>2, PutFits
    <3> HIDE DEF s, staged
    <3> QED BY <1>0, <3>1, <3>3, TaskStep
  <2>4. CASE t.kind = "silent"
    <3> DEFINE then == IF greeted[c] THEN "done" ELSE "mark"
    <3>1. /\ task' = [task EXCEPT ![c] = PutEvent(t, TRUE, 0, FALSE, then)]
          /\ UNCHANGED <<behavior, greeted, saves, conns, wire, controls, snapshot, nextId>>
      BY <1>1, <2>4 DEF Start, Put
    <3>2. then \in {"done", "mark"}
      OBVIOUS
    <3> HIDE DEF then
    <3>3. PutEvent(t, TRUE, 0, FALSE, then) \in Task /\ Fits(PutEvent(t, TRUE, 0, FALSE, then), c)
      BY <2>1, <2>2, <3>2, PutFits
    <3> QED BY <1>0, <3>1, <3>3, TaskStep
  <2>5. CASE t.kind \in {"speech", "threat"}
    <3>1. MarkGreeting(c, "caller") /\ UNCHANGED <<conns, wire, controls, snapshot, nextId>>
      BY <1>1, <2>5 DEF Start
    <3>2. t.then \notin {"commit", "stream"}
      BY <2>1 DEF Fits
    <3> QED BY <2>1, <2>2, <3>1, <3>2, MarkKeeps
  <2> QED BY <1>1, <2>3, <2>4, <2>5 DEF Start
<1>2. CASE CallerTurn(c)
  <2> DEFINE staged == Reduce(behavior[c], t.kind)
             s == [t EXCEPT !.staged = staged]
             r == [t EXCEPT !.staged = staged, !.stage = "stream", !.run = TRUE]
  <2>1. /\ t \in Task /\ t.stage = "caller" /\ Fits(t, c) /\ active[c] \in Nat
        /\ staged \in State /\ staged.ended \in BOOLEAN
        /\ UNCHANGED <<conns, behavior, wire, snapshot, saves, nextId>>
    BY <1>2, Acting, ReduceTyped DEF CallerTurn, State
  <2>2. Speaking(t)
    BY <2>1 DEF Speaking
  <2>3. CASE Finish(c)
    BY <1>0, <2>1, <2>3, FinishKeeps
  <2>4. CASE Put(c, TRUE, 0, FALSE, "done") /\ UNCHANGED controls
    <3>1. task' = [task EXCEPT ![c] = PutEvent(t, TRUE, 0, FALSE, "done")]
      BY <2>4 DEF Put
    <3>2. PutEvent(t, TRUE, 0, FALSE, "done") \in Task /\ Fits(PutEvent(t, TRUE, 0, FALSE, "done"), c)
      BY <2>1, <2>2, PutFits
    <3> QED BY <1>0, <2>1, <2>4, <3>1, <3>2, TaskStep
  <2>5. CASE staged.ended /\ UNCHANGED controls
             /\ task' = [task EXCEPT ![c] = PutEvent(s, TRUE, 0, TRUE, "commit")]
    <3>1. s \in Task /\ Fits(s, c) /\ Speaking(s) /\ s.staged \in State
      BY <2>1 DEF Task, Fits, Speaking
    <3>2. PutEvent(s, TRUE, 0, TRUE, "commit") \in Task /\ Fits(PutEvent(s, TRUE, 0, TRUE, "commit"), c)
      <4> HIDE DEF s
      <4> QED BY <2>1, <3>1, PutFits
    <3> HIDE DEF s
    <3> QED BY <1>0, <2>1, <2>5, <3>2, TaskStep
  <2>6. CASE UNCHANGED controls /\ task' = [task EXCEPT ![c] = r]
    <3>1. r \in Task /\ Fits(r, c)
      BY <2>1 DEF Task, Stages, Fits, Speaking
    <3> HIDE DEF r
    <3> QED BY <1>0, <2>1, <2>6, <3>1, TaskStep
  <2> QED BY <1>2, <2>3, <2>4, <2>5, <2>6 DEF CallerTurn
<1>3. CASE Chunk(c)
  <2> DEFINE s == [t EXCEPT !.chunks = t.chunks + 1]
  <2>1. /\ t \in Task /\ t.stage = "stream" /\ Fits(t, c) /\ active[c] \in Nat
        /\ task' = [task EXCEPT ![c] = PutEvent(s, FALSE, 0, FALSE, "stream")]
        /\ UNCHANGED <<conns, behavior, wire, controls, snapshot, saves, nextId>>
    BY <1>3, Acting DEF Chunk
  <2>2. s \in Task /\ Fits(s, c) /\ Speaking(s) /\ s.staged \in State
    BY <2>1 DEF Task, Fits, Speaking
  <2>3. PutEvent(s, FALSE, 0, FALSE, "stream") \in Task /\ Fits(PutEvent(s, FALSE, 0, FALSE, "stream"), c)
    <3> HIDE DEF s
    <3> QED BY <2>1, <2>2, PutFits
  <2> HIDE DEF s
  <2> QED BY <1>0, <2>1, <2>3, TaskStep
<1>4. CASE RequestControl(c)
  <2>1. /\ t \in Task /\ Fits(t, c)
        /\ controls' = controls \cup {[scope |-> t.id, by |-> t.id]}
        /\ UNCHANGED <<conns, task, behavior, wire, snapshot, saves, nextId>>
    BY <1>4, Acting DEF RequestControl
  <2>2. \A k \in controls' : k.scope \in Nat /\ k.by = k.scope
    BY <1>0, <2>1 DEF Task
  <2>3. task' = [task EXCEPT ![c] = t]
    BY <2>1 DEF Inv, Typed
  <2> HIDE DEF t
  <2> QED BY <1>0, <2>1, <2>2, <2>3, TaskStep
<1>5. CASE Complete(c)
  <2>1. /\ t \in Task /\ t.stage = "stream" /\ Fits(t, c) /\ active[c] \in Nat
        /\ UNCHANGED <<conns, behavior, wire, snapshot, saves, nextId>>
    BY <1>5, Acting DEF Complete
  <2>2. Speaking(t) /\ t.staged \in State
    BY <2>1 DEF Speaking, Fits
  <2>3. CASE Allows(c, t.id)
    <3>1. PICK by \in IF Requested(t.id) = {} THEN {0} ELSE {k.by : k \in Requested(t.id)} :
            Put(c, TRUE, by, FALSE, "commit")
      BY <1>5, <2>3 DEF Complete
    <3>2. by \in {0, t.id}
      BY <1>0, <3>1 DEF Requested
    <3>3. task' = [task EXCEPT ![c] = PutEvent(t, TRUE, by, FALSE, "commit")]
      BY <3>1 DEF Put
    <3>4. \A k \in controls' : k.scope \in Nat /\ k.by = k.scope
      BY <1>0, <1>5, <2>3 DEF Complete, WithoutControl
    <3>5. PutEvent(t, TRUE, by, FALSE, "commit") \in Task /\ Fits(PutEvent(t, TRUE, by, FALSE, "commit"), c)
      BY <2>1, <2>2, <3>2, PutFits
    <3> QED BY <1>0, <2>1, <3>3, <3>4, <3>5, TaskStep
  <2>4. CASE ~Allows(c, t.id)
    BY <1>0, <1>5, <2>1, <2>4, FinishKeeps DEF Complete
  <2> QED BY <2>3, <2>4
<1>6. CASE Error(c)
  <2>1. /\ t \in Task /\ t.stage \in {"stream", "caller"} /\ Fits(t, c) /\ active[c] \in Nat
        /\ UNCHANGED <<conns, behavior, wire, snapshot, saves, nextId>>
    BY <1>6, Acting DEF Error
  <2>2. Speaking(t) /\ (t.run => t.staged \in State) /\ t.run \in BOOLEAN
    BY <2>1 DEF Speaking, Fits, Task
  <2>3. CASE Allows(c, t.id)
    <3> DEFINE then == IF t.run THEN "commit" ELSE "done"
    <3>1. task' = [task EXCEPT ![c] = PutEvent(t, TRUE, 0, FALSE, then)] /\ UNCHANGED controls
      BY <1>6, <2>3 DEF Error, Put
    <3>2. then \in {"done", "commit"} /\ (then = "commit" => t.staged \in State)
      BY <2>2
    <3> HIDE DEF then
    <3>3. PutEvent(t, TRUE, 0, FALSE, then) \in Task /\ Fits(PutEvent(t, TRUE, 0, FALSE, then), c)
      BY <2>1, <2>2, <3>2, PutFits
    <3> QED BY <1>0, <2>1, <3>1, <3>3, TaskStep
  <2>4. CASE ~Allows(c, t.id)
    BY <1>0, <1>6, <2>1, <2>4, FinishKeeps DEF Error
  <2> QED BY <2>3, <2>4
<1>7. CASE Emit(c)
  <2>1. /\ t \in Task /\ t.stage = "put" /\ Fits(t, c) /\ active[c] \in Nat
        /\ UNCHANGED <<conns, behavior, snapshot, saves, nextId>>
    BY <1>7, Acting DEF Emit
  <2>2. CASE Finish(c) /\ UNCHANGED wire
    BY <1>0, <2>1, <2>2, FinishKeeps
  <2>3. CASE Allows(c, t.event.id) /\ wire' = [wire EXCEPT ![c] = t.event]
             /\ Goto(c, "sent") /\ UNCHANGED controls
    <3> DEFINE x == [t EXCEPT !.stage = "sent"]
    <3>1. /\ task' = [task EXCEPT ![c] = x] /\ x \in Task
          /\ x.stage = "sent" /\ x.id = t.id /\ x.then = t.then /\ x.event = t.event
          /\ x.staged = t.staged /\ x.run = t.run
      BY <2>1, <2>3 DEF Goto, Task, Stages
    <3> HIDE DEF x
    <3>2. /\ t.event \in Event /\ t.event.id = t.id /\ t.id = active[c] /\ t.id \in Nat \ {0}
          /\ t.event.control \in {0, t.id} /\ (t.event.complete <=> t.then # "stream")
      BY <2>1, <2>3 DEF Fits, Allows, Task
    <3>3. Typed'
      BY <2>1, <2>3, <3>1, <3>2 DEF Inv, Typed, conns
    <3>4. Apart(c) /\ nextId' \in Nat /\ nextId' >= nextId
      BY <2>1, <2>3, <3>1 DEF Inv, Typed, Apart, conns
    <3>5. /\ task'[c] = x /\ wire'[c] = t.event /\ active' = active /\ loop' = loop
          /\ queued' = queued /\ nextId' = nextId
      BY <2>1, <2>3, <3>1 DEF Inv, Typed, conns
    <3>6. loop[c] # "cancelling"
      BY <2>1, <3>2 DEF Fits
    <3>7. Fits(task[c], c)'
      BY <2>1, <3>1, <3>2, <3>5, <3>6 DEF Fits, Speaking
    <3>8. ConnFits(c)'
      <4>1. active[c] < nextId
        BY DEF Inv, ConnFits
      <4> QED BY <4>1, <2>1, <3>2, <3>5, <3>6, <3>7 DEF ConnFits
    <3> QED BY <3>3, <3>4, <3>8, OthersKeep DEF Inv
  <2> QED BY <1>7, <2>2, <2>3 DEF Emit
<1>8. CASE Sent(c)
  <2>1. /\ t \in Task /\ t.stage = "sent" /\ Fits(t, c) /\ active[c] \in Nat
        /\ UNCHANGED <<conns, wire, snapshot, nextId>>
    BY <1>8, Acting DEF Sent
  <2>2. CASE Finish(c) /\ UNCHANGED <<behavior, saves>>
    BY <1>0, <2>1, <2>2, FinishKeeps
  <2>3. CASE t.then = "stream" /\ Goto(c, "stream") /\ UNCHANGED <<behavior, saves, controls>>
    <3> DEFINE x == [t EXCEPT !.stage = "stream"]
    <3>1. /\ task' = [task EXCEPT ![c] = x] /\ x \in Task
          /\ x.stage = "stream" /\ x.id = t.id /\ x.then = t.then /\ x.staged = t.staged
          /\ x.run = t.run
      BY <2>1, <2>3 DEF Goto, Task, Stages
    <3> HIDE DEF x
    <3>2. Fits(x, c)
      BY <2>1, <2>3, <3>1 DEF Fits, Speaking
    <3> QED BY <1>0, <2>1, <2>3, <3>1, <3>2, TaskStep
  <2>4. CASE t.then = "mark" /\ MarkGreeting(c, "done") /\ UNCHANGED controls
    BY <2>1, <2>4, MarkKeeps
  <2>5. CASE t.then = "commit" /\ CommitBehavior(c) /\ Finish(c)
    <3>1. t.staged \in State
      BY <2>1, <2>5 DEF Fits
    <3>2. behavior' \in [Conns -> State] /\ \A s \in saves' : s.state \in State
      BY <1>0, <2>5, <3>1 DEF CommitBehavior
    <3> QED BY <2>1, <2>5, <3>2, FinishKeeps
  <2> QED BY <1>8, <2>2, <2>3, <2>4, <2>5 DEF Sent
<1>9. CASE Marked(c)
  <2>1. /\ t \in Task /\ t.stage = "marking" /\ Fits(t, c) /\ active[c] \in Nat
        /\ UNCHANGED <<conns, behavior, wire, snapshot, saves, nextId>>
    BY <1>9, Acting DEF Marked
  <2>2. CASE t.then = "done"
    BY <1>0, <1>9, <2>1, <2>2, FinishKeeps DEF Marked
  <2>3. CASE t.then # "done"
    <3> DEFINE x == [t EXCEPT !.stage = t.then]
    <3>1. t.then = "caller"
      BY <2>1, <2>3 DEF Fits
    <3>2. /\ task' = [task EXCEPT ![c] = x] /\ UNCHANGED controls /\ x \in Task
          /\ x.stage = "caller" /\ x.id = t.id /\ x.then = t.then /\ x.staged = t.staged
          /\ x.run = t.run
      BY <1>9, <2>1, <2>3, <3>1 DEF Marked, Goto, Task, Stages
    <3> HIDE DEF x
    <3>3. Fits(x, c)
      BY <2>1, <3>1, <3>2 DEF Fits, Speaking
    <3> QED BY <1>0, <2>1, <3>2, <3>3, TaskStep
  <2> QED BY <2>2, <2>3
<1>10. CASE Unwind(c)
  <2>1. /\ Finish(c) /\ UNCHANGED <<conns, behavior, wire, snapshot, nextId>>
        /\ saves' \subseteq saves
    BY <1>10 DEF Unwind
  <2> QED BY <1>0, <2>1, FinishKeeps
<1>11. CASE Swallow(c)
  <2> DEFINE x == [t EXCEPT !.cancelled = FALSE]
  <2>1. /\ t \in Task /\ Fits(t, c)
        /\ UNCHANGED <<conns, behavior, wire, controls, snapshot, saves, nextId>>
    BY <1>11 DEF Swallow, Live, Inv, Typed, ConnFits
  <2>2. /\ task' = [task EXCEPT ![c] = x] /\ x \in Task
        /\ x.stage = t.stage /\ x.id = t.id /\ x.then = t.then /\ x.staged = t.staged
        /\ x.run = t.run /\ x.event = t.event
    BY <1>11, <2>1 DEF Swallow, Task
  <2> HIDE DEF x
  <2>3. Fits(x, c)
    BY <2>1, <2>2 DEF Fits, Speaking
  <2> QED BY <1>0, <2>1, <2>2, <2>3, TaskStep
<1> QED BY <1>1, <1>2, <1>3, <1>4, <1>5, <1>6, <1>7, <1>8, <1>9, <1>10, <1>11 DEF Answer

-----------------------------------------------------------------------------
(* Theorems.                                                               *)

LEMMA InitFits == Init => Inv
<1> SUFFICES ASSUME Init PROVE Inv
  OBVIOUS
<1>1. Fresh \in State /\ NoEvent \in Event
  BY DEF Fresh, NoEvent, State, Event
<1>2. Typed
  BY <1>1 DEF Init, Typed, Loops
<1>3. ASSUME NEW c \in Conns PROVE ConnFits(c)
  BY DEF Init, ConnFits, Live, NoEvent
<1> QED BY <1>2, <1>3 DEF Inv

LEMMA StepFits ==
  ASSUME MaxId \in Nat
  PROVE  Inv /\ [Next]_vars => Inv'
<1> SUFFICES ASSUME Inv, [Next]_vars PROVE Inv'
  OBVIOUS
<1>1. ASSUME NEW c \in Conns, Loop(c) PROVE Inv'
  BY <1>1, LoopKeeps
<1>2. ASSUME NEW c \in Conns, Answer(c) PROVE Inv'
  BY <1>2, AnswerKeeps
<1>3. ASSUME NEW s \in saves, Land(s) PROVE Inv'
  <2>1. /\ snapshot' \in State /\ saves' \subseteq saves
        /\ UNCHANGED <<conns, task, wire, behavior, controls, nextId>>
    BY <1>3 DEF Land, Inv, Typed
  <2> QED BY <2>1 DEF Inv, Typed, ConnFits, Fits, Live, conns
<1>4. CASE UNCHANGED vars
  BY <1>4 DEF vars, conns, Inv, Typed, ConnFits, Fits, Live
<1> QED BY <1>1, <1>2, <1>3, <1>4 DEF Next

\* The invariant holds of every reachable state, for every set of connections
\* and of requests and for every bound.
THEOREM AlwaysFits ==
  ASSUME MaxId \in Nat
  PROVE  Spec => []Inv
<1>1. Init => Inv
  BY InitFits
<1>2. Inv /\ [Next]_vars => Inv'
  BY StepFits
<1> QED BY <1>1, <1>2, PTL DEF Spec

\* A call is ended or transferred by the answer whose generation asked for it.
THEOREM ControlStaysOwn ==
  ASSUME MaxId \in Nat
  PROVE  Spec => []ControlIsOwn
<1>1. Inv => ControlIsOwn
  BY DEF Inv, ConnFits, ControlIsOwn
<1> QED BY <1>1, AlwaysFits, PTL

\* Of all steps only the commit after a send changes the version of a state
\* that is in use.
LEMMA OnlyCommitsCount ==
  ASSUME Inv, Next, NEW c \in Conns, loop[c] # "absent",
         behavior'[c].version # behavior[c].version
  PROVE  Sent(c) /\ Allows(c, task[c].id) /\ task[c].then = "commit"
<1>0. behavior \in [Conns -> State]
  BY DEF Inv, Typed
<1>1. ASSUME NEW d \in Conns, Loop(d) PROVE FALSE
  <2>1. \/ behavior' = [behavior EXCEPT ![d] = snapshot] /\ loop[d] = "absent"
        \/ UNCHANGED behavior
    BY <1>1 DEF Loop, Connect, Receive, Cancelled, Lose, Close, Closed
  <2> QED BY <1>0, <2>1
<1>2. ASSUME NEW d \in Conns, NEW then, MarkGreeting(d, then) PROVE FALSE
  <2>1. behavior' = [behavior EXCEPT ![d] = [behavior[d] EXCEPT !.greeted = TRUE]]
        \/ UNCHANGED behavior
    BY <1>2 DEF MarkGreeting
  <2>2. [behavior[d] EXCEPT !.greeted = TRUE].version = behavior[d].version
    BY <1>0 DEF State
  <2> QED BY <1>0, <2>1, <2>2
<1>3. ASSUME NEW d \in Conns, Answer(d) PROVE Sent(c) /\ Allows(c, task[c].id) /\ task[c].then = "commit"
  <2>1. ASSUME Start(d) PROVE FALSE
    BY <1>2, <2>1 DEF Start
  <2>2. ASSUME Sent(d) PROVE Sent(c) /\ Allows(c, task[c].id) /\ task[c].then = "commit"
    <3>1. Allows(d, task[d].id) /\ task[d].then = "commit" /\ CommitBehavior(d)
      BY <1>2, <2>2 DEF Sent
    <3>2. d = c
      BY <1>0, <3>1 DEF CommitBehavior
    <3> QED BY <2>2, <3>1, <3>2
  <2>3. Start(d) \/ Sent(d)
    BY <1>3 DEF Answer, CallerTurn, Chunk, RequestControl, Complete, Error, Emit, Marked,
                Unwind, Swallow
  <2> QED BY <2>1, <2>2, <2>3
<1>4. ASSUME NEW s \in saves, Land(s) PROVE FALSE
  BY <1>4 DEF Land
<1> QED BY <1>1, <1>3, <1>4 DEF Next

\* The state of a call moves on only with an answer that was delivered to the
\* end and is still wanted.
THEOREM DeliveredFirst ==
  ASSUME MaxId \in Nat
  PROVE  Spec => CommittedWasDelivered
<1> DEFINE Delivered ==
      \A c \in Conns :
        loop[c] # "absent" /\ behavior'[c].version # behavior[c].version =>
          wire[c].id = active[c] /\ wire[c].complete
<1>1. Inv /\ [Next]_vars => [Delivered]_vars
  <2> SUFFICES ASSUME Inv, Next, NEW c \in Conns, loop[c] # "absent",
                      behavior'[c].version # behavior[c].version
               PROVE  wire[c].id = active[c] /\ wire[c].complete
    OBVIOUS
  <2>1. Sent(c) /\ Allows(c, task[c].id) /\ task[c].then = "commit"
    BY OnlyCommitsCount
  <2>2. task[c].stage = "sent" /\ Fits(task[c], c)
    BY <2>1, Acting DEF Sent
  <2>3. wire[c] = task[c].event /\ task[c].event.id = task[c].id /\ task[c].event.complete
    BY <2>1, <2>2 DEF Fits
  <2> QED BY <2>1, <2>3 DEF Allows
<1> HIDE DEF Delivered
<1>2. Spec => [][Delivered]_vars
  BY <1>1, AlwaysFits, PTL DEF Spec
<1> QED BY <1>2 DEF CommittedWasDelivered, Delivered

\* Every step of the handler is a question, a piece of the newest answer, the
\* end of the line, or none of the caller's business.
LEMMA StepImplements ==
  ASSUME MaxId \in Nat, Inv, [Next]_vars
  PROVE  [Turns!Next]_(Turns!vars)
<1> DEFINE said == [c \in Conns |-> [id |-> wire[c].id, complete |-> wire[c].complete]]
<1>0. /\ active \in [Conns -> Nat] /\ wire \in [Conns -> Event] /\ sock \in [Conns -> BOOLEAN]
      /\ nextId \in Nat \ {0}
  BY DEF Inv, Typed
<1>1. CASE UNCHANGED <<active, wire, sock>>
  BY <1>1 DEF Turns!vars
<1>2. ASSUME NEW c \in Conns, NEW kind \in Kinds, Receive(c, kind) PROVE Turns!Next
  <2>1. /\ nextId \in 1 .. MaxId /\ nextId > active[c]
        /\ active' = [active EXCEPT ![c] = nextId] /\ UNCHANGED <<wire, sock>>
    BY <1>0, <1>2 DEF Receive, Inv, ConnFits
  <2>2. Turns!Ask(c)
    BY <2>1 DEF Turns!Ask
  <2> QED BY <2>2 DEF Turns!Next
<1>3. ASSUME NEW c \in Conns, Lose(c) PROVE Turns!Next
  <2>1. Turns!HangUp(c)
    BY <1>3 DEF Lose, Turns!HangUp
  <2> QED BY <2>1 DEF Turns!Next
<1>4. ASSUME NEW c \in Conns, Emit(c), wire' # wire PROVE Turns!Next
  <2> DEFINE e == task[c].event
  <2>1. /\ task[c] \in Task /\ task[c].stage = "put" /\ Fits(task[c], c)
        /\ Allows(c, e.id) /\ wire' = [wire EXCEPT ![c] = e] /\ UNCHANGED <<active, sock>>
    BY <1>4, Acting DEF Emit, conns
  <2>2. e \in Event /\ e.id = active[c] /\ active[c] > 0
    BY <2>1, <1>0 DEF Fits, Allows, Task
  <2>3. ~(wire[c].id = active[c] /\ wire[c].complete)
    BY <2>1, <2>2 DEF Fits, Speaking
  <2>4. ~ Turns!Finished(c)
    BY <1>0, <2>3 DEF Turns!Finished, Event
  <2>5. said' = [said EXCEPT ![c] = [id |-> active[c], complete |-> e.complete]]
    BY <1>0, <2>1, <2>2
  <2>6. e.complete \in BOOLEAN
    BY <2>2 DEF Event
  <2> HIDE DEF e
  <2>7. Turns!Say(c)
    BY <2>1, <2>2, <2>4, <2>5, <2>6 DEF Turns!Say
  <2> QED BY <2>7 DEF Turns!Next
<1>5. ASSUME NEW c \in Conns, Loop(c) PROVE [Turns!Next]_(Turns!vars)
  <2>1. CASE Lose(c) \/ \E kind \in Kinds : Receive(c, kind)
    BY <1>2, <1>3, <2>1
  <2>2. CASE Connect(c) \/ Cancelled(c) \/ Close(c) \/ Closed(c)
    BY <1>1, <2>2 DEF Connect, Cancelled, Close, Closed
  <2> QED BY <1>5, <2>1, <2>2 DEF Loop
<1>6. ASSUME NEW c \in Conns, Answer(c) PROVE [Turns!Next]_(Turns!vars)
  <2>1. UNCHANGED <<active, sock>>
    BY <1>6 DEF Answer, Start, CallerTurn, Chunk, RequestControl, Complete, Error, Emit, Sent,
                Marked, Unwind, Swallow, conns
  <2>2. UNCHANGED wire \/ Emit(c)
    BY <1>6 DEF Answer, Start, CallerTurn, Chunk, RequestControl, Complete, Error, Sent,
                Marked, Unwind, Swallow
  <2> QED BY <1>1, <1>4, <2>1, <2>2
<1>7. ASSUME NEW s \in saves, Land(s) PROVE [Turns!Next]_(Turns!vars)
  BY <1>1, <1>7 DEF Land, conns
<1> QED BY <1>1, <1>5, <1>6, <1>7 DEF Next, vars, conns

\* The handler implements ResponseTurns: no stale answer reaches the caller
\* and nothing follows a complete one, however requests interrupt each other.
THEOREM RefinesTurns ==
  ASSUME MaxId \in Nat
  PROVE  Spec => ImplementsTurns
<1>1. Init => Turns!Init
  BY DEF Init, Turns!Init, NoEvent
<1>2. Inv /\ [Next]_vars => [Turns!Next]_(Turns!vars)
  BY StepImplements
<1> QED BY <1>1, <1>2, AlwaysFits, PTL DEF Spec, ImplementsTurns, Turns!Spec

-----------------------------------------------------------------------------
(* The reducer: what the proofs read of its state. *)

Fields ==
  {"mode", "explicit_pace", "explicit_locale", "accessibility", "repair_streak", "silence_count",
   "boundary_strikes", "explicit_handoff_reason", "speech_rate_samples", "inferred_pace",
   "stable_turns", "boundary_clean_turns", "deescalation_hold", "hurry_hold",
   "interruption_pressure", "last_utterance", "terminal_control", "terminal_reason"}

\* A state as far as the proofs read it.
IsState(s) ==
  /\ s = [f \in Fields |-> s[f]]
  /\ s.repair_streak \in Nat /\ s.silence_count \in Nat /\ s.boundary_strikes \in Nat
  /\ s.deescalation_hold \in Nat /\ s.stable_turns \in Nat

Tallies == [silent : Nat, crossings : Nat, severe : BOOLEAN, crossing : BOOLEAN]

\* The state knows of the turns behind it.
Kept ==
  /\ IsState(state)
  /\ tally \in Tallies
  /\ heard \in Seq(Reducer!Observation)
  /\ state.silence_count <= tally.silent
  /\ tally.severe \/ state.boundary_strikes <= tally.crossings

\* What is understood of a turn is a turn.
LEMMA UnderstoodTyped ==
  ASSUME NEW o \in Observations
  PROVE  Reducer!Understood(o) \in Reducer!Observation
<1>1. o \in Reducer!Observation /\ None \notin {}
  BY TalkAssumption DEF Reducer!BehaviorAssumption
<1>2. CASE o.kind = "speech"
  <2>1. Reducer!Understood(o) = [o EXCEPT !.requested = @ \ o.cleared]
    BY <1>2 DEF Reducer!Understood
  <2>2. o.requested \ o.cleared \in SUBSET Reducer!Preferences
    BY <1>1 DEF Reducer!Observation
  <2> QED BY <1>1, <2>1, <2>2 DEF Reducer!Observation
<1>3. CASE o.kind # "speech"
  <2>1. Reducer!Understood(o) = [Reducer!Silence EXCEPT !.kind = o.kind, !.interrupted = o.interrupted]
    BY <1>3 DEF Reducer!Understood
  <2>2. o.kind \in {"silent", "unintelligible", "speech"} /\ o.interrupted \in BOOLEAN
    BY <1>1 DEF Reducer!Observation
  <2>3. Reducer!Silence \in Reducer!Observation
    BY DEF Reducer!Silence, Reducer!Observation
  <2> QED BY <2>1, <2>2, <2>3 DEF Reducer!Observation
<1> QED BY <1>2, <1>3

\* What Sanitize does to a state, the parts nothing here depends on being any.
LEMMA SanitizedFields ==
  ASSUME NEW s, IsState(s)
  PROVE  LET t == Reducer!Sanitize(s)
         IN  /\ t = [f \in Fields |-> t[f]]
             /\ t.explicit_pace = s.explicit_pace
             /\ t.terminal_control = s.terminal_control
             /\ t.repair_streak = Reducer!AtMost(4, s.repair_streak)
             /\ t.silence_count = Reducer!AtMost(3, s.silence_count)
             /\ t.boundary_strikes = Reducer!AtMost(3, s.boundary_strikes)
             /\ t.deescalation_hold = Reducer!AtMost(3, s.deescalation_hold)
             /\ t.stable_turns = Reducer!AtMost(2, s.stable_turns)
             /\ t.speech_rate_samples = Reducer!PlausibleOf(s.speech_rate_samples)
             /\ t.inferred_pace = s.inferred_pace
<1> DEFINE r(a, b, c, d, e, h, i, j, k, l, m) ==
             [s EXCEPT !.repair_streak = a, !.silence_count = b, !.boundary_strikes = c,
                       !.stable_turns = d, !.boundary_clean_turns = e, !.deescalation_hold = h,
                       !.hurry_hold = i, !.interruption_pressure = j, !.speech_rate_samples = k,
                       !.explicit_handoff_reason = l, !.terminal_reason = m]
<1>1. ASSUME NEW a, NEW b, NEW c, NEW d, NEW e, NEW h, NEW i, NEW j, NEW k, NEW l, NEW m
      PROVE  LET t == r(a, b, c, d, e, h, i, j, k, l, m)
             IN  /\ t = [f \in Fields |-> t[f]]
                 /\ t.explicit_pace = s.explicit_pace
                 /\ t.terminal_control = s.terminal_control
                 /\ t.repair_streak = a /\ t.silence_count = b /\ t.boundary_strikes = c
                 /\ t.deescalation_hold = h /\ t.stable_turns = d
                 /\ t.speech_rate_samples = k /\ t.inferred_pace = s.inferred_pace
  BY DEF IsState, Fields
<1>2. PICK e, i, j, l, m :
        Reducer!Sanitize(s) =
          r(Reducer!AtMost(4, s.repair_streak), Reducer!AtMost(3, s.silence_count),
            Reducer!AtMost(3, s.boundary_strikes), Reducer!AtMost(2, s.stable_turns), e,
            Reducer!AtMost(3, s.deescalation_hold), i, j,
            Reducer!PlausibleOf(s.speech_rate_samples), l, m)
  <2>1. Reducer!EndStrikes = 3 /\ Reducer!HoldTurns = 3
    BY DEF Reducer!EndStrikes, Reducer!HoldTurns
  <2> DEFINE e == Reducer!AtMost(Reducer!DecayTurns, s.boundary_clean_turns)
             i == Reducer!AtMost(3, s.hurry_hold)
             j == Reducer!AtMost(6, s.interruption_pressure)
             l == IF s.explicit_handoff_reason \in Reducer!Handoffs
                  THEN s.explicit_handoff_reason ELSE None
             m == IF s.terminal_reason \in {"handoff", "boundary", "silence"}
                  THEN s.terminal_reason ELSE None
  <2>2. Reducer!Sanitize(s) =
          r(Reducer!AtMost(4, s.repair_streak), Reducer!AtMost(3, s.silence_count),
            Reducer!AtMost(3, s.boundary_strikes), Reducer!AtMost(2, s.stable_turns), e,
            Reducer!AtMost(3, s.deescalation_hold), i, j,
            Reducer!PlausibleOf(s.speech_rate_samples), l, m)
    BY <2>1 DEF Reducer!Sanitize
  <2> HIDE DEF e, i, j, l, m, r
  <2> QED BY <2>2
<1> HIDE DEF r
<1> QED BY <1>1, <1>2

\* The mode that is chosen for a state, the parts of it nothing here depends on
\* being any.
LEMMA ModeChosen ==
  ASSUME NEW n, NEW g, n.deescalation_hold \in Nat, n.repair_streak \in Nat
  PROVE  LET m == Reducer!ChooseMode(n, g)
         IN  /\ n.deescalation_hold > 0 => m = "deescalating"
             /\ /\ n.deescalation_hold = 0
                /\ n.explicit_pace = "slower" \/ n.repair_streak >= 2
                => m = "guided"
<1>1. CASE n.deescalation_hold > 0
  BY <1>1 DEF Reducer!ChooseMode
<1>2. CASE n.deescalation_hold = 0 /\ (n.explicit_pace = "slower" \/ n.repair_streak >= 2)
  BY <1>2 DEF Reducer!ChooseMode
<1>3. n.deescalation_hold > 0 => ~(n.deescalation_hold = 0)
  OBVIOUS
<1> QED BY <1>1, <1>2, <1>3

\* What NextState makes of a state.
LEMMA NextFields ==
  ASSUME NEW s, NEW o, NEW open,
         Reducer!DeescalationAfter(s, o) \in Nat, Reducer!RepairAfter(s, o).streak \in Nat
  PROVE  LET n == Reducer!NextState(s, o, open)
             terminal == Reducer!TerminalAfter(s, o, open, n.boundary_strikes, n.silence_count)
         IN  /\ n = [f \in Fields |-> n[f]]
             /\ n.explicit_pace = IF o.pace # None THEN o.pace ELSE s.explicit_pace
             /\ n.repair_streak = Reducer!RepairAfter(s, o).streak
             /\ n.stable_turns = Reducer!RepairAfter(s, o).stable
             /\ n.silence_count = Reducer!SilenceAfter(s, o)
             /\ n.boundary_strikes = Reducer!BoundaryAfter(s, o).strikes
             /\ n.deescalation_hold = Reducer!DeescalationAfter(s, o)
             /\ n.speech_rate_samples = Reducer!SamplesAfter(s, o)
             /\ n.inferred_pace = Reducer!UpdateInferredPace(s.inferred_pace, n.speech_rate_samples)
             /\ n.terminal_control = terminal.control
             /\ n.terminal_reason = terminal.reason
             /\ n.deescalation_hold > 0 => n.mode = "deescalating"
             /\ /\ n.deescalation_hold = 0
                /\ n.explicit_pace = "slower" \/ n.repair_streak >= 2
                => n.mode = "guided"
<1> DEFINE r(a, b, c, d, e, f, g, h, i, j, k, l, m, p, q, t, u, v) ==
             [mode |-> a, explicit_pace |-> b, explicit_locale |-> c, accessibility |-> d,
              repair_streak |-> e, silence_count |-> f, boundary_strikes |-> g,
              explicit_handoff_reason |-> h, speech_rate_samples |-> i, inferred_pace |-> j,
              stable_turns |-> k, boundary_clean_turns |-> l, deescalation_hold |-> m,
              hurry_hold |-> p, interruption_pressure |-> q, last_utterance |-> t,
              terminal_control |-> u, terminal_reason |-> v]
           b == IF o.pace # None THEN o.pace ELSE s.explicit_pace
           c == IF o.locale # None THEN o.locale ELSE s.explicit_locale
           d == Reducer!UpdateAccessibility(s, o)
           e == Reducer!RepairAfter(s, o).streak
           f == Reducer!SilenceAfter(s, o)
           g == Reducer!BoundaryAfter(s, o).strikes
           terminal == Reducer!TerminalAfter(s, o, open, g, f)
           h == IF terminal.control = "HANDOFF" THEN Reducer!HandoffReason(s, o) ELSE None
           i == Reducer!SamplesAfter(s, o)
           j == Reducer!UpdateInferredPace(s.inferred_pace, i)
           k == Reducer!RepairAfter(s, o).stable
           l == Reducer!BoundaryAfter(s, o).clean
           m == Reducer!DeescalationAfter(s, o)
           p == Reducer!HurryAfter(s, o)
           q == Reducer!PressureAfter(s, o)
           t == IF o.kind = "speech" THEN o.utterance ELSE s.last_utterance
           u == terminal.control
           v == terminal.reason
           next == r(s.mode, b, c, d, e, f, g, h, i, j, k, l, m, p, q, t, u, v)
           mode == Reducer!ChooseMode(next, o.confusion \/ Reducer!IsRepetition(s, o))
           n == Reducer!NextState(s, o, open)
<1>1. n = [next EXCEPT !.mode = mode]
  BY DEF Reducer!NextState
<1>2. /\ b = IF o.pace # None THEN o.pace ELSE s.explicit_pace
      /\ e = Reducer!RepairAfter(s, o).streak
      /\ f = Reducer!SilenceAfter(s, o)
      /\ g = Reducer!BoundaryAfter(s, o).strikes
      /\ i = Reducer!SamplesAfter(s, o)
      /\ j = Reducer!UpdateInferredPace(s.inferred_pace, i)
      /\ k = Reducer!RepairAfter(s, o).stable
      /\ m = Reducer!DeescalationAfter(s, o)
      /\ u = Reducer!TerminalAfter(s, o, open, g, f).control
      /\ v = Reducer!TerminalAfter(s, o, open, g, f).reason
  OBVIOUS
<1> HIDE DEF b, c, d, e, f, g, h, i, j, k, l, m, p, q, t, u, v, terminal
<1>3. next.explicit_pace = b /\ next.repair_streak = e /\ next.deescalation_hold = m
  OBVIOUS
<1>4. /\ next.deescalation_hold > 0 => mode = "deescalating"
      /\ /\ next.deescalation_hold = 0
         /\ next.explicit_pace = "slower" \/ next.repair_streak >= 2
         => mode = "guided"
  <2> HIDE DEF next
  <2> QED BY <1>2, <1>3, ModeChosen
<1> HIDE DEF mode, n
<1>5. /\ n = [y \in Fields |-> n[y]]
      /\ n.mode = mode /\ n.explicit_pace = b /\ n.repair_streak = e /\ n.silence_count = f
      /\ n.boundary_strikes = g /\ n.stable_turns = k /\ n.deescalation_hold = m
      /\ n.speech_rate_samples = i /\ n.inferred_pace = j
      /\ n.terminal_control = u /\ n.terminal_reason = v
  BY <1>1 DEF Fields
<1> HIDE DEF next
<1> QED BY <1>2, <1>3, <1>4, <1>5 DEF n

\* The counters of a turn.
LEMMA Counters ==
  ASSUME NEW s, NEW o \in Reducer!Observation, s.repair_streak \in Nat, s.silence_count \in Nat,
         s.boundary_strikes \in Nat, s.deescalation_hold \in Nat, s.stable_turns \in Nat
  PROVE  /\ Reducer!RepairAfter(s, o).streak \in Nat
         /\ Reducer!RepairAfter(s, o).stable \in Nat
         /\ HasFailed(o) => Reducer!RepairAfter(s, o).streak = Reducer!AtMost(4, s.repair_streak + 1)
         /\ Reducer!SilenceAfter(s, o)
              = IF o.kind = "silent" THEN Reducer!AtMost(3, s.silence_count + 1) ELSE 0
         /\ Reducer!BoundaryAfter(s, o).strikes \in Nat
         /\ Reducer!BoundaryAfter(s, o).strikes
              <= IF o.boundary = None THEN s.boundary_strikes
                 ELSE IF o.severe THEN 3 ELSE Reducer!AtMost(3, s.boundary_strikes + 1)
         /\ Reducer!DeescalationAfter(s, o) \in Nat
         /\ IsUpset(o) => Reducer!DeescalationAfter(s, o) = 3
         /\ ~IsUpset(o) => Reducer!DeescalationAfter(s, o)
                             = IF Reducer!IsPlain(o) THEN Reducer!Down(s.deescalation_hold)
                               ELSE s.deescalation_hold
<1> USE DEF Reducer!AtMost, Reducer!AtLeast, Reducer!Down
<1>1. /\ Reducer!RepairAfter(s, o).streak \in Nat
      /\ Reducer!RepairAfter(s, o).stable \in Nat
      /\ HasFailed(o) => Reducer!RepairAfter(s, o).streak = Reducer!AtMost(4, s.repair_streak + 1)
  BY DEF Reducer!RepairAfter, Reducer!NeedsRepair, HasFailed
<1>2. Reducer!SilenceAfter(s, o)
        = IF o.kind = "silent" THEN Reducer!AtMost(3, s.silence_count + 1) ELSE 0
  BY DEF Reducer!SilenceAfter
<1>3. /\ Reducer!BoundaryAfter(s, o).strikes \in Nat
      /\ Reducer!BoundaryAfter(s, o).strikes
           <= IF o.boundary = None THEN s.boundary_strikes
              ELSE IF o.severe THEN 3 ELSE Reducer!AtMost(3, s.boundary_strikes + 1)
  BY DEF Reducer!BoundaryAfter, Reducer!IsPlain, Reducer!EndStrikes, Reducer!DecayTurns
<1>4. /\ Reducer!DeescalationAfter(s, o) \in Nat
      /\ IsUpset(o) => Reducer!DeescalationAfter(s, o) = 3
      /\ ~IsUpset(o) => Reducer!DeescalationAfter(s, o)
                          = IF Reducer!IsPlain(o) THEN Reducer!Down(s.deescalation_hold)
                            ELSE s.deescalation_hold
  <2>1. Reducer!IsPlain(o) => o.boundary = None
    BY DEF Reducer!IsPlain
  <2>2. CASE IsUpset(o)
    <3>1. Reducer!DeescalationAfter(s, o) = Reducer!HoldTurns
      BY <2>1, <2>2, Zenon DEF Reducer!DeescalationAfter, IsUpset
    <3> QED BY <3>1, <2>2 DEF Reducer!HoldTurns
  <2>3. CASE ~IsUpset(o)
    <3>1. Reducer!DeescalationAfter(s, o)
            = IF Reducer!IsPlain(o) THEN Reducer!Down(s.deescalation_hold) ELSE s.deescalation_hold
      BY <2>3, Zenon DEF Reducer!DeescalationAfter, IsUpset
    <3>2. Reducer!DeescalationAfter(s, o) \in Nat
      BY <3>1
    <3> QED BY <3>1, <3>2, <2>3
  <2> QED BY <2>2, <2>3
<1> QED BY <1>1, <1>2, <1>3, <1>4

\* What ends a call, and that nothing else does.
LEMMA EndsCall ==
  ASSUME NEW s, NEW o, NEW open, NEW strikes \in Nat, NEW silence \in Nat
  PROVE  LET t == Reducer!TerminalAfter(s, o, open, strikes, silence)
         IN  /\ s.terminal_control = "END_CALL" => t.control = "END_CALL"
             /\ s.terminal_control # "END_CALL" /\ t.control = "END_CALL" =>
                  \/ t.reason = "silence" /\ silence >= 3
                  \/ t.reason = "boundary" /\ o.boundary # None /\ strikes >= 3
<1>1. None # "END_CALL" /\ None # "HANDOFF" /\ "HANDOFF" # "END_CALL"
  BY TalkAssumption DEF Reducer!BehaviorAssumption, Reducer!Controls
<1> DEFINE t == Reducer!TerminalAfter(s, o, open, strikes, silence)
           can == Reducer!CanTransfer(Reducer!HandoffReason(s, o), open)
           forget == s.terminal_control = "HANDOFF" /\ ~can
           over == o.boundary # None /\ strikes >= 3
<1>2. CASE ~forget /\ s.terminal_control # None
  <2>1. t = Reducer!Terminal(s.terminal_control, s.terminal_reason)
    BY <1>2 DEF Reducer!TerminalAfter, Reducer!Terminal
  <2> QED BY <2>1, <1>1 DEF Reducer!Terminal
<1>3. CASE forget \/ s.terminal_control = None
  <2>1. PICK r : t = CASE o.handoff # None /\ can -> Reducer!Terminal("HANDOFF", "handoff")
                       [] OTHER ->
                            CASE over -> Reducer!Terminal("END_CALL", "boundary")
                              [] ~over /\ silence >= 3 -> Reducer!Terminal("END_CALL", "silence")
                              [] OTHER -> Reducer!Terminal(None, r)
    BY <1>3 DEF Reducer!TerminalAfter, Reducer!Terminal, Reducer!EndStrikes
  <2> HIDE DEF t, can
  <2>2. s.terminal_control # "END_CALL"
    BY <1>1, <1>3
  <2> QED BY <1>1, <2>1, <2>2 DEF Reducer!Terminal, t
<1> QED BY <1>2, <1>3

\* The last n elements of a sequence are some end of it.
LEMMA LatestIsEnd ==
  ASSUME NEW S, NEW q \in Seq(S), NEW n \in Nat
  PROVE  /\ Reducer!Latest(q, n) \in Seq(S)
         /\ \E d \in 0 .. Len(q) :
              /\ Len(Reducer!Latest(q, n)) = Len(q) - d
              /\ \A i \in 1 .. Len(q) - d : Reducer!Latest(q, n)[i] = q[i + d]
<1> DEFINE m == Reducer!AtLeast(1, Len(q) - n + 1)
<1>1. m \in 1 .. Len(q) + 1 /\ Len(q) \in Nat /\ Reducer!Latest(q, n) = SubSeq(q, m, Len(q))
  BY DEF Reducer!AtLeast, Reducer!Latest
<1> HIDE DEF m
<1>2. /\ SubSeq(q, m, Len(q)) \in Seq(S)
      /\ Len(SubSeq(q, m, Len(q))) = IF m <= Len(q) THEN Len(q) - m + 1 ELSE 0
      /\ \A i \in 1 .. Len(q) - m + 1 : SubSeq(q, m, Len(q))[i] = q[m + i - 1]
  BY <1>1, SubSeqProperties
<1>3. m - 1 \in 0 .. Len(q) /\ Len(q) - m + 1 = Len(q) - (m - 1)
  BY <1>1
<1>4. Len(SubSeq(q, m, Len(q))) = Len(q) - (m - 1)
  BY <1>1, <1>2
<1>5. ASSUME NEW i \in 1 .. Len(q) - (m - 1)
      PROVE  SubSeq(q, m, Len(q))[i] = q[i + (m - 1)]
  <2>1. m + i - 1 = i + (m - 1)
    BY <1>1
  <2> QED BY <1>2, <1>3, <2>1
<1> QED BY <1>1, <1>2, <1>3, <1>4, <1>5

\* The plain turns after one are finitely many.
LEMMA PlainFinite ==
  ASSUME NEW h \in Seq(Reducer!Observation), NEW i \in Nat
  PROVE  IsFiniteSet(PlainAfter(h, i)) /\ Cardinality(PlainAfter(h, i)) \in Nat
<1>1. IsFiniteSet(i + 1 .. Len(h)) /\ PlainAfter(h, i) \in SUBSET (i + 1 .. Len(h))
  BY FS_Interval DEF PlainAfter
<1>2. IsFiniteSet(PlainAfter(h, i))
  BY <1>1, FS_Subset
<1> QED BY <1>2, FS_CardinalityType

\* As many when the turns before it are forgotten.
LEMMA PlainShifted ==
  ASSUME NEW h \in Seq(Reducer!Observation), NEW g \in Seq(Reducer!Observation),
         NEW d \in 0 .. Len(h), Len(g) = Len(h) - d,
         \A j \in 1 .. Len(g) : g[j] = h[j + d],
         NEW i \in 1 .. Len(g)
  PROVE  Cardinality(PlainAfter(g, i)) = Cardinality(PlainAfter(h, i + d))
<1> DEFINE A == PlainAfter(g, i)
           B == PlainAfter(h, i + d)
           f == [j \in A |-> j + d]
<1>1. \A j \in A : j + d \in B
  BY DEF PlainAfter
<1>2. \A j \in B : j - d \in A /\ (j - d) + d = j
  BY DEF PlainAfter
<1>3. A \subseteq Int
  BY DEF PlainAfter
<1> HIDE DEF A, B
<1>4. f \in Bijection(A, B)
  <2>1. f \in [A -> B]
    BY <1>1
  <2>2. \A a, b \in A : f[a] = f[b] => a = b
    BY <1>3
  <2>3. \A b \in B : \E a \in A : f[a] = b
    BY <1>2
  <2> QED BY <2>1, <2>2, <2>3 DEF Bijection, Injection, Surjection, IsInjective
<1>5. ExistsBijection(A, B)
  BY <1>4 DEF ExistsBijection
<1>6. IsFiniteSet(A)
  BY PlainFinite DEF A
<1> QED BY <1>5, <1>6, FS_Bijection DEF A, B

\* One more when a plain turn follows.
LEMMA PlainAppended ==
  ASSUME NEW h \in Seq(Reducer!Observation), NEW o \in Reducer!Observation,
         NEW i \in 1 .. Len(h)
  PROVE  Cardinality(PlainAfter(Append(h, o), i))
           = Cardinality(PlainAfter(h, i)) + (IF Reducer!IsPlain(o) THEN 1 ELSE 0)
<1> DEFINE n == Len(h) + 1
<1>1. /\ Len(Append(h, o)) = n /\ Append(h, o)[n] = o /\ n \in Nat
      /\ \A j \in 1 .. Len(h) : Append(h, o)[j] = h[j]
  OBVIOUS
<1>2. n \notin PlainAfter(h, i)
  BY DEF PlainAfter
<1>3. CASE Reducer!IsPlain(o)
  <2>1. PlainAfter(Append(h, o), i) = PlainAfter(h, i) \cup {n}
    BY <1>1, <1>3 DEF PlainAfter
  <2>2. IsFiniteSet(PlainAfter(h, i)) /\ Cardinality(PlainAfter(h, i)) \in Nat
    BY PlainFinite
  <2>3. Cardinality(PlainAfter(h, i) \cup {n}) = Cardinality(PlainAfter(h, i)) + 1
    BY <1>2, <2>2, FS_AddElement
  <2> QED BY <1>3, <2>1, <2>3
<1>4. CASE ~Reducer!IsPlain(o)
  <2>1. PlainAfter(Append(h, o), i) = PlainAfter(h, i)
    BY <1>1, <1>4 DEF PlainAfter
  <2> QED BY <1>4, <2>1, PlainFinite
<1> QED BY <1>3, <1>4

-----------------------------------------------------------------------------
(* One turn. *)

\* What the state keeps of the turns that are remembered.
Remembers(s, h) ==
  /\ \A i \in 1 .. Len(h) :
       IsUpset(h[i]) => s.deescalation_hold + Cardinality(PlainAfter(h, i)) >= 3
  /\ Len(h) >= 1 /\ HasFailed(h[Len(h)]) => s.repair_streak >= 1
  /\ Len(h) >= 2 /\ HasFailed(h[Len(h)]) /\ HasFailed(h[Len(h) - 1]) => s.repair_streak >= 2

\* What the directive shows of the state.
Shows(s, x) ==
  /\ s.deescalation_hold > 0 => x.mode = "deescalating"
  /\ s.repair_streak >= 2 \/ s.explicit_pace = "slower" => x.mode \in {"guided", "deescalating"}
  /\ x.control = IF s.terminal_control = None THEN "CONTINUE" ELSE s.terminal_control
  /\ s.explicit_pace = "slower" =>
       /\ x.pace = "slower"
       /\ \/ x.controls.reminder_after >= 120
          \/ s.silence_count > 0 \/ x.control # "CONTINUE"

ReducerInv == Kept /\ state.deescalation_hold <= 3 /\ Remembers(state, heard) /\ Shows(state, directive)

\* The directive of a turn shows the next state.
LEMMA Directed ==
  ASSUME NEW s, NEW n, NEW o, NEW open, n.silence_count \in Nat,
         n.deescalation_hold \in Nat, n.repair_streak \in Nat,
         n.deescalation_hold > 0 => n.mode = "deescalating",
         n.deescalation_hold = 0 /\ (n.explicit_pace = "slower" \/ n.repair_streak >= 2)
           => n.mode = "guided"
  PROVE  Shows(n, Reducer!Directive(s, n, o, open))
<1> DEFINE x == Reducer!Directive(s, n, o, open)
           pace == Reducer!EffectivePace(n)
           recent == o.interrupted \/ n.interruption_pressure >= 3
           control == IF n.terminal_control = None THEN "CONTINUE" ELSE n.terminal_control
           values == Reducer!RetellValues(n.mode, pace, recent, n.silence_count, control # "CONTINUE")
<1>1. x.mode = n.mode /\ x.control = control /\ x.pace = pace /\ x.controls = values
  BY DEF Reducer!Directive
<1>2. n.explicit_pace = "slower" \/ n.repair_streak >= 2 => n.mode \in {"guided", "deescalating"}
  OBVIOUS
<1>3. ASSUME n.explicit_pace = "slower"
      PROVE  pace = "slower"
  BY <1>3 DEF Reducer!EffectivePace
<1>4. ASSUME n.explicit_pace = "slower", n.silence_count = 0, control = "CONTINUE"
      PROVE  values.reminder_after >= 120
  <2>1. ASSUME NEW mode \in {"guided", "deescalating"}, NEW r \in BOOLEAN
        PROVE  Reducer!RetellValues(mode, "slower", r, 0, FALSE).reminder_after >= 120
    BY DEF Reducer!RetellValues, Reducer!AtMost, Reducer!AtLeast
  <2>2. PICK r \in BOOLEAN : r = recent
    BY Zenon
  <2>3. values = Reducer!RetellValues(n.mode, "slower", r, 0, FALSE)
    <3>1. (control # "CONTINUE") = FALSE
      BY <1>4, Zenon
    <3>2. pace = "slower"
      BY <1>3, <1>4
    <3> HIDE DEF control, pace, recent
    <3> QED BY <1>4, <2>2, <3>1, <3>2, Zenon
  <2> QED BY <1>2, <1>4, <2>1, <2>3
<1> HIDE DEF x, values, control, pace
<1>5. n.explicit_pace = "slower" =>
        \/ x.controls.reminder_after >= 120
        \/ n.silence_count > 0 \/ x.control # "CONTINUE"
  BY <1>1, <1>4
<1> QED BY <1>1, <1>2, <1>3, <1>5 DEF Shows, x, control

\* What is remembered stays so in a turn, s being the state before, t what
\* Sanitize makes of it, and n the next one.
LEMMA RemembersNext ==
  ASSUME NEW s, NEW t, NEW n, NEW h \in Seq(Reducer!Observation), NEW o \in Reducer!Observation,
         s.deescalation_hold \in 0 .. 3, s.repair_streak \in Nat,
         t.deescalation_hold = s.deescalation_hold,
         t.repair_streak = Reducer!AtMost(4, s.repair_streak),
         n.repair_streak \in Nat, n.deescalation_hold \in Nat,
         HasFailed(o) => n.repair_streak = Reducer!AtMost(4, t.repair_streak + 1),
         IsUpset(o) => n.deescalation_hold = 3,
         ~IsUpset(o) => n.deescalation_hold
                          = IF Reducer!IsPlain(o) THEN Reducer!Down(t.deescalation_hold)
                            ELSE t.deescalation_hold,
         Remembers(s, h)
  PROVE  Remembers(n, Reducer!Latest(Append(h, o), Lookback))
<1> DEFINE a == Append(h, o)
           g == Reducer!Latest(a, Lookback)
<1>1. /\ a \in Seq(Reducer!Observation) /\ Len(a) = Len(h) + 1 /\ a[Len(h) + 1] = o
      /\ Len(h) \in Nat /\ \A i \in 1 .. Len(h) : a[i] = h[i]
  OBVIOUS
<1>2. Remembers(n, a)
  <2>1. ASSUME NEW i \in 1 .. Len(a), IsUpset(a[i])
        PROVE  n.deescalation_hold + Cardinality(PlainAfter(a, i)) >= 3
    <3>1. Cardinality(PlainAfter(a, i)) \in Nat
      <4>1. i \in Nat /\ a \in Seq(Reducer!Observation)
        BY <1>1
      <4> HIDE DEF a
      <4> QED BY <4>1, PlainFinite
    <3>2. CASE i = Len(h) + 1
      BY <1>1, <2>1, <3>1, <3>2
    <3>3. CASE i \in 1 .. Len(h)
      <4>1. s.deescalation_hold + Cardinality(PlainAfter(h, i)) >= 3
        BY <1>1, <2>1, <3>3 DEF Remembers
      <4>2. Cardinality(PlainAfter(a, i))
              = Cardinality(PlainAfter(h, i)) + (IF Reducer!IsPlain(o) THEN 1 ELSE 0)
        BY <3>3, PlainAppended
      <4>3. Cardinality(PlainAfter(h, i)) \in Nat
        BY PlainFinite
      <4>4. n.deescalation_hold >= s.deescalation_hold - (IF Reducer!IsPlain(o) THEN 1 ELSE 0)
        BY DEF Reducer!Down, Reducer!AtLeast
      <4> QED BY <4>1, <4>2, <4>3, <4>4
    <3> QED BY <1>1, <3>2, <3>3
  <2>2. HasFailed(a[Len(a)]) => n.repair_streak >= 1
    BY <1>1 DEF Reducer!AtMost
  <2>3. ASSUME Len(a) >= 2, HasFailed(a[Len(a)]), HasFailed(a[Len(a) - 1])
        PROVE  n.repair_streak >= 2
    <3>1. Len(h) >= 1 /\ a[Len(a) - 1] = h[Len(h)]
      BY <1>1, <2>3
    <3>2. s.repair_streak >= 1
      BY <2>3, <3>1 DEF Remembers
    <3> QED BY <1>1, <2>3, <3>2 DEF Reducer!AtMost
  <2> QED BY <2>1, <2>2, <2>3 DEF Remembers
<1>3. Lookback \in Nat
  BY TalkAssumption DEF Reducer!BehaviorAssumption
<1>4. /\ g \in Seq(Reducer!Observation)
      /\ \E d \in 0 .. Len(a) :
           Len(g) = Len(a) - d /\ \A i \in 1 .. Len(a) - d : g[i] = a[i + d]
  <2> HIDE DEF a
  <2>1. a \in Seq(Reducer!Observation)
    BY <1>1
  <2> QED BY <1>3, <2>1, LatestIsEnd
<1> HIDE DEF a, g
<1>5. PICK d \in 0 .. Len(a) :
        Len(g) = Len(a) - d /\ \A i \in 1 .. Len(g) : g[i] = a[i + d]
  BY <1>4
<1>6. ASSUME NEW i \in 1 .. Len(g), IsUpset(g[i])
      PROVE  n.deescalation_hold + Cardinality(PlainAfter(g, i)) >= 3
  <2>1. Cardinality(PlainAfter(g, i)) = Cardinality(PlainAfter(a, i + d))
    BY <1>1, <1>4, <1>5, PlainShifted
  <2>2. i + d \in 1 .. Len(a) /\ IsUpset(a[i + d])
    BY <1>1, <1>4, <1>5, <1>6
  <2> QED BY <1>2, <2>1, <2>2 DEF Remembers
<1>7. /\ Len(g) >= 1 => g[Len(g)] = a[Len(a)] /\ Len(a) >= 1
      /\ Len(g) >= 2 => g[Len(g) - 1] = a[Len(a) - 1] /\ Len(a) >= 2
  BY <1>1, <1>4, <1>5
<1> QED BY <1>2, <1>6, <1>7 DEF Remembers, g, a

\* What a turn makes of state, directive, history and tally: the reducer works
\* on the sanitized state and on what was understood.
LEMMA TurnKeeps ==
  ASSUME ReducerInv, NEW observation \in Observations, NEW open \in BOOLEAN,
         Reducer!Turn(observation, open)
  PROVE  /\ ReducerInv'
         /\ state.terminal_control = "END_CALL" =>
              state'.terminal_control = "END_CALL" /\ directive'.control = "END_CALL"
         /\ state.terminal_control # "END_CALL" /\ state'.terminal_control = "END_CALL" =>
              Earned(state'.terminal_reason)
<1> DEFINE s == Reducer!Sanitize(state)
           o == Reducer!Understood(observation)
           n == Reducer!NextState(s, o, open)
<1>1. /\ state' = n /\ directive' = Reducer!Directive(s, n, o, open)
      /\ heard' = Reducer!Latest(Append(heard, o), Lookback)
      /\ tally' = Reducer!Tallied(o)
  BY DEF Reducer!Turn
<1>2. o \in Reducer!Observation
  BY UnderstoodTyped
<1>3. /\ s = [f \in Fields |-> s[f]]
      /\ s.explicit_pace = state.explicit_pace
      /\ s.terminal_control = state.terminal_control
      /\ s.repair_streak = Reducer!AtMost(4, state.repair_streak)
      /\ s.silence_count = Reducer!AtMost(3, state.silence_count)
      /\ s.boundary_strikes = Reducer!AtMost(3, state.boundary_strikes)
      /\ s.deescalation_hold = Reducer!AtMost(3, state.deescalation_hold)
      /\ s.stable_turns = Reducer!AtMost(2, state.stable_turns)
  BY SanitizedFields DEF ReducerInv, Kept
<1>4. /\ s.repair_streak \in Nat /\ s.silence_count \in Nat /\ s.boundary_strikes \in Nat
      /\ s.deescalation_hold \in Nat /\ s.stable_turns \in Nat
      /\ s.deescalation_hold = state.deescalation_hold /\ state.deescalation_hold \in 0 .. 3
  <2> HIDE DEF s
  <2> QED BY <1>3 DEF ReducerInv, Kept, IsState, Reducer!AtMost
<1> HIDE DEF s, o
<1>5. /\ Reducer!RepairAfter(s, o).streak \in Nat
      /\ Reducer!RepairAfter(s, o).stable \in Nat
      /\ HasFailed(o) => Reducer!RepairAfter(s, o).streak = Reducer!AtMost(4, s.repair_streak + 1)
      /\ Reducer!SilenceAfter(s, o)
           = IF o.kind = "silent" THEN Reducer!AtMost(3, s.silence_count + 1) ELSE 0
      /\ Reducer!BoundaryAfter(s, o).strikes \in Nat
      /\ Reducer!BoundaryAfter(s, o).strikes
           <= IF o.boundary = None THEN s.boundary_strikes
              ELSE IF o.severe THEN 3 ELSE Reducer!AtMost(3, s.boundary_strikes + 1)
      /\ Reducer!DeescalationAfter(s, o) \in Nat
      /\ IsUpset(o) => Reducer!DeescalationAfter(s, o) = 3
      /\ ~IsUpset(o) => Reducer!DeescalationAfter(s, o)
                          = IF Reducer!IsPlain(o) THEN Reducer!Down(s.deescalation_hold)
                            ELSE s.deescalation_hold
  BY <1>2, <1>4, Counters
<1>6. LET terminal == Reducer!TerminalAfter(s, o, open, n.boundary_strikes, n.silence_count)
      IN  /\ n = [f \in Fields |-> n[f]]
          /\ n.repair_streak = Reducer!RepairAfter(s, o).streak
          /\ n.stable_turns = Reducer!RepairAfter(s, o).stable
          /\ n.silence_count = Reducer!SilenceAfter(s, o)
          /\ n.boundary_strikes = Reducer!BoundaryAfter(s, o).strikes
          /\ n.deescalation_hold = Reducer!DeescalationAfter(s, o)
          /\ n.terminal_control = terminal.control
          /\ n.terminal_reason = terminal.reason
          /\ n.deescalation_hold > 0 => n.mode = "deescalating"
          /\ /\ n.deescalation_hold = 0
             /\ n.explicit_pace = "slower" \/ n.repair_streak >= 2
             => n.mode = "guided"
  BY <1>5, NextFields
<1> HIDE DEF n
<1>7. n.silence_count \in Nat /\ n.boundary_strikes \in Nat /\ n.deescalation_hold \in Nat
      /\ n.repair_streak \in Nat /\ n.stable_turns \in Nat
  BY <1>4, <1>5, <1>6 DEF Reducer!AtMost
<1>8. IsState(state')
  BY <1>1, <1>6, <1>7 DEF IsState
<1>9. Shows(state', directive')
  BY <1>1, <1>6, <1>7, Directed
<1>10. Remembers(state', heard') /\ heard' \in Seq(Reducer!Observation)
  <2>1. heard \in Seq(Reducer!Observation) /\ Remembers(state, heard) /\ state.repair_streak \in Nat
    BY DEF ReducerInv, Kept, IsState
  <2>2. Remembers(n, Reducer!Latest(Append(heard, o), Lookback))
    BY <1>2, <1>3, <1>4, <1>5, <1>6, <1>7, <2>1, RemembersNext
  <2>3. Append(heard, o) \in Seq(Reducer!Observation) /\ Lookback \in Nat
    BY <1>2, <2>1, TalkAssumption DEF Reducer!BehaviorAssumption
  <2>4. Reducer!Latest(Append(heard, o), Lookback) \in Seq(Reducer!Observation)
    BY <2>3, LatestIsEnd
  <2> QED BY <1>1, <2>2, <2>4
<1>11. /\ tally' \in Tallies
       /\ state'.silence_count <= tally'.silent
       /\ tally'.severe \/ state'.boundary_strikes <= tally'.crossings
       /\ tally'.crossing = (o.boundary # None)
  <2>1. /\ tally.silent \in Nat /\ tally.crossings \in Nat /\ tally.severe \in BOOLEAN
        /\ state.silence_count \in Nat /\ state.boundary_strikes \in Nat
        /\ state.silence_count <= tally.silent
        /\ tally.severe \/ state.boundary_strikes <= tally.crossings
    BY DEF ReducerInv, Kept, Tallies, IsState
  <2>2. o.severe \in BOOLEAN
    BY <1>2 DEF Reducer!Observation
  <2> DEFINE silent == IF o.kind = "silent" THEN Reducer!AtMost(3, tally.silent + 1) ELSE 0
             crossings == IF o.boundary = None THEN tally.crossings
                          ELSE Reducer!AtMost(3, tally.crossings + 1)
             severe == tally.severe \/ o.severe
             crossing == o.boundary # None
  <2>3. tally' = [silent |-> silent, crossings |-> crossings, severe |-> severe,
                  crossing |-> crossing]
    BY <1>1 DEF Reducer!Tallied
  <2>4. silent \in Nat /\ crossings \in Nat
    BY <2>1 DEF Reducer!AtMost
  <2>5. severe \in BOOLEAN /\ crossing \in BOOLEAN
    BY Zenon
  <2>6. n.silence_count <= silent
    BY <1>3, <1>5, <1>6, <2>1 DEF Reducer!AtMost
  <2>7. severe \/ n.boundary_strikes <= crossings
    <3>1. CASE o.severe \/ tally.severe
      BY <3>1, Zenon
    <3>2. CASE ~o.severe /\ ~tally.severe
      <4>1. n.boundary_strikes <= crossings
        BY <1>3, <1>5, <1>6, <1>7, <2>1, <3>2 DEF Reducer!AtMost
      <4> QED BY <4>1
    <3> QED BY <3>1, <3>2
  <2> HIDE DEF silent, crossings, severe, crossing
  <2>8. /\ tally' \in Tallies /\ tally'.silent = silent /\ tally'.crossings = crossings
        /\ tally'.severe = severe /\ tally'.crossing = crossing
    BY <2>3, <2>4, <2>5 DEF Tallies
  <2>9. tally'.severe \/ n.boundary_strikes <= tally'.crossings
    BY <2>7, <2>8, Zenon
  <2> QED BY <1>1, <2>6, <2>8, <2>9 DEF crossing
<1>12. state'.deescalation_hold <= 3
  BY <1>1, <1>4, <1>5, <1>6 DEF Reducer!Down, Reducer!AtLeast
<1>13. ReducerInv'
  BY <1>8, <1>9, <1>10, <1>11, <1>12 DEF ReducerInv, Kept
<1> DEFINE t == Reducer!TerminalAfter(s, o, open, n.boundary_strikes, n.silence_count)
<1>14. /\ s.terminal_control = "END_CALL" => t.control = "END_CALL"
       /\ s.terminal_control # "END_CALL" /\ t.control = "END_CALL" =>
            \/ t.reason = "silence" /\ n.silence_count >= 3
            \/ t.reason = "boundary" /\ o.boundary # None /\ n.boundary_strikes >= 3
  BY <1>7, EndsCall
<1>15. state'.terminal_control = t.control /\ state'.terminal_reason = t.reason
  BY <1>1, <1>6
<1> HIDE DEF t
<1>16. ASSUME state.terminal_control = "END_CALL"
       PROVE  state'.terminal_control = "END_CALL" /\ directive'.control = "END_CALL"
  <2>1. None # "END_CALL"
    BY TalkAssumption DEF Reducer!BehaviorAssumption, Reducer!Controls
  <2> QED BY <1>3, <1>9, <1>14, <1>15, <1>16, <2>1 DEF Shows
<1>17. ASSUME state.terminal_control # "END_CALL", state'.terminal_control = "END_CALL"
       PROVE  Earned(state'.terminal_reason)
  <2>1. \/ t.reason = "silence" /\ n.silence_count >= 3
        \/ t.reason = "boundary" /\ o.boundary # None /\ n.boundary_strikes >= 3
    BY <1>3, <1>14, <1>15, <1>17
  <2>2. tally'.silent \in Nat /\ tally'.crossings \in Nat
    BY <1>11 DEF Tallies
  <2>3. CASE t.reason = "silence" /\ n.silence_count >= 3
    <3>1. tally'.silent >= 3
      BY <1>1, <1>7, <1>11, <2>2, <2>3
    <3> QED BY <1>15, <2>3, <3>1, Zenon DEF Earned
  <2>4. CASE t.reason = "boundary" /\ o.boundary # None /\ n.boundary_strikes >= 3
    <3>1. tally'.severe \/ n.boundary_strikes <= tally'.crossings
      BY <1>1, <1>11
    <3>2. n.boundary_strikes <= tally'.crossings => tally'.crossings >= 3
      BY <1>7, <2>2, <2>4
    <3>3. tally'.crossing
      BY <1>11, <2>4, Zenon
    <3> QED BY <1>15, <2>4, <3>1, <3>2, <3>3, Zenon DEF Earned
  <2> QED BY <2>1, <2>3, <2>4
<1> QED BY <1>13, <1>16, <1>17

\* The invariant of the reducer.
LEMMA ReducerInit == Reducer!Init => ReducerInv
<1> SUFFICES ASSUME Reducer!Init PROVE ReducerInv
  OBVIOUS
<1>1. state = Reducer!InitialState /\ heard = <<>>
  BY DEF Reducer!Init
<1>2. /\ state = [f \in Fields |-> state[f]] /\ state.repair_streak = 0 /\ state.silence_count = 0
      /\ state.boundary_strikes = 0 /\ state.deescalation_hold = 0 /\ state.stable_turns = 0
      /\ state.terminal_control = None /\ state.explicit_pace = None
  BY <1>1 DEF Reducer!InitialState, Fields
<1>3. tally \in Tallies /\ tally.silent = 0 /\ tally.crossings = 0
  BY DEF Reducer!Init, Tallies
<1>4. None # "slower"
  BY TalkAssumption DEF Reducer!BehaviorAssumption, Reducer!Paces
<1>5. directive.control = "CONTINUE"
  BY DEF Reducer!Init
<1>6. Shows(state, directive)
  BY <1>2, <1>4, <1>5 DEF Shows
<1>7. heard \in Seq(Reducer!Observation) /\ Len(heard) = 0
  BY <1>1
<1>8. Remembers(state, heard)
  BY <1>7 DEF Remembers
<1>9. Kept
  BY <1>2, <1>3, <1>7 DEF Kept, IsState
<1> QED BY <1>2, <1>6, <1>8, <1>9 DEF ReducerInv

LEMMA ReducerNext ==
  ReducerInv /\ [Reducer!Next]_talkVars => ReducerInv'
<1>1. ASSUME ReducerInv, NEW o \in Observations, NEW open \in BOOLEAN, Reducer!Turn(o, open)
      PROVE  ReducerInv'
  BY <1>1, TurnKeeps
<1>2. ASSUME ReducerInv, UNCHANGED talkVars PROVE ReducerInv'
  BY <1>2 DEF talkVars, ReducerInv, Kept
<1> QED BY <1>1, <1>2 DEF Reducer!Next

LEMMA ReducerInvariant == Reducer!Spec => []ReducerInv
<1>1. ReducerInv /\ [Reducer!Next]_(Reducer!vars) => ReducerInv'
  BY ReducerNext DEF talkVars, Reducer!vars
<1> QED BY <1>1, ReducerInit, PTL DEF Reducer!Spec

\* AskedPaceWins: a caller who asked to go slower is answered slower, in a guided
\* or calm tone and with a late reminder, whatever was measured and however the
\* turns came (EffectivePace, ChooseMode and RetellValues).
THEOREM AskedPaceKept == Reducer!Spec => []AskedPaceWins
<1>1. ReducerInv => AskedPaceWins
  BY DEF ReducerInv, Shows, AskedPaceWins
<1> QED BY <1>1, ReducerInvariant, PTL

\* ToneIsHeld: after a complaint or a boundary turn the mode is de-escalating
\* until three plain turns have passed, and after two failed turns in a row it is
\* at least guided (the hold, the streak and ChooseMode).
THEOREM ToneKept == Reducer!Spec => []ToneIsHeld
<1>1. ASSUME ReducerInv PROVE ToneIsHeld
  <2>1. state.deescalation_hold \in Nat /\ Len(heard) \in Nat /\ DOMAIN heard = 1 .. Len(heard)
        /\ heard \in Seq(Reducer!Observation)
    BY <1>1 DEF ReducerInv, Kept, IsState
  <2>2. ASSUME NEW i \in DOMAIN heard, IsUpset(heard[i]),
               Cardinality(PlainAfter(heard, i)) < Reducer!HoldTurns
        PROVE  directive.mode = "deescalating"
    <3>1. Cardinality(PlainAfter(heard, i)) \in Nat
      BY <2>1, PlainFinite
    <3>2. state.deescalation_hold + Cardinality(PlainAfter(heard, i)) >= 3
      BY <1>1, <2>1, <2>2 DEF ReducerInv, Remembers
    <3>3. state.deescalation_hold > 0
      BY <2>1, <2>2, <3>1, <3>2 DEF Reducer!HoldTurns
    <3> QED BY <1>1, <3>3 DEF ReducerInv, Shows
  <2>3. ASSUME Len(heard) >= 2, \A i \in {Len(heard) - 1, Len(heard)} : HasFailed(heard[i])
        PROVE  directive.mode \in {"guided", "deescalating"}
    BY <1>1, <2>1, <2>3 DEF ReducerInv, Remembers, Shows
  <2> QED BY <2>2, <2>3 DEF ToneIsHeld
<1> QED BY <1>1, ReducerInvariant, PTL

\* EndIsEarned: the reducer ends a call only for three silences in a row or for
\* boundary turns, three or a severe one, and never takes an end back
\* (BoundaryAfter, SilenceAfter and TerminalAfter).
THEOREM EndsAreEarned == Reducer!Spec => EndIsEarned
<1> DEFINE A == /\ state.terminal_control # "END_CALL" /\ state'.terminal_control = "END_CALL" =>
                     Earned(state'.terminal_reason)
                /\ state.terminal_control = "END_CALL" =>
                     state'.terminal_control = "END_CALL" /\ directive'.control = "END_CALL"
<1>1. ASSUME ReducerInv, NEW o \in Observations, NEW open \in BOOLEAN, Reducer!Turn(o, open)
      PROVE  A
  BY <1>1, TurnKeeps
<1>2. ReducerInv /\ [Reducer!Next]_(Reducer!vars) => [A]_talkVars
  BY <1>1 DEF Reducer!Next, talkVars, Reducer!vars
<1> QED BY <1>2, ReducerInvariant, PTL DEF Reducer!Spec, EndIsEarned

-----------------------------------------------------------------------------
(* The pace: medians of a few samples. *)

\* The module Behavior brings a Cardinality of its own.
LEMMA SameCount == \A S : Reducer!Cardinality(S) = Cardinality(S)
BY DEF Reducer!Cardinality, Cardinality

Rates == {x \in Nat : 45000 <= x /\ x <= 320000}

LEMMA RatesAre == \A x \in Rates : x \in Nat /\ x \in Int /\ 45000 <= x /\ x <= 320000
BY DEF Rates

\* Every nonempty set of rates has a least element and a greatest one.
LEMMA LeastNumber ==
  ASSUME NEW S, \A x \in S : x \in Nat, S # {}
  PROVE \E m \in S : \A n \in S : m <= n
<1>1. \E R : IsWellFoundedOn(R, Nat) /\ \A m, n \in Nat : <<n, m>> \in R <=> n < m
  <2>1. \A m, n \in Nat : <<n, m>> \in OpToRel(<, Nat) <=> n < m
    BY DEF OpToRel
  <2> QED BY NatLessThanWellFounded, <2>1
<1>2. PICK R : IsWellFoundedOn(R, Nat) /\ \A m, n \in Nat : <<n, m>> \in R <=> n < m
  BY <1>1
<1>3. S \in SUBSET Nat
  OBVIOUS
<1>4. PICK m \in S : \A n \in S : ~(<<n, m>> \in R)
  BY <1>2, <1>3, WFMin
<1>5. ASSUME NEW n \in S PROVE m <= n
  <2>1. m \in Nat /\ n \in Nat /\ ~(<<n, m>> \in R)
    BY <1>4
  <2>2. ~(n < m)
    BY <1>2, <2>1
  <2> QED BY <2>1, <2>2
<1> QED BY <1>5

LEMMA GreatestNumber ==
  ASSUME NEW S, \A x \in S : x \in Rates, S # {}
  PROVE \E m \in S : \A n \in S : n <= m
<1> DEFINE mirror(x) == 365000 - x
           T == {mirror(x) : x \in S}
<1>1. \A x \in S : x \in Int /\ mirror(x) \in Nat
  BY RatesAre
<1> HIDE DEF mirror
<1>2. (\A y \in T : y \in Nat) /\ T # {}
  BY <1>1
<1>3. PICK m \in T : \A n \in T : m <= n
  <2> HIDE DEF T
  <2> QED BY <1>2, LeastNumber
<1>4. PICK x \in S : m = mirror(x)
  OBVIOUS
<1>5. ASSUME NEW n \in S PROVE n <= x
  <2>1. mirror(x) <= mirror(n)
    BY <1>3, <1>4
  <2>2. n \in Int /\ x \in Int
    BY <1>1
  <2> QED BY <2>1, <2>2 DEF mirror
<1> QED BY <1>5

\* The samples on one side of a rate.
LEMMA SidesFinite ==
  ASSUME NEW n \in Nat, NEW S \in SUBSET (1 .. n)
  PROVE  /\ IsFiniteSet(S) /\ Cardinality(S) \in Nat /\ Cardinality(S) <= n
         /\ \A T \in SUBSET S : Cardinality(T) <= Cardinality(S)
         /\ Cardinality((1 .. n) \ S) = n - Cardinality(S)
         /\ Cardinality(1 .. n) = n
<1> DEFINE all == 1 .. n
<1>1. IsFiniteSet(all) /\ Cardinality(all) = n
  <2>1. 1 \in Int /\ n \in Int /\ n >= 0
    OBVIOUS
  <2>2. IsFiniteSet(1 .. n) /\ Cardinality(1 .. n) = IF 1 > n THEN 0 ELSE n - 1 + 1
    BY <2>1, FS_Interval
  <2> QED BY <2>1, <2>2
<1> HIDE DEF all
<1>2. S \in SUBSET all
  BY DEF all
<1>3. IsFiniteSet(S) /\ Cardinality(S) <= n
  BY <1>1, <1>2, FS_Subset
<1>4. Cardinality(S) \in Nat
  BY <1>3, FS_CardinalityType
<1>5. \A T \in SUBSET S : Cardinality(T) <= Cardinality(S)
  BY <1>3, FS_Subset
<1>6. Cardinality(all \ S) = Cardinality(all) - Cardinality(all \cap S) /\ all \cap S = S
  <2>1. all \cap S = S
    BY <1>2
  <2> QED BY <1>1, <2>1, FS_Difference
<1> QED BY <1>1, <1>3, <1>4, <1>5, <1>6 DEF all

\* How many samples are up to a rate, and from it on.
Below(q, x) == Cardinality(Reducer!UpTo(q, x))
Above(q, x) == Cardinality(Reducer!DownTo(q, x))

LEMMA Samples ==
  ASSUME NEW q \in Seq(Rates)
  PROVE  /\ Len(q) \in Nat /\ DOMAIN q = 1 .. Len(q)
         /\ \A i \in 1 .. Len(q) : q[i] \in Rates /\ q[i] \in Reducer!Image(q)
         /\ \A x \in Reducer!Image(q) : x \in Rates /\ \E i \in 1 .. Len(q) : x = q[i]
         /\ \A x : /\ Reducer!UpTo(q, x) \in SUBSET (1 .. Len(q))
                   /\ Reducer!DownTo(q, x) \in SUBSET (1 .. Len(q))
                   /\ Below(q, x) \in Nat /\ Above(q, x) \in Nat
<1>1. Len(q) \in Nat /\ DOMAIN q = 1 .. Len(q)
  OBVIOUS
<1>2. \A i \in 1 .. Len(q) : q[i] \in Rates
  OBVIOUS
<1>3. \A i \in 1 .. Len(q) : q[i] \in Reducer!Image(q)
  BY <1>1 DEF Reducer!Image
<1>4. \A x \in Reducer!Image(q) : x \in Rates /\ \E i \in 1 .. Len(q) : x = q[i]
  BY <1>1, <1>2 DEF Reducer!Image
<1>5. ASSUME NEW x
      PROVE  /\ Reducer!UpTo(q, x) \in SUBSET (1 .. Len(q))
             /\ Reducer!DownTo(q, x) \in SUBSET (1 .. Len(q))
             /\ Below(q, x) \in Nat /\ Above(q, x) \in Nat
  <2>1. Reducer!UpTo(q, x) \in SUBSET (1 .. Len(q)) /\ Reducer!DownTo(q, x) \in SUBSET (1 .. Len(q))
    BY <1>1 DEF Reducer!UpTo, Reducer!DownTo
  <2>2. Below(q, x) \in Nat /\ Above(q, x) \in Nat
    BY <1>1, <2>1, SidesFinite DEF Below, Above
  <2> QED BY <2>1, <2>2
<1> QED BY <1>1, <1>2, <1>3, <1>4, <1>5

\* All samples are up to the greatest, and from the least on.
LEMMA Everyone ==
  ASSUME NEW q \in Seq(Rates), Len(q) >= 1
  PROVE  /\ \E g \in Reducer!Image(q) : Below(q, g) = Len(q)
         /\ \E g \in Reducer!Image(q) : Above(q, g) = Len(q)
<1> DEFINE n == Len(q)
           values == Reducer!Image(q)
<1>1. /\ n \in Nat /\ DOMAIN q = 1 .. n
      /\ \A i \in 1 .. n : q[i] \in Rates /\ q[i] \in values
      /\ \A x \in values : x \in Rates
  BY Samples
<1>2. values # {}
  <2>1. 1 \in 1 .. n
    BY <1>1
  <2> QED BY <1>1, <2>1, Zenon
<1> HIDE DEF values, n
<1>3. PICK g \in values : \A x \in values : x <= g
  BY <1>1, <1>2, GreatestNumber
<1>4. PICK l \in values : \A x \in values : l <= x
  <2>1. \A x \in values : x \in Nat
    BY <1>1, RatesAre
  <2> QED BY <1>2, <2>1, LeastNumber
<1>5. Reducer!UpTo(q, g) = 1 .. n
  BY <1>1, <1>3 DEF Reducer!UpTo
<1>6. Reducer!DownTo(q, l) = 1 .. n
  <2>1. \A i \in 1 .. n : l <= q[i] /\ l \in Int /\ q[i] \in Int
    BY <1>1, <1>4, RatesAre
  <2>2. \A i \in 1 .. n : q[i] >= l
    BY <2>1
  <2> QED BY <1>1, <2>2 DEF Reducer!DownTo
<1>7. Cardinality(1 .. n) = n
  BY <1>1, SidesFinite
<1>8. Below(q, g) = n /\ Above(q, l) = n
  BY <1>5, <1>6, <1>7 DEF Below, Above
<1> QED BY <1>3, <1>4, <1>8 DEF values, n

\* The lower middle is not above the upper one, and at least half of the samples
\* are on each side.
LEMMA Middles ==
  ASSUME NEW q \in Seq(Rates), Len(q) >= 3
  PROVE  \E low, high \in Rates :
           /\ Reducer!TwiceMedian(q) = low + high /\ low <= high
           /\ 2 <= Below(q, low) /\ 2 <= Above(q, high)
<1> DEFINE n == Len(q)
           half == (n + 1) \div 2
           values == Reducer!Image(q)
           L == {x \in values : half <= Below(q, x)}
           H == {x \in values : half <= Above(q, x)}
           low == CHOOSE x \in L : \A y \in L : x <= y
           high == CHOOSE x \in H : \A y \in H : y <= x
<1>1. n \in Nat /\ half \in Nat /\ 2 <= half /\ half <= n /\ 2 * half <= n + 1
  OBVIOUS
<1>2. Reducer!TwiceMedian(q) = low + high
  BY SameCount, Zenon DEF Reducer!TwiceMedian, Below, Above
<1>3. /\ DOMAIN q = 1 .. n
      /\ \A i \in 1 .. n : q[i] \in Rates /\ q[i] \in values
      /\ \A x \in values : x \in Rates
      /\ \A x : Below(q, x) \in Nat /\ Above(q, x) \in Nat
      /\ \A x : Reducer!UpTo(q, x) \in SUBSET (1 .. n) /\ Reducer!DownTo(q, x) \in SUBSET (1 .. n)
  BY Samples
<1>4. /\ \E g \in values : Below(q, g) = n
      /\ \E g \in values : Above(q, g) = n
  BY <1>1, Everyone
<1> HIDE DEF half, values, n
<1>5. /\ low \in values /\ half <= Below(q, low)
      /\ \A y \in values : half <= Below(q, y) => low <= y
  <2>1. L # {} /\ \A x \in L : x \in Nat
    BY <1>1, <1>3, <1>4, RatesAre
  <2>2. \E x \in L : \A y \in L : x <= y
    <3> HIDE DEF L
    <3> QED BY <2>1, LeastNumber
  <2>3. low \in L /\ \A y \in L : low <= y
    <3> HIDE DEF L
    <3> QED BY <2>2, Zenon
  <2> HIDE DEF low
  <2> QED BY <2>3
<1>6. /\ high \in values /\ half <= Above(q, high)
      /\ \A y \in values : half <= Above(q, y) => y <= high
  <2>1. H # {} /\ \A x \in H : x \in Rates
    BY <1>1, <1>3, <1>4
  <2>2. \E x \in H : \A y \in H : y <= x
    <3> HIDE DEF H
    <3> QED BY <2>1, GreatestNumber
  <2>3. high \in H /\ \A y \in H : y <= high
    <3> HIDE DEF H
    <3> QED BY <2>2, Zenon
  <2> HIDE DEF high
  <2> QED BY <2>3
<1> HIDE DEF low, high, L, H
<1>7. low \in Rates /\ high \in Rates /\ low \in Int /\ high \in Int
  BY <1>3, <1>5, <1>6, RatesAre
<1>8. low <= high
  <2>1. SUFFICES ASSUME high < low PROVE FALSE
    BY <1>7
  <2>2. Below(q, high) < half
    <3>1. ~(half <= Below(q, high))
      BY <1>5, <1>6, <1>7, <2>1
    <3> QED BY <1>1, <1>3, <3>1
  <2> DEFINE beyond == (1 .. n) \ Reducer!UpTo(q, high)
             V == {q[i] : i \in beyond}
  <2>3. Cardinality(beyond) = n - Below(q, high)
    BY <1>1, <1>3, SidesFinite DEF Below
  <2>4. half <= Cardinality(beyond) /\ Cardinality(beyond) \in Nat
    BY <1>1, <1>3, <2>2, <2>3
  <2>5. \A i \in beyond : i \in 1 .. n /\ q[i] \in values /\ q[i] > high
    <3>1. ASSUME NEW i \in beyond PROVE i \in 1 .. n /\ q[i] \in values /\ ~(q[i] <= high) /\ q[i] \in Int
      BY <1>3, RatesAre DEF Reducer!UpTo
    <3> HIDE DEF beyond
    <3> QED BY <1>7, <3>1
  <2>6. beyond # {}
    <3>1. Cardinality({}) = 0
      BY FS_EmptySet
    <3>2. Cardinality(beyond) # 0
      BY <1>1, <2>4
    <3> QED BY <3>1, <3>2, Zenon
  <2> HIDE DEF beyond
  <2>7. V # {} /\ \A x \in V : x \in values /\ x > high
    BY <2>5, <2>6
  <2>8. PICK w \in V : \A x \in V : w <= x
    <3>1. \A x \in V : x \in Nat
      BY <1>3, <2>7, RatesAre
    <3> HIDE DEF V
    <3> QED BY <2>7, <3>1, LeastNumber
  <2>9. \A i \in beyond : q[i] >= w
    <3>1. ASSUME NEW i \in beyond PROVE w <= q[i] /\ w \in Int /\ q[i] \in Int
      <4>1. q[i] \in V
        OBVIOUS
      <4>2. q[i] \in Rates /\ w \in Rates
        BY <1>3, <2>5, <2>7, <2>8
      <4> QED BY <2>8, <4>1, <4>2, RatesAre
    <3> HIDE DEF V
    <3> QED BY <3>1
  <2>10. beyond \in SUBSET Reducer!DownTo(q, w)
    BY <1>3, <2>5, <2>9 DEF Reducer!DownTo
  <2>11. Cardinality(beyond) <= Above(q, w)
    BY <1>1, <1>3, <2>10, SidesFinite DEF Above
  <2>12. half <= Above(q, w)
    BY <1>1, <1>3, <2>4, <2>11
  <2>13. w \in values /\ w > high /\ w \in Int
    BY <1>3, <2>7, <2>8, RatesAre
  <2> QED BY <1>6, <1>7, <2>12, <2>13
<1>9. 2 <= Below(q, low) /\ 2 <= Above(q, high)
  BY <1>1, <1>3, <1>5, <1>6
<1> QED BY <1>2, <1>7, <1>8, <1>9

\* What the thresholds make of a median.
LEMMA Thresholds ==
  ASSUME NEW q, NEW previous, NEW m \in Int, m = Reducer!TwiceMedian(q), NEW p,
         p = Reducer!UpdateInferredPace(previous, q), Len(q) \in Nat
  PROVE  /\ p \notin {None, previous} =>
              /\ Len(q) >= 3
              /\ \/ p = "slower" /\ m <= 210000
                 \/ p = "faster" /\ m >= 380000
         /\ previous = "slower" /\ p # "slower" => m >= 250000
         /\ previous = "faster" /\ p # "faster" => m <= 340000
<1>1. None # "slower" /\ None # "faster"
  BY TalkAssumption DEF Reducer!BehaviorAssumption, Reducer!Paces
<1>2. CASE Len(q) < 3
  BY <1>2 DEF Reducer!UpdateInferredPace, Reducer!MinSamples
<1>3. CASE Len(q) >= 3
  <2>1. p = CASE previous = "slower" /\ m >= 380000 -> "faster"
              [] previous = "slower" /\ m < 250000 -> "slower"
              [] previous = "faster" /\ m <= 210000 -> "slower"
              [] previous = "faster" /\ m > 340000 -> "faster"
              [] previous = None /\ m <= 210000 -> "slower"
              [] previous = None /\ m >= 380000 -> "faster"
              [] OTHER -> None
    BY <1>3 DEF Reducer!UpdateInferredPace, Reducer!MinSamples, Reducer!SlowEnter, Reducer!SlowExit,
                Reducer!FastEnter, Reducer!FastExit
  <2>2. CASE previous = "slower"
    BY <1>1, <1>3, <2>1, <2>2
  <2>3. CASE previous = "faster"
    BY <1>1, <1>3, <2>1, <2>3
  <2>4. CASE previous = None
    BY <1>1, <1>3, <2>1, <2>4
  <2>5. CASE previous \notin {None, "slower", "faster"}
    BY <1>1, <1>3, <2>1, <2>5
  <2> QED BY <2>2, <2>3, <2>4, <2>5
<1> QED BY <1>2, <1>3

\* What PaceIsSteady asks of a pace, the next one and the samples behind it.
IsSteady(previous, p, q) ==
  /\ p \notin {None, previous} => 2 <= Cardinality({i \in DOMAIN q : OnItsSide(p, q[i])})
  /\ previous = "slower" /\ p # "slower" => Reducer!TwiceMedian(q) >= 2 * Reducer!SlowExit
  /\ previous = "faster" /\ p # "faster" => Reducer!TwiceMedian(q) <= 2 * Reducer!FastExit

LEMMA SteadyPace ==
  ASSUME NEW q \in Seq(Rates), NEW previous, NEW p,
         p = Reducer!UpdateInferredPace(previous, q)
  PROVE  IsSteady(previous, p, q)
<1>1. /\ Len(q) \in Nat /\ DOMAIN q = 1 .. Len(q) /\ Len(q) \in Nat
      /\ \A i \in 1 .. Len(q) : q[i] \in Rates
  BY Samples
<1>2. CASE Len(q) < 3
  <2>1. p = previous
    BY <1>2 DEF Reducer!UpdateInferredPace, Reducer!MinSamples
  <2>2. previous = "slower" /\ p # "slower" => FALSE
    BY <2>1
  <2> QED BY <2>1, <2>2, Zenon DEF IsSteady
<1>3. CASE Len(q) >= 3
  <2>1. PICK low, high \in Rates :
           /\ Reducer!TwiceMedian(q) = low + high /\ low <= high
           /\ 2 <= Below(q, low) /\ 2 <= Above(q, high)
    BY <1>3, Middles
  <2> DEFINE m == Reducer!TwiceMedian(q)
  <2>2. m \in Int /\ m = low + high /\ low \in Int /\ high \in Int
    BY <2>1, RatesAre
  <2>3. /\ p \notin {None, previous} =>
              \/ p = "slower" /\ m <= 210000
              \/ p = "faster" /\ m >= 380000
        /\ previous = "slower" /\ p # "slower" => m >= 250000
        /\ previous = "faster" /\ p # "faster" => m <= 340000
    BY <1>1, <2>2, Thresholds
  <2> HIDE DEF m
  <2> DEFINE side == {i \in DOMAIN q : OnItsSide(p, q[i])}
  <2>4. side \in SUBSET (1 .. Len(q)) /\ Cardinality(side) \in Nat
        /\ \A T \in SUBSET side : Cardinality(T) <= Cardinality(side)
    <3>1. side \in SUBSET (1 .. Len(q))
      BY <1>1
    <3> HIDE DEF side
    <3> QED BY <1>1, <3>1, SidesFinite
  <2>5. ASSUME p = "slower", m <= 210000 PROVE 2 <= Cardinality(side)
    <3>1. low <= 105000
      BY <2>1, <2>2, <2>5
    <3>2. ASSUME NEW i \in Reducer!UpTo(q, low) PROVE i \in side
      <4>1. i \in 1 .. Len(q) /\ q[i] <= low /\ q[i] \in Int
        BY <1>1, RatesAre DEF Reducer!UpTo
      <4>2. q[i] <= 105000
        BY <2>2, <3>1, <4>1
      <4> QED BY <1>1, <2>5, <4>1, <4>2 DEF OnItsSide, Reducer!SlowEnter
    <3>3. Below(q, low) <= Cardinality(side)
      <4> HIDE DEF side
      <4> QED BY <2>4, <3>2 DEF Below
    <3>4. Below(q, low) \in Nat
      BY Samples
    <3> HIDE DEF side
    <3> QED BY <2>1, <2>4, <3>3, <3>4
  <2>6. ASSUME p = "faster", m >= 380000 PROVE 2 <= Cardinality(side)
    <3>1. high >= 190000
      BY <2>1, <2>2, <2>6
    <3>2. ASSUME NEW i \in Reducer!DownTo(q, high) PROVE i \in side
      <4>1. i \in 1 .. Len(q) /\ q[i] >= high /\ q[i] \in Int
        BY <1>1, RatesAre DEF Reducer!DownTo
      <4>2. q[i] >= 190000
        BY <2>2, <3>1, <4>1
      <4> QED BY <1>1, <2>6, <4>1, <4>2 DEF OnItsSide, Reducer!FastEnter
    <3>3. Above(q, high) <= Cardinality(side)
      <4> HIDE DEF side
      <4> QED BY <2>4, <3>2 DEF Above
    <3>4. Above(q, high) \in Nat
      BY Samples
    <3> HIDE DEF side
    <3> QED BY <2>1, <2>4, <3>3, <3>4
  <2>7. p \notin {None, previous} => 2 <= Cardinality(side)
    <3> HIDE DEF side
    <3> QED BY <2>3, <2>5, <2>6
  <2>8. 2 * Reducer!SlowExit = 250000 /\ 2 * Reducer!FastExit = 340000
    BY DEF Reducer!SlowExit, Reducer!FastExit
  <2> QED BY <2>3, <2>7, <2>8 DEF m, IsSteady
<1> QED BY <1>1, <1>2, <1>3

\* Samples that are kept are plausible.
LEMMA SampleIsRate ==
  ASSUME NEW o \in Reducer!Observation, Reducer!SpeechRateSample(o) # None
  PROVE  Reducer!SpeechRateSample(o) \in Rates
<1>1. o.words \in Nat /\ o.duration \in Nat
  BY DEF Reducer!Observation
<1>2. /\ ~(o.duration < 8) /\ Reducer!IsPlausible(Reducer!RateOf(o))
      /\ Reducer!SpeechRateSample(o) = Reducer!RateOf(o)
  BY Zenon DEF Reducer!SpeechRateSample
<1>3. Reducer!RateOf(o) \in Int
  BY <1>1, <1>2, SMT DEF Reducer!RateOf
<1>4. 45000 <= Reducer!RateOf(o) /\ Reducer!RateOf(o) <= 320000
  BY <1>2, SMT DEF Reducer!IsPlausible
<1> QED BY <1>2, <1>3, <1>4, SMT DEF Rates

LEMMA SamplesAreRates ==
  ASSUME NEW s, NEW o \in Reducer!Observation, s.speech_rate_samples \in Seq(Rates)
  PROVE  /\ Reducer!PlausibleOf(s.speech_rate_samples) \in Seq(Rates)
         /\ Reducer!SamplesAfter(s, o) \in Seq(Rates)
<1> DEFINE q == s.speech_rate_samples
           sample == Reducer!SpeechRateSample(o)
<1>1. MaxSamples \in Nat
  BY TalkAssumption DEF Reducer!BehaviorAssumption
<1>2. Reducer!PlausibleOf(q) \in Seq(Rates)
  <2>1. \A i \in DOMAIN q : Reducer!IsPlausible(q[i])
    <3>1. \A i \in DOMAIN q : q[i] \in Rates
      BY Samples
    <3> QED BY <3>1 DEF Rates, Reducer!IsPlausible
  <2>2. Reducer!PlausibleOf(q) = Reducer!Latest(q, MaxSamples)
    <3> HIDE DEF q
    <3> QED BY <2>1, Zenon DEF Reducer!PlausibleOf
  <2>3. Reducer!Latest(q, MaxSamples) \in Seq(Rates)
    BY <1>1, LatestIsEnd
  <2> QED BY <2>2, <2>3
<1>3. Reducer!SamplesAfter(s, o) \in Seq(Rates)
  <2>1. CASE sample = None
    BY <2>1 DEF Reducer!SamplesAfter
  <2>2. CASE sample # None
    <3>1. sample \in Rates
      BY <2>2, SampleIsRate
    <3> DEFINE a == Append(q, sample)
    <3>2. a \in Seq(Rates)
      BY <3>1
    <3> HIDE DEF a
    <3>3. Reducer!Latest(a, MaxSamples) \in Seq(Rates)
      BY <1>1, <3>2, LatestIsEnd
    <3> QED BY <2>2, <3>3 DEF Reducer!SamplesAfter, a
  <2> QED BY <2>1, <2>2
<1> QED BY <1>2, <1>3

PaceInv == ReducerInv /\ state.speech_rate_samples \in Seq(Rates)

Steady == IsSteady(state.inferred_pace, state'.inferred_pace, state'.speech_rate_samples)

LEMMA TurnIsSteady ==
  ASSUME PaceInv, NEW observation \in Observations, NEW open \in BOOLEAN,
         Reducer!Turn(observation, open)
  PROVE  Steady /\ state'.speech_rate_samples \in Seq(Rates)
<1> DEFINE s == Reducer!Sanitize(state)
           o == Reducer!Understood(observation)
           n == Reducer!NextState(s, o, open)
<1>1. state' = n
  BY DEF Reducer!Turn
<1>2. o \in Reducer!Observation
  BY UnderstoodTyped
<1>3. /\ s.repair_streak = Reducer!AtMost(4, state.repair_streak)
      /\ s.silence_count = Reducer!AtMost(3, state.silence_count)
      /\ s.boundary_strikes = Reducer!AtMost(3, state.boundary_strikes)
      /\ s.deescalation_hold = Reducer!AtMost(3, state.deescalation_hold)
      /\ s.stable_turns = Reducer!AtMost(2, state.stable_turns)
      /\ s.speech_rate_samples = Reducer!PlausibleOf(state.speech_rate_samples)
      /\ s.inferred_pace = state.inferred_pace
  BY SanitizedFields DEF PaceInv, ReducerInv, Kept
<1>4. /\ s.repair_streak \in Nat /\ s.silence_count \in Nat /\ s.boundary_strikes \in Nat
      /\ s.deescalation_hold \in Nat /\ s.stable_turns \in Nat
  <2> HIDE DEF s
  <2> QED BY <1>3 DEF PaceInv, ReducerInv, Kept, IsState, Reducer!AtMost
<1>5. s.speech_rate_samples \in Seq(Rates)
  <2> HIDE DEF s
  <2> QED BY <1>2, <1>3, SamplesAreRates DEF PaceInv
<1> HIDE DEF s, o
<1>6. Reducer!DeescalationAfter(s, o) \in Nat /\ Reducer!RepairAfter(s, o).streak \in Nat
  BY <1>2, <1>4, Counters
<1>7. /\ n.speech_rate_samples = Reducer!SamplesAfter(s, o)
      /\ n.inferred_pace = Reducer!UpdateInferredPace(s.inferred_pace, n.speech_rate_samples)
  BY <1>6, NextFields
<1>8. n.speech_rate_samples \in Seq(Rates)
  BY <1>2, <1>5, <1>7, SamplesAreRates
<1> DEFINE q == n.speech_rate_samples
           p == n.inferred_pace
<1> HIDE DEF n
<1>9. IsSteady(state.inferred_pace, p, q)
  <2>1. q \in Seq(Rates) /\ p = Reducer!UpdateInferredPace(state.inferred_pace, q)
    BY <1>3, <1>7, <1>8
  <2> HIDE DEF q, p
  <2> QED BY <2>1, SteadyPace
<1>10. state'.inferred_pace = p /\ state'.speech_rate_samples = q
  BY <1>1
<1> QED BY <1>8, <1>9, <1>10, Zenon DEF Steady

\* PaceIsSteady: however many turns there were, a new pace has two samples on
\* its side, and a pace is left only when the median has passed the threshold
\* at which it is left (PlausibleOf, SamplesAfter and UpdateInferredPace).
THEOREM PaceStaysSteady == Reducer!Spec => PaceIsSteady
<1>1. Reducer!Init => PaceInv
  <2>1. ASSUME Reducer!Init PROVE state.speech_rate_samples = <<>>
    BY <2>1 DEF Reducer!Init, Reducer!InitialState
  <2>2. <<>> \in Seq(Rates)
    OBVIOUS
  <2> QED BY <2>1, <2>2, ReducerInit, Zenon DEF PaceInv
<1>2. ASSUME PaceInv, NEW o \in Observations, NEW open \in BOOLEAN, Reducer!Turn(o, open)
      PROVE  PaceInv' /\ Steady
  BY <1>2, TurnIsSteady, TurnKeeps DEF PaceInv
<1>3. ASSUME PaceInv, UNCHANGED talkVars PROVE PaceInv'
  BY <1>3 DEF talkVars, PaceInv, ReducerInv, Kept
<1>4. PaceInv /\ [Reducer!Next]_(Reducer!vars) => PaceInv'
  BY <1>2, <1>3 DEF Reducer!Next, talkVars, Reducer!vars
<1>5. PaceInv /\ [Reducer!Next]_(Reducer!vars) => [Steady]_talkVars
  BY <1>2 DEF Reducer!Next, talkVars, Reducer!vars
<1> QED BY <1>1, <1>4, <1>5, PTL DEF Reducer!Spec, PaceIsSteady, Steady, IsSteady
=============================================================================
