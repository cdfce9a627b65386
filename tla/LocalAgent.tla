----------------------------- MODULE LocalAgent -----------------------------
(***************************************************************************)
(* The local agent: one session of the text chat and of the Vapi adapter   *)
(* (app/main.py), the two runners of a caller's message                    *)
(* (app/agent/runner.py run_agent and stream_agent_tokens), the graph of   *)
(* model and tools that they run (app/agent/graph.py), and the tool node   *)
(* (app/agent/nodes/tool_executor.py).                                     *)
(*                                                                         *)
(* The language model is outside the code: at each of its turns it may     *)
(* answer or ask for any tools.  A tool's write goes through the ledger of *)
(* idempotency keys that Bookings models; here the key is what matters,    *)
(* and it is derived from the ACTION SCOPE of the message.  The gates of   *)
(* the writes are in CallMemory, Amendments and Orders.                    *)
(***************************************************************************)
EXTENDS Naturals, Sequences, FiniteSets, SequencesExt

CONSTANTS
  Requests,        \* messages that may be in work at the same time
  Runners,         \* a subset of {"run", "stream"}
  Messages,        \* what a caller may say
  Tools,           \* a subset of {"summary", "add", "confirm"}
  HistoryCap,      \* 40 in the code
  MaxIterations,   \* MAX_TOOL_ITERATIONS
  MaxTurns,        \* bound on messages
  MaxClears        \* bound on clear_session

LocalAgentAssumption ==
  /\ Runners \subseteq {"run", "stream"} /\ Tools \subseteq {"summary", "add", "confirm"}
  /\ HistoryCap \in Nat \ {0} /\ {MaxIterations, MaxTurns, MaxClears} \subseteq Nat

\* _READ_TOOLS
ReadTools == {"summary"}

VARIABLES
  session,    \* _sessions[session_id]: entries [role, turn]
  request,    \* per request: position and local variables
  turns,      \* what the caller said, turn by turn
  ledger,     \* completed keys: [key, turn]
  effects,    \* writes that were executed: [turn, tool]
  version,    \* draft_version of the order
  replays,    \* answers that came from the ledger: [turn, tool, from]
  answered,   \* turns that ended with an answer
  clears      \* clear_session calls so far

vars == <<session, request, turns, ledger, effects, version, replays, answered, clears>>

world == <<ledger, effects, version, replays>>

NoSummary == 0

Idle == [pc |-> "idle", runner |-> "run", turn |-> 0, history |-> <<>>, scope |-> <<>>,
         batch |-> <<>>, iterations |-> 0, seen |-> NoSummary, retried |-> FALSE]

Init ==
  /\ session = <<>> /\ request = [r \in Requests |-> Idle]
  /\ turns = <<>> /\ ledger = {} /\ effects = <<>>
  /\ version = 1 /\ replays = {} /\ answered = {} /\ clears = 0

At(r, label) == request[r].pc = label
Become(r, x) == request' = [request EXCEPT ![r] = x]

\* history[-40:]
Kept(h) == IF Len(h) <= HistoryCap THEN h ELSE SubSeq(h, Len(h) - HistoryCap + 1, Len(h))

Said(t) == [role |-> "user", turn |-> t]
Answered(t) == [role |-> "assistant", turn |-> t]

\* seed_opening_history
Seeded(h) == IF h = <<>> THEN <<Answered(0)>> ELSE h

\* Mutant: the second attempt of a turn has a scope of its own.
ActionScopePerAttempt(h, m, again) == <<Len(h), m, again>>

\* _action_scope, which the second attempt of a turn keeps
ActionScope(h, m, again) == <<Len(h), m>>

-----------------------------------------------------------------------------
(* The runners *)

\* The streaming runner stores the message before it generates anything.
StoreAtOnce(x, h) == IF x = "stream" THEN Kept(h) ELSE session

Arrive(r, x, m) ==
  LET t == Len(turns) + 1
      h == Append(Seeded(session), Said(t)) IN
  /\ At(r, "idle") /\ t <= MaxTurns
  /\ turns' = Append(turns, [message |-> m, runner |-> x])
  /\ session' = StoreAtOnce(x, h)
  /\ Become(r, [Idle EXCEPT !.pc = "turn", !.runner = x, !.turn = t, !.history = h,
                            !.scope = ActionScope(h, m, FALSE)])
  /\ UNCHANGED <<world, answered, clears>>

\* Mutant: both runners store the copy they began with.
StoredFromStart(r) == Kept(Append(request[r].history, Answered(request[r].turn)))

\* What is stored when the answer is there: run_agent stores the copy it began
\* with, stream_agent_tokens appends to what is stored by now.
Stored(r) ==
  LET x == request[r] IN
  Kept(Append(IF x.runner = "stream" THEN session ELSE x.history, Answered(x.turn)))

Reply(r) ==
  /\ session' = Stored(r)
  /\ answered' = answered \cup {request[r].turn}
  /\ Become(r, Idle)
  /\ UNCHANGED <<turns, world, clears>>

\* process_caller_turn: what it handles itself, and a farewell, is answered
\* without the model.
CallerTurn(r) ==
  /\ At(r, "turn")
  /\ \/ Reply(r)
     \/ /\ Become(r, [request[r] EXCEPT !.pc = "agent"])
        /\ UNCHANGED <<session, turns, world, answered, clears>>

\* The second attempt of run_agent, when the answer repeats the last one or
\* reads like a form: the evidence of the turn starts again.
Retry(r) ==
  LET x == request[r] IN
  /\ At(r, "agent") /\ x.runner = "run" /\ ~x.retried
  /\ Become(r, [x EXCEPT !.retried = TRUE, !.iterations = 0, !.seen = NoSummary,
                         !.scope = ActionScope(x.history, turns[x.turn].message, TRUE)])
  /\ UNCHANGED <<session, turns, world, answered, clears>>

Answer(r) == At(r, "agent") /\ Reply(r)

\* The coroutine is cancelled, or something in it raises.
Abandon(r) ==
  /\ request[r].pc # "idle"
  /\ Become(r, Idle)
  /\ UNCHANGED <<session, turns, world, answered, clears>>

\* DELETE /session, or Vapi's end-of-call report.
ClearSession ==
  /\ clears < MaxClears
  /\ clears' = clears + 1
  /\ session' = <<>>
  /\ UNCHANGED <<request, turns, world, answered>>

-----------------------------------------------------------------------------
(* The graph *)

\* tool_calls.sort: reads first, otherwise as they came.
ReadsFirst(batch) ==
  SelectSeq(batch, LAMBDA c : c \in ReadTools) \o SelectSeq(batch, LAMBDA c : c \notin ReadTools)

Batches == {b \in UNION {[1..n -> Tools] : n \in 1..2} : IsInjective(b)}

\* route_after_agent, when the model asks for tools
Route(n) == IF n >= MaxIterations THEN "limit" ELSE "tools"

CallTools(r, b) ==
  /\ At(r, "agent")
  /\ Become(r, [request[r] EXCEPT !.pc = Route(request[r].iterations),
                                  !.batch = IF Route(request[r].iterations) = "tools"
                                            THEN ReadsFirst(b) ELSE <<>>])
  /\ UNCHANGED <<session, turns, world, answered, clears>>

\* tool_limit_response
ToolLimit(r) == At(r, "limit") /\ Reply(r)

\* make_idempotency_key and _idempotent_write: an answer from the ledger, or
\* the effect and its entry.
Execute(x, tool) ==
  LET key == <<x.scope, tool>>
      old == {e \in ledger : e.key = key} IN
  IF old # {}
  THEN /\ replays' = replays \cup {[turn |-> x.turn, tool |-> tool, from |-> e.turn] : e \in old}
       /\ UNCHANGED <<ledger, effects, version>>
  ELSE /\ effects' = Append(effects, [turn |-> x.turn, tool |-> tool])
       /\ ledger' = ledger \cup {[key |-> key, turn |-> x.turn]}
       /\ version' = IF tool = "add" THEN version + 1 ELSE version
       /\ UNCHANGED replays

\* One call of the batch.  confirm_order wants a summary of the order as it
\* is, read on this attempt of the turn (app/turn_evidence.py).
RunTool(r) ==
  LET x == request[r]
      tool == Head(x.batch)
      rest == [x EXCEPT !.batch = Tail(@)] IN
  /\ At(r, "tools") /\ x.batch # <<>>
  /\ \/ /\ tool \in ReadTools
        /\ Become(r, [rest EXCEPT !.seen = version])
        /\ UNCHANGED world
     \/ /\ tool = "confirm" /\ x.seen # version
        /\ Become(r, rest)
        /\ UNCHANGED world
     \/ /\ tool \notin ReadTools /\ (tool = "confirm" => x.seen = version)
        /\ Execute(x, tool)
        /\ Become(r, rest)
  /\ UNCHANGED <<session, turns, answered, clears>>

\* Mutant: the rounds are not counted.
BatchUncounted(r) ==
  /\ At(r, "tools") /\ request[r].batch = <<>>
  /\ Become(r, [request[r] EXCEPT !.pc = "agent"])
  /\ UNCHANGED <<session, turns, world, answered, clears>>

BatchDone(r) ==
  /\ At(r, "tools") /\ request[r].batch = <<>>
  /\ Become(r, [request[r] EXCEPT !.pc = "agent", !.iterations = @ + 1])
  /\ UNCHANGED <<session, turns, world, answered, clears>>

-----------------------------------------------------------------------------
Step(r) ==
  \/ CallerTurn(r) \/ Retry(r) \/ Answer(r) \/ ToolLimit(r)
  \/ \E b \in Batches : CallTools(r, b)
  \/ RunTool(r) \/ BatchDone(r)

Next ==
  \/ \E r \in Requests, x \in Runners, m \in Messages : Arrive(r, x, m)
  \/ \E r \in Requests : Step(r) \/ Abandon(r)
  \/ ClearSession

Spec == Init /\ [][Next]_vars

\* The event loop runs a coroutine that can run; the model and the tools
\* answer, or raise within their time limits.
Fairness == \A r \in Requests : WF_vars(Step(r))

-----------------------------------------------------------------------------
(* However often the model asks for it on one turn, and though the turn is   *)
(* attempted twice, a write is done once (call_memory.py:55).                *)
OncePerTurn ==
  \A i, j \in DOMAIN effects : i # j => effects[i] # effects[j]

(* "a CancelledError mid-stream never erases it from conversation history"   *)
(* (runner.py:298): what the caller said on a streamed turn stays in the     *)
(* history whatever becomes of the turn, until clear_session or the cap.     *)
(* (Not if the session also uses run_agent, which stores its own copy.)      *)
Streamed == \A t \in DOMAIN turns : turns[t].runner = "stream"

UtteranceSurvives ==
  clears = 0 /\ Streamed /\ Len(session) < HistoryCap =>
    \A t \in DOMAIN turns : Said(t) \in Range(session)

(* A message is always answered, refused or abandoned: the model cannot keep *)
(* a turn going by asking for tools.                                         *)
EveryTurnEnds == \A r \in Requests : request[r].pc # "idle" ~> request[r].pc = "idle"
=============================================================================
