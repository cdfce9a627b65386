------------------------------- MODULE MCLive -------------------------------
(* Instances for TLC of what must eventually happen: a query that waits for a *)
(* connection runs (module ConnectionPool), an attempt to write is answered   *)
(* (Bookings), a request of Retell is answered (RetellHandler), and a message *)
(* to the local agent comes to an end (LocalAgent).  A behaviour moves one of *)
(* the four; the others have nothing to do, so their fairness asks nothing.   *)
EXTENDS ConnectionPool, TLC

CONSTANTS a1, a2, c1, c2, k1, k2, k3, None, Same, NoSlot

VARIABLES
  story,
  bookings, bookingId, ledger, session, approved, statement, req, slot, free, missed, table,
  newId, answer,
  loop, sock, active, queued, task, behavior, greeted, wire, controls, snapshot, saves,
  responseId, stray,
  history, request, turns, keys, effects, version, replays, answered, clears

bookingVars ==
  <<bookings, bookingId, ledger, session, approved, statement, req, slot, free, missed, table,
    newId, answer>>
connVars ==
  <<loop, sock, active, queued, task, behavior, greeted, wire, controls, snapshot, saves,
    responseId, stray>>
agentVars == <<history, request, turns, keys, effects, version, replays, answered, clears>>

-----------------------------------------------------------------------------
\* The only booking is moved and cancelled while another call books its time.
Update(c, k, b, s, ts) ==
  [action |-> "update_confirmed_booking", call |-> c, key |-> k, booking |-> b,
   slot |-> s, wants |-> ts]
ChangeRequests ==
  {Update(c1, k1, 1, 4, {1}), Update(c2, k2, 1, NoSlot, {2}),
   [action |-> "cancel_booking", call |-> c1, key |-> k1, booking |-> 1,
    slot |-> NoSlot, wants |-> {}],
   [action |-> "create_booking", call |-> c2, key |-> k3, booking |-> 0,
    slot |-> 4, wants |-> {1}]}
OneBooking == <<[status |-> "confirmed", table |-> 1, slot |-> 0]>>

Writes ==
  INSTANCE Bookings
    WITH Attempts <- {a1, a2}, Calls <- {c1, c2}, Keys <- {k1, k2, k3}, Tables <- {1, 2},
         Slots <- {0, 4}, Duration <- 3, Turnover <- 1, Requests <- ChangeRequests,
         Seeded <- OneBooking, MaxBookings <- 3, nextId <- bookingId, pc <- statement

Connection ==
  INSTANCE RetellHandler
    WITH Conns <- {c1}, Kinds <- {"silent", "speech"}, MaxId <- 3,
         MaxChunks <- 0, MaxStray <- 1, nextId <- responseId

Agent ==
  INSTANCE LocalAgent
    WITH Requests <- {a1, a2}, Runners <- {"run"}, Messages <- {"yes"}, Tools <- {"add"},
         HistoryCap <- 4, MaxIterations <- 2, MaxTurns <- 2, MaxClears <- 0,
         session <- history, ledger <- keys

-----------------------------------------------------------------------------
StoryInit ==
  /\ story \in {"pool", "writes", "connection", "agent"}
  /\ Init /\ Writes!Init /\ Connection!Init /\ Agent!Init

StoryNext ==
  /\ UNCHANGED story
  /\ \/ story = "pool" /\ Next /\ UNCHANGED <<bookingVars, connVars, agentVars>>
     \/ story = "writes" /\ Writes!Next /\ UNCHANGED <<vars, connVars, agentVars>>
     \/ story = "connection" /\ Connection!Next /\ UNCHANGED <<vars, bookingVars, agentVars>>
     \/ story = "agent" /\ Agent!Next /\ UNCHANGED <<vars, bookingVars, connVars>>

FairStorySpec ==
  /\ StoryInit /\ [][StoryNext]_<<story, vars, bookingVars, connVars, agentVars>>
  /\ Fairness /\ Writes!Fairness /\ Connection!Fairness /\ Agent!Fairness

\* The properties of the instances.
EveryAttemptIsAnswered == Writes!EveryAttemptIsAnswered
EveryTurnIsAnswered == Connection!EveryTurnIsAnswered
EveryTurnEnds == Agent!EveryTurnEnds
=============================================================================
