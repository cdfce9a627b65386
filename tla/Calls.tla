-------------------------------- MODULE Calls --------------------------------
(***************************************************************************)
(* The calls of this process and what is kept of them: web calls that it   *)
(* mints and their WebSockets (app/main.py, app/retell_ws_auth.py), the    *)
(* signed webhooks of Retell (app/call_analytics.py), which may be lost,   *)
(* repeated, delayed and reordered, the session of a call in memory, and   *)
(* the cleanup at startup.  Retell is external: it starts and ends calls   *)
(* and sends their events.                                                 *)
(***************************************************************************)
EXTENDS Naturals, FiniteSets

CONSTANTS
  Calls, None,
  MintTTL,       \* _MINT_TTL_SECONDS
  Retention,     \* call_data_retention_days
  Delivery,      \* how long Retell goes on delivering an event
  MaxTime        \* bound on the clock

ASSUME TimesAssumption ==
  {MintTTL, Retention, Delivery, MaxTime} \subseteq Nat /\ Delivery < Retention

\* What a row of call_sessions holds for the properties.
Rows == [data : Nat \union {None}, ended : Nat \union {None}]

ASSUME NoneAssumption == None \notin Nat \union Rows

Kinds == {"call_started", "call_ended", "call_analyzed"}
Events == Calls \X Kinds

VARIABLES
  now,
  call,        \* Retell: new, live, over
  sent,        \* Retell: [Events -> time of the event or None]
  minted,      \* _minted_calls: [Calls -> time or None]
  open,        \* calls with a WebSocket that is being served
  session,     \* calls with a session in memory (runner, call memory, controls)
  row,         \* call_sessions: [Calls -> [data, ended] or None]; data: its newest
  received,    \* provider_webhook_events: [Events -> time or None]
  logged       \* call_events: how often an event was ever written

vars == <<now, call, sent, minted, open, session, row, received, logged>>
provider == <<call, sent>>

Init ==
  /\ now = 0
  /\ call = [c \in Calls |-> "new"]
  /\ sent = [e \in Events |-> None]
  /\ minted = [c \in Calls |-> None]
  /\ open = {} /\ session = {}
  /\ row = [c \in Calls |-> None]
  /\ received = [e \in Events |-> None]
  /\ logged = [e \in Events |-> 0]

\* Retell's events, and the clock.
Begun(c) == call' = [call EXCEPT ![c] = "live"] /\ sent' = [sent EXCEPT ![<<c, "call_started">>] = now]

HangUp(c) ==
  /\ call[c] = "live"
  /\ call' = [call EXCEPT ![c] = "over"]
  /\ sent' = [e \in Events |-> IF e \in {c} \X {"call_ended", "call_analyzed"} THEN now ELSE sent[e]]
  /\ open' = open \ {c}
  /\ UNCHANGED <<now, minted, session, row, received, logged>>

Tick == now < MaxTime /\ now' = now + 1
        /\ UNCHANGED <<provider, minted, open, session, row, received, logged>>

\* A caller dials the number.
Dial(c) ==
  /\ call[c] = "new" /\ Begun(c)
  /\ UNCHANGED <<now, minted, open, session, row, received, logged>>

-----------------------------------------------------------------------------
(* The WebSocket of a call.                                                *)

\* remember_retell_call drops what is older than the limit.
StillMinted(c) == minted[c] # None /\ now - minted[c] <= MintTTL

\* retell_web_call, once Retell has created the call.
WebCall(c) ==
  /\ call[c] = "new" /\ Begun(c)
  /\ minted' = [d \in Calls |-> IF d = c THEN now ELSE IF StillMinted(d) THEN minted[d] ELSE None]
  /\ UNCHANGED <<now, open, session, row, received, logged>>

\* retell_ws with or without the token.
Connect(c, token) ==
  /\ call[c] = "live"
  /\ IF token \/ StillMinted(c)
     THEN open' = open \union {c} /\ UNCHANGED minted
     ELSE minted' = [minted EXCEPT ![c] = None] /\ UNCHANGED open
  /\ UNCHANGED <<now, provider, session, row, received, logged>>

Disconnect(c) ==
  /\ c \in open
  /\ open' = open \ {c}
  /\ UNCHANGED <<now, provider, minted, session, row, received, logged>>

Written(old, ended) == [data |-> now, ended |-> IF old = None THEN ended ELSE IF ended = None THEN old.ended ELSE ended]

\* A turn of the WebSocket or a tool call, which may finish after the call.
Turn(c) ==
  /\ call[c] # "new"
  /\ session' = session \union {c}
  /\ row' = [row EXCEPT ![c] = Written(@, None)]
  /\ UNCHANGED <<now, provider, minted, open, received, logged>>

-----------------------------------------------------------------------------
(* ingest_retell_webhook and the cleanup.                                  *)

Ends(e) == e[2] \in {"call_ended", "call_analyzed"}

\* As below, with the time of the newest event.
EndedOfEvent(e, old) == [data |-> now, ended |-> IF Ends(e) THEN now ELSE None]

Upsert(e, old) == Written(old, IF Ends(e) THEN now ELSE None)

\* As below, with a duplicate let through.
IsNewAlways(e) == TRUE

\* INSERT ... ON CONFLICT DO NOTHING
IsNew(e) == received[e] = None

\* One delivery: a transaction that writes everything, or nothing when the
\* event is known; then the session is cleared, either way.
Webhook(e) ==
  /\ sent[e] # None /\ now - sent[e] <= Delivery
  /\ IF IsNew(e)
     THEN /\ received' = [received EXCEPT ![e] = now]
          /\ row' = [row EXCEPT ![e[1]] = Upsert(e, @)]
          /\ logged' = [logged EXCEPT ![e] = @ + 1]
     ELSE UNCHANGED <<received, row, logged>>
  /\ session' = IF Ends(e) THEN session \ {e[1]} ELSE session
  /\ UNCHANGED <<now, provider, minted, open>>

Old(t) == t # None /\ t + Retention < now

\* The cleanup at startup: three statements, each of which may be the last.
Swept(done) ==
  /\ received' = [e \in Events |-> IF done >= 2 /\ Old(received[e]) THEN None ELSE received[e]]
  /\ row' = [c \in Calls |->
               IF done = 3 /\ row[c] # None /\ Old(row[c].ended)
               THEN [row[c] EXCEPT !.data = None] ELSE row[c]]

Restart(done) ==
  /\ Swept(done)
  /\ minted' = [c \in Calls |-> None]
  /\ open' = {} /\ session' = {}
  /\ UNCHANGED <<now, provider, logged>>

Next ==
  \/ Tick
  \/ \E c \in Calls : \/ Dial(c) \/ WebCall(c) \/ HangUp(c) \/ Disconnect(c) \/ Turn(c)
                      \/ \E token \in BOOLEAN : Connect(c, token)
  \/ \E e \in Events : Webhook(e)
  \/ \E done \in 1 .. 3 : Restart(done)

Spec == Init /\ [][Next]_vars
-----------------------------------------------------------------------------
(* Properties.                                                             *)

\* Each event is counted once, however often it is delivered, before and after
\* a restart and the cleanup that forgets which events were seen.
EventOnce == \A e \in Events : logged[e] <= 1

\* A call that has ended is never shown as going on again, in whatever order
\* its events and its last turns are written.
EndedStaysEnded ==
  [][\A c \in Calls : row[c] # None /\ row[c].ended # None =>
       row'[c] # None /\ row'[c].ended # None]_vars
=============================================================================
