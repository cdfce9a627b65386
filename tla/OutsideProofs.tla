--------------------------- MODULE OutsideProofs ---------------------------
(***************************************************************************)
(* Proofs of the parts of Outside, one after the other.                    *)
(***************************************************************************)
EXTENDS Outside, FiniteSetTheorems, SequenceTheorems, WellFoundedInduction, TLAPS

-----------------------------------------------------------------------------
(* Calls.  An event is counted once although the cleanup forgets which       *)
(* events were seen, since it forgets only what Retell delivers no more; and *)
(* a call that has ended stays ended.                                        *)

Times == Nat \union {None}

CallsTyped ==
  /\ now \in Nat
  /\ call \in [Calls -> {"new", "live", "over"}]
  /\ sent \in [Events -> Times]
  /\ received \in [Events -> Times]
  /\ logged \in [Events -> Nat]
  /\ row \in [Calls -> Rows \union {None}]

\* Retell sends an event once, and not before its call has come that far.
SentOnce ==
  \A c \in Calls :
    /\ call[c] = "new" => sent[<<c, "call_started">>] = None
    /\ call[c] \in {"new", "live"} =>
         sent[<<c, "call_ended">>] = None /\ sent[<<c, "call_analyzed">>] = None

\* What is remembered of an event, and how often it was counted.
Counted(e) ==
  /\ sent[e] # None => sent[e] <= now
  /\ received[e] # None => sent[e] # None /\ sent[e] <= received[e]
  /\ logged[e] <= 1
  /\ logged[e] = 1 /\ received[e] = None => sent[e] # None /\ sent[e] + Delivery < now

CallsInv == CallsTyped /\ SentOnce /\ \A e \in Events : Counted(e)

-----------------------------------------------------------------------------
LEMMA InitCounted == Init => CallsInv
<1> SUFFICES ASSUME Init PROVE CallsInv
  OBVIOUS
<1>1. CallsTyped
  BY DEF Init, CallsTyped, Times
<1>2. SentOnce
  BY DEF Init, SentOnce, Events, Kinds
<1>3. ASSUME NEW e \in Events PROVE Counted(e)
  BY DEF Init, Counted
<1> QED BY <1>1, <1>2, <1>3 DEF CallsInv

\* An event that has not been sent has not been counted.
LEMMA Uncounted ==
  ASSUME CallsInv, NEW e \in Events, sent[e] = None
  PROVE  logged[e] = 0 /\ received[e] = None
BY DEF CallsInv, Counted, CallsTyped

\* Sending keeps the invariant of what is sent for the first time.
LEMMA SendCounted ==
  ASSUME CallsInv, NEW S \in SUBSET Events, \A e \in S : sent[e] = None,
         sent' = [e \in Events |-> IF e \in S THEN now ELSE sent[e]],
         UNCHANGED <<now, received, logged>>
  PROVE  sent' \in [Events -> Times] /\ \A e \in Events : Counted(e)'
<1>1. sent' \in [Events -> Times]
  BY DEF CallsInv, CallsTyped, Times
<1>2. ASSUME NEW e \in Events PROVE Counted(e)'
  <2>1. Counted(e) /\ now \in Nat /\ logged[e] \in Nat
    BY DEF CallsInv, CallsTyped
  <2>2. CASE e \in S
    <3>1. sent'[e] = now /\ logged[e] = 0 /\ received[e] = None
      BY <2>2, Uncounted
    <3> QED BY <2>1, <3>1 DEF Counted
  <2>3. CASE e \notin S
    <3>1. sent'[e] = sent[e]
      BY <2>3
    <3> QED BY <2>1, <3>1 DEF Counted
  <2> QED BY <2>2, <2>3
<1> QED BY <1>1, <1>2

\* Dialling and web calls.
LEMMA BegunCounted ==
  ASSUME CallsInv, NEW c \in Calls, call[c] = "new", Begun(c),
         UNCHANGED <<now, row, received, logged>>
  PROVE  CallsInv'
<1> DEFINE S == {<<c, "call_started">>}
<1>1. S \in SUBSET Events /\ \A e \in S : sent[e] = None
  <2>1. sent[<<c, "call_started">>] = None
    BY DEF CallsInv, SentOnce
  <2>2. <<c, "call_started">> \in Events
    BY DEF Events, Kinds
  <2> QED BY <2>1, <2>2
<1>2. sent' = [e \in Events |-> IF e \in S THEN now ELSE sent[e]]
  BY DEF Begun, CallsInv, CallsTyped
<1>3. sent' \in [Events -> Times] /\ \A e \in Events : Counted(e)'
  <2> HIDE DEF S
  <2> QED BY <1>1, <1>2, SendCounted
<1>4. call' = [call EXCEPT ![c] = "live"]
  BY DEF Begun
<1>5. SentOnce'
  <2> SUFFICES ASSUME NEW d \in Calls
               PROVE  /\ call'[d] = "new" => sent'[<<d, "call_started">>] = None
                      /\ call'[d] \in {"new", "live"} =>
                           /\ sent'[<<d, "call_ended">>] = None
                           /\ sent'[<<d, "call_analyzed">>] = None
    BY DEF SentOnce
  <2>1. \A k \in Kinds : <<d, k>> \in Events /\ (<<d, k>> \in S => d = c /\ k = "call_started")
    BY DEF Events
  <2>2. \A k \in Kinds : <<d, k>> \notin S => sent'[<<d, k>>] = sent[<<d, k>>]
    BY <1>2, <2>1
  <2> HIDE DEF S
  <2>3. call \in [Calls -> {"new", "live", "over"}] /\ SentOnce
    BY DEF CallsInv, CallsTyped
  <2>4. \A k \in {"call_ended", "call_analyzed"} : k \in Kinds /\ k # "call_started"
    BY DEF Kinds
  <2>5. "call_started" \in Kinds
    BY DEF Kinds
  <2>6. CASE d = c
    <3>1. call'[d] = "live"
      BY <1>4, <2>3, <2>6
    <3> QED BY <2>1, <2>2, <2>3, <2>4, <2>6, <3>1 DEF SentOnce
  <2>7. CASE d # c
    <3>1. call'[d] = call[d]
      BY <1>4, <2>3, <2>7
    <3>2. \A k \in Kinds : sent'[<<d, k>>] = sent[<<d, k>>]
      BY <2>1, <2>2, <2>7
    <3> QED BY <2>3, <2>4, <2>5, <3>1, <3>2 DEF SentOnce
  <2> QED BY <2>6, <2>7
<1> QED BY <1>3, <1>4, <1>5 DEF CallsInv, CallsTyped

LEMMA HangUpCounted ==
  ASSUME CallsInv, NEW c \in Calls, HangUp(c)
  PROVE  CallsInv'
<1> DEFINE S == {c} \X {"call_ended", "call_analyzed"}
<1>1. S \in SUBSET Events /\ \A e \in S : sent[e] = None
  <2>1. sent[<<c, "call_ended">>] = None /\ sent[<<c, "call_analyzed">>] = None
    BY DEF CallsInv, SentOnce, HangUp
  <2>2. <<c, "call_ended">> \in Events /\ <<c, "call_analyzed">> \in Events
    BY DEF Events, Kinds
  <2>3. S = {<<c, "call_ended">>, <<c, "call_analyzed">>}
    OBVIOUS
  <2> QED BY <2>1, <2>2, <2>3
<1>2. sent' = [e \in Events |-> IF e \in S THEN now ELSE sent[e]]
  BY DEF HangUp
<1>3. sent' \in [Events -> Times] /\ \A e \in Events : Counted(e)'
  <2> HIDE DEF S
  <2> QED BY <1>1, <1>2, SendCounted DEF HangUp
<1>4. call' = [call EXCEPT ![c] = "over"] /\ UNCHANGED <<now, row, received, logged>>
  BY DEF HangUp
<1>5. SentOnce'
  <2> SUFFICES ASSUME NEW d \in Calls
               PROVE  /\ call'[d] = "new" => sent'[<<d, "call_started">>] = None
                      /\ call'[d] \in {"new", "live"} =>
                           /\ sent'[<<d, "call_ended">>] = None
                           /\ sent'[<<d, "call_analyzed">>] = None
    BY DEF SentOnce
  <2>1. \A k \in Kinds : <<d, k>> \in Events /\ (<<d, k>> \in S => d = c)
    BY DEF Events
  <2>2. \A k \in Kinds : <<d, k>> \notin S => sent'[<<d, k>>] = sent[<<d, k>>]
    BY <1>2, <2>1
  <2> HIDE DEF S
  <2>3. call \in [Calls -> {"new", "live", "over"}] /\ SentOnce
    BY DEF CallsInv, CallsTyped
  <2>4. \A k \in {"call_ended", "call_analyzed"} : k \in Kinds /\ k # "call_started"
    BY DEF Kinds
  <2>5. "call_started" \in Kinds
    BY DEF Kinds
  <2>6. CASE d = c
    <3>1. call'[d] = "over"
      BY <1>4, <2>3, <2>6
    <3> QED BY <2>1, <2>2, <2>3, <2>4, <2>6, <3>1 DEF SentOnce
  <2>7. CASE d # c
    <3>1. call'[d] = call[d]
      BY <1>4, <2>3, <2>7
    <3>2. \A k \in Kinds : sent'[<<d, k>>] = sent[<<d, k>>]
      BY <2>1, <2>2, <2>7
    <3> QED BY <2>3, <2>4, <2>5, <3>1, <3>2 DEF SentOnce
  <2> QED BY <2>6, <2>7
<1> QED BY <1>3, <1>4, <1>5 DEF CallsInv, CallsTyped

\* The statement that writes a row of call_sessions.
LEMMA WrittenRow ==
  ASSUME now \in Nat, NEW old \in Rows \union {None}, NEW t \in Times
  PROVE  /\ Written(old, t) \in Rows
         /\ old # None /\ old.ended # None => Written(old, t).ended # None
<1>1. Written(old, t).data = now /\ Written(old, t).ended \in Times
  BY DEF Written, Rows, Times
<1>2. Written(old, t) \in Rows
  BY DEF Written, Rows, Times
<1>3. ASSUME old # None, old.ended # None PROVE Written(old, t).ended # None
  BY <1>3 DEF Written
<1> QED BY <1>2, <1>3

\* A delivery counts an event only when it is not known, and then it was never
\* counted: what was counted and forgotten is delivered no more.
LEMMA WebhookCounted ==
  ASSUME CallsInv, NEW e \in Events, Webhook(e)
  PROVE  CallsInv'
<1>1. CallsTyped /\ SentOnce /\ \A f \in Events : Counted(f)
  BY DEF CallsInv
<1>2. UNCHANGED <<now, call, sent>> /\ SentOnce'
  BY <1>1 DEF Webhook, provider, SentOnce
<1>3. CASE IsNew(e)
  <2>1. /\ received' = [received EXCEPT ![e] = now]
        /\ row' = [row EXCEPT ![e[1]] = Upsert(e, row[e[1]])]
        /\ logged' = [logged EXCEPT ![e] = logged[e] + 1]
    BY <1>3 DEF Webhook
  <2>2. logged[e] = 0 /\ received[e] = None /\ sent[e] # None
    BY <1>1, <1>3, TimesAssumption DEF Counted, CallsTyped, Times, Webhook, IsNew
  <2>3. received' \in [Events -> Times] /\ logged' \in [Events -> Nat]
    BY <1>1, <2>1 DEF CallsTyped, Times
  <2>4. row' \in [Calls -> Rows \union {None}]
    <3>1. e[1] \in Calls
      BY DEF Events
    <3>2. Upsert(e, row[e[1]]) \in Rows
      BY <1>1, <3>1, WrittenRow DEF Upsert, CallsTyped, Times
    <3> QED BY <1>1, <2>1, <3>1, <3>2 DEF CallsTyped
  <2>5. ASSUME NEW f \in Events PROVE Counted(f)'
    <3>1. CASE f = e
      <4>1. received'[f] = now /\ logged'[f] = 1 /\ now \in Nat
        BY <1>1, <2>1, <2>2, <3>1 DEF CallsTyped
      <4> QED BY <1>1, <1>2, <2>2, <3>1, <4>1, NoneAssumption DEF Counted
    <3>2. CASE f # e
      <4>1. received'[f] = received[f] /\ logged'[f] = logged[f]
        BY <1>1, <2>1, <3>2 DEF CallsTyped
      <4> QED BY <1>1, <1>2, <4>1 DEF Counted
    <3> QED BY <3>1, <3>2
  <2> QED BY <1>1, <1>2, <2>3, <2>4, <2>5 DEF CallsInv, CallsTyped
<1>4. CASE ~IsNew(e)
  <2>1. UNCHANGED <<received, row, logged>>
    BY <1>4 DEF Webhook
  <2> QED BY <1>1, <1>2, <2>1 DEF CallsInv, CallsTyped, Counted
<1> QED BY <1>3, <1>4

\* The cleanup forgets an event only after Retell has given up delivering it.
LEMMA RestartCounted ==
  ASSUME CallsInv, NEW done \in 1 .. 3, Restart(done)
  PROVE  CallsInv'
<1>1. CallsTyped /\ SentOnce /\ \A f \in Events : Counted(f)
  BY DEF CallsInv
<1>2. UNCHANGED <<now, call, sent, logged>> /\ SentOnce'
  BY <1>1 DEF Restart, provider, SentOnce
<1>3. received' \in [Events -> Times]
  BY <1>1 DEF Restart, Swept, CallsTyped, Times
<1>4. row' \in [Calls -> Rows \union {None}]
  <2>1. ASSUME NEW c \in Calls, row[c] # None
        PROVE  [row[c] EXCEPT !.data = None] \in Rows
    BY <1>1, <2>1 DEF CallsTyped, Rows
  <2> QED BY <1>1, <2>1 DEF Restart, Swept, CallsTyped
<1>5. ASSUME NEW e \in Events PROVE Counted(e)'
  <2>1. received'[e] = received[e] \/ (Old(received[e]) /\ received'[e] = None)
    BY DEF Restart, Swept
  <2>2. Counted(e) /\ now \in Nat /\ received[e] \in Times /\ sent[e] \in Times /\ logged[e] \in Nat
    BY <1>1 DEF CallsTyped
  <2>3. CASE received'[e] = received[e]
    BY <1>2, <2>2, <2>3 DEF Counted
  <2>4. CASE Old(received[e]) /\ received'[e] = None
    <3>1. sent[e] # None /\ sent[e] <= received[e] /\ received[e] + Retention < now
      BY <2>2, <2>4 DEF Counted, Old
    <3>2. sent[e] + Delivery < now
      BY <2>2, <2>4, <3>1, TimesAssumption DEF Times, Old
    <3> QED BY <1>2, <2>2, <2>4, <3>2 DEF Counted
  <2> QED BY <2>1, <2>3, <2>4
<1> QED BY <1>1, <1>2, <1>3, <1>4, <1>5 DEF CallsInv, CallsTyped

LEMMA TickCounted == CallsInv /\ Tick => CallsInv'
<1> SUFFICES ASSUME CallsInv, Tick PROVE CallsInv'
  OBVIOUS
<1>1. now \in Nat /\ now' = now + 1 /\ UNCHANGED <<call, sent, row, received, logged>>
  BY DEF CallsInv, CallsTyped, Tick, provider
<1>2. CallsTyped' /\ SentOnce'
  BY <1>1 DEF CallsInv, CallsTyped, SentOnce
<1>3. ASSUME NEW e \in Events PROVE Counted(e)'
  <2>1. Counted(e) /\ received[e] \in Times /\ sent[e] \in Times /\ logged[e] \in Nat
    BY DEF CallsInv, CallsTyped
  <2> QED BY <1>1, <2>1, TimesAssumption DEF Counted, Times
<1> QED BY <1>2, <1>3 DEF CallsInv

\* The WebSocket and a late turn touch neither events nor clock.
LEMMA TurnCounted ==
  ASSUME CallsInv, NEW c \in Calls, Turn(c)
  PROVE  CallsInv'
<1>1. UNCHANGED <<now, call, sent, received, logged>>
  BY DEF Turn, provider
<1>2. row' \in [Calls -> Rows \union {None}]
  <2>1. row' = [row EXCEPT ![c] = Written(row[c], None)]
    BY DEF Turn
  <2>2. Written(row[c], None) \in Rows
    BY WrittenRow DEF CallsInv, CallsTyped, Times
  <2> QED BY <2>1, <2>2 DEF CallsInv, CallsTyped
<1> QED BY <1>1, <1>2 DEF CallsInv, CallsTyped, SentOnce, Counted

LEMMA OtherwiseCounted ==
  ASSUME CallsInv, UNCHANGED <<now, call, sent, row, received, logged>>
  PROVE  CallsInv'
BY DEF CallsInv, CallsTyped, SentOnce, Counted

LEMMA StepCounted == CallsInv /\ [Next]_vars => CallsInv'
<1> SUFFICES ASSUME CallsInv, [Next]_vars PROVE CallsInv'
  OBVIOUS
<1>1. CASE Tick
  BY <1>1, TickCounted
<1>2. ASSUME NEW c \in Calls, Dial(c) \/ WebCall(c) PROVE CallsInv'
  BY <1>2, BegunCounted DEF Dial, WebCall
<1>3. ASSUME NEW c \in Calls, HangUp(c) PROVE CallsInv'
  BY <1>3, HangUpCounted
<1>4. ASSUME NEW c \in Calls, Disconnect(c) PROVE CallsInv'
  BY <1>4, OtherwiseCounted DEF Disconnect, provider
<1>5. ASSUME NEW c \in Calls, Turn(c) PROVE CallsInv'
  BY <1>5, TurnCounted
<1>6. ASSUME NEW c \in Calls, NEW token \in BOOLEAN, Connect(c, token) PROVE CallsInv'
  BY <1>6, OtherwiseCounted DEF Connect, provider
<1>7. ASSUME NEW e \in Events, Webhook(e) PROVE CallsInv'
  BY <1>7, WebhookCounted
<1>8. ASSUME NEW done \in 1 .. 3, Restart(done) PROVE CallsInv'
  BY <1>8, RestartCounted
<1>9. CASE UNCHANGED vars
  BY <1>9, OtherwiseCounted DEF vars
<1> QED BY <1>1, <1>2, <1>3, <1>4, <1>5, <1>6, <1>7, <1>8, <1>9 DEF Next

LEMMA AlwaysCounted == Spec => []CallsInv
BY InitCounted, StepCounted, PTL DEF Spec

\* An event is counted once, however often Retell delivers it and whenever the
\* process restarts and cleans up.
THEOREM CountedOnce == Spec => []EventOnce
<1>1. CallsInv => EventOnce
  BY DEF CallsInv, Counted, EventOnce
<1> QED BY <1>1, AlwaysCounted, PTL

-----------------------------------------------------------------------------
\* What a step leaves of the end of a call.
Kept(c) == row[c] # None /\ row[c].ended # None => row'[c] # None /\ row'[c].ended # None

LEMMA RowUnion == None \notin Rows
BY NoneAssumption

LEMMA WriteKeeps ==
  ASSUME CallsTyped, NEW d \in Calls, NEW t \in Times,
         row' = [row EXCEPT ![d] = Written(row[d], t)]
  PROVE  \A c \in Calls : Kept(c)
<1> SUFFICES ASSUME NEW c \in Calls, row[c] # None, row[c].ended # None
             PROVE  row'[c] # None /\ row'[c].ended # None
  BY DEF Kept
<1>1. row \in [Calls -> Rows \union {None}] /\ now \in Nat
  BY DEF CallsTyped
<1>2. CASE c = d
  <2>1. row'[c] = Written(row[c], t)
    BY <1>1, <1>2
  <2> QED BY <1>1, <2>1, WrittenRow, RowUnion
<1>3. CASE c # d
  BY <1>1, <1>3
<1> QED BY <1>2, <1>3

LEMMA StepKeeps == CallsInv /\ [Next]_vars => \A c \in Calls : Kept(c)
<1> SUFFICES ASSUME CallsInv, [Next]_vars PROVE \A c \in Calls : Kept(c)
  OBVIOUS
<1>1. CallsTyped
  BY DEF CallsInv
<1>2. CASE row' = row
  BY <1>2 DEF Kept
<1>3. ASSUME NEW d \in Calls, Turn(d) PROVE \A c \in Calls : Kept(c)
  BY <1>1, <1>3, WriteKeeps DEF Turn, Times
<1>4. ASSUME NEW e \in Events, Webhook(e) PROVE \A c \in Calls : Kept(c)
  <2>1. CASE IsNew(e)
    <3>1. e[1] \in Calls
      BY DEF Events
    <3>2. row' = [row EXCEPT ![e[1]] = Written(row[e[1]], IF Ends(e) THEN now ELSE None)]
      BY <1>4, <2>1 DEF Webhook, Upsert
    <3>3. (IF Ends(e) THEN now ELSE None) \in Times
      BY <1>1 DEF CallsTyped, Times
    <3> QED BY <1>1, <3>1, <3>2, <3>3, WriteKeeps
  <2>2. CASE ~IsNew(e)
    BY <1>4, <2>2 DEF Webhook, Kept
  <2> QED BY <2>1, <2>2
<1>5. ASSUME NEW done \in 1 .. 3, Restart(done) PROVE \A c \in Calls : Kept(c)
  <2> SUFFICES ASSUME NEW c \in Calls, row[c] # None, row[c].ended # None
               PROVE  row'[c] # None /\ row'[c].ended # None
    BY DEF Kept
  <2>1. row[c] \in Rows
    BY <1>1 DEF CallsTyped
  <2>2. row'[c] = row[c] \/ row'[c] = [row[c] EXCEPT !.data = None]
    BY <1>5 DEF Restart, Swept
  <2>3. [row[c] EXCEPT !.data = None] \in Rows /\ [row[c] EXCEPT !.data = None].ended = row[c].ended
    BY <2>1 DEF Rows
  <2> QED BY <2>1, <2>2, <2>3, RowUnion
<1>6. CASE Tick
  BY <1>2, <1>6 DEF Tick
<1>7. ASSUME NEW d \in Calls, Dial(d) \/ WebCall(d) \/ HangUp(d) \/ Disconnect(d)
      PROVE  row' = row
  BY <1>7 DEF Dial, WebCall, HangUp, Disconnect
<1>8. ASSUME NEW d \in Calls, NEW token \in BOOLEAN, Connect(d, token) PROVE row' = row
  BY <1>8 DEF Connect
<1>9. CASE UNCHANGED vars
  BY <1>2, <1>9 DEF vars
<1> QED BY <1>2, <1>3, <1>4, <1>5, <1>6, <1>7, <1>8, <1>9 DEF Next

\* A call that has ended is never shown as going on again, in whatever order
\* its events, its last turns and the cleanup write its row.
THEOREM EndedForGood == Spec => EndedStaysEnded
<1>1. CallsInv /\ [Next]_vars =>
        [\A c \in Calls : row[c] # None /\ row[c].ended # None =>
           row'[c] # None /\ row'[c].ended # None]_vars
  BY StepKeeps DEF Kept
<1> QED BY <1>1, AlwaysCounted, PTL DEF Spec, EndedStaysEnded

-----------------------------------------------------------------------------
(* KnowledgeGaps.  What operators see and what callers hear agree.  The row  *)
(* lock and the unique index leave a transaction that is about to commit two *)
(* cases: it updates a row that is there and stays there, or it is the only  *)
(* one to insert a row that is not there yet.  In both its answer is the     *)
(* published one once it has committed.                                      *)

GapRow == [status : {"unresolved", "resolved"}, answer : Answers \union {None}]
KnowledgeRow == [answer : Answers, source : Gaps!Ids]
Places == {"idle", "gap", "faq", "write", "commit"}

GapsTyped ==
  /\ gaps \in [Gaps!Ids -> GapRow \union {None}]
  /\ knowledge \in [Questions -> KnowledgeRow \union {None}]
  /\ resolver \in [Operators -> [pc : Places, gap : Gaps!Ids \union {None},
                                 answer : Answers \union {None}, found : BOOLEAN]]
  /\ \A o \in Operators : resolver[o].pc # "idle" => resolver[o].gap \in Gaps!Ids /\ resolver[o].answer \in Answers
  /\ resolutions \in Seq([gap : Gaps!Ids, answer : Answers])

\* What a transaction has found stays found, and one inserts at a time.
Updates == \A o \in Operators :
  resolver[o].pc \in {"write", "commit"} /\ resolver[o].found => knowledge[Gaps!QuestionOf(o)] # None
Inserts == \A o \in Operators :
  resolver[o].pc = "commit" /\ ~resolver[o].found =>
    /\ knowledge[Gaps!QuestionOf(o)] = None
    /\ \A p \in Operators :
         resolver[p].pc = "commit" /\ ~resolver[p].found /\ Gaps!QuestionOf(p) = Gaps!QuestionOf(o) => p = o

GapsInv == GapsTyped /\ Updates /\ Inserts /\ Gaps!NewestResolutionIsTold

-----------------------------------------------------------------------------
LEMMA GapsInitFits == Gaps!Init => GapsInv
BY DEF Gaps!Init, GapsInv, GapsTyped, Updates, Inserts, Gaps!NewestResolutionIsTold, Gaps!Idle, Places

\* Looking up, reporting, submitting and aborting publish nothing.
LEMMA QuestionTyped ==
  ASSUME GapsTyped, NEW o \in Operators, resolver[o].pc # "idle"
  PROVE  Gaps!QuestionOf(o) \in Questions /\ resolver[o].gap \in Gaps!Ids /\ resolver[o].answer \in Answers
BY DEF GapsTyped, Gaps!QuestionOf, Gaps!Ids

\* The log tool only adds rows that are unresolved.
LEMMA LogFits ==
  ASSUME Gaps!KnowledgeAssumption, GapsInv, NEW c \in Calls, NEW q \in Questions, NEW g, g = <<c, q>>,
         gaps' = [gaps EXCEPT ![g] = Gaps!Logged(gaps[g])],
         UNCHANGED <<knowledge, resolver, resolutions>>
  PROVE  GapsInv'
<1>1. g \in Gaps!Ids
  BY DEF Gaps!Ids
<1>2. Gaps!Logged(gaps[g]) \in GapRow
  BY <1>1 DEF Gaps!Logged, GapRow, GapsInv, GapsTyped
<1>3. GapsTyped'
  BY <1>2 DEF GapsInv, GapsTyped
<1>4. \A f \in Gaps!Ids : /\ gaps[f] # None => gaps'[f] = gaps[f]
                          /\ gaps'[f] # None /\ gaps'[f].status = "resolved" => gaps'[f] = gaps[f]
  BY <1>1 DEF Gaps!Logged, GapsInv, GapsTyped
<1>5. Updates' /\ Inserts'
  BY DEF GapsInv, Updates, Inserts, Gaps!QuestionOf
<1>6. Gaps!NewestResolutionIsTold'
  <2>1. \A f \in Gaps!Ids : gaps'[f] # None /\ gaps'[f].status = "resolved" => knowledge[f[2]] # None
    BY <1>4 DEF GapsInv, Gaps!NewestResolutionIsTold
  <2>2. ASSUME NEW r \in Questions, knowledge[r] # None
        PROVE  /\ knowledge[r].source[2] = r
               /\ gaps'[knowledge[r].source] = [status |-> "resolved", answer |-> knowledge[r].answer]
    <3>1. knowledge[r].source \in Gaps!Ids /\ knowledge[r].answer \in Answers
      BY <2>2 DEF GapsInv, GapsTyped, KnowledgeRow
    <3>2. gaps[knowledge[r].source] # None
      <4>1. [status |-> "resolved", answer |-> knowledge[r].answer] \in GapRow
        BY <3>1 DEF GapRow
      <4>2. None \notin GapRow
        BY DEF GapRow, Gaps!KnowledgeAssumption
      <4> QED BY <2>2, <4>1, <4>2 DEF GapsInv, Gaps!NewestResolutionIsTold
    <3> QED BY <1>4, <2>2, <3>1, <3>2 DEF GapsInv, Gaps!NewestResolutionIsTold
  <2> QED BY <2>1, <2>2 DEF GapsInv, Gaps!NewestResolutionIsTold
<1> QED BY <1>3, <1>5, <1>6 DEF GapsInv

\* A transaction goes on or ends without writing what others see.
LEMMA ResolverFits ==
  ASSUME GapsInv, NEW o \in Operators, NEW x, resolver' = [resolver EXCEPT ![o] = x],
         x \in [pc : Places, gap : Gaps!Ids \union {None}, answer : Answers \union {None}, found : BOOLEAN],
         x.pc # "idle" => x.gap \in Gaps!Ids /\ x.answer \in Answers,
         x.pc \in {"write", "commit"} /\ x.found => knowledge[x.gap[2]] # None,
         x.pc = "commit" /\ ~x.found =>
           /\ knowledge[x.gap[2]] = None
           /\ \A p \in Operators : p # o /\ resolver[p].pc = "commit" /\ ~resolver[p].found
                                   => Gaps!QuestionOf(p) # x.gap[2],
         UNCHANGED <<gaps, knowledge, resolutions>>
  PROVE  GapsInv'
<1>1. \A p \in Operators : resolver'[p] = IF p = o THEN x ELSE resolver[p]
  BY DEF GapsInv, GapsTyped
<1>2. GapsTyped'
  BY <1>1 DEF GapsInv, GapsTyped
<1>3. Updates'
  BY <1>1 DEF GapsInv, Updates, Gaps!QuestionOf
<1>4. Inserts'
  <2>1. ASSUME NEW p \in Operators, resolver'[p].pc = "commit", ~resolver'[p].found
        PROVE  knowledge[resolver'[p].gap[2]] = None
    BY <1>1, <2>1 DEF GapsInv, Inserts, Gaps!QuestionOf
  <2>2. ASSUME NEW p \in Operators, resolver'[p].pc = "commit", ~resolver'[p].found,
               NEW r \in Operators, resolver'[r].pc = "commit", ~resolver'[r].found,
               resolver'[r].gap[2] = resolver'[p].gap[2]
        PROVE  r = p
    <3>1. CASE p # o /\ r # o
      BY <1>1, <2>2, <3>1 DEF GapsInv, Inserts, Gaps!QuestionOf
    <3>2. CASE p = o /\ r # o
      BY <1>1, <2>2, <3>2 DEF Gaps!QuestionOf
    <3>3. CASE p # o /\ r = o
      BY <1>1, <2>2, <3>3 DEF Gaps!QuestionOf
    <3> QED BY <3>1, <3>2, <3>3
  <2> QED BY <2>1, <2>2 DEF Inserts, Gaps!QuestionOf
<1>5. Gaps!NewestResolutionIsTold'
  BY DEF GapsInv, Gaps!NewestResolutionIsTold
<1> QED BY <1>2, <1>3, <1>4, <1>5 DEF GapsInv

LEMMA PlaceFits ==
  ASSUME GapsInv, NEW o \in Operators, NEW p \in {"faq", "commit"}, Gaps!GoTo(o, p),
         resolver[o].pc # "idle",
         p = "commit" => resolver[o].pc = "write" /\ (resolver[o].found \/ Gaps!MayInsert(o))
  PROVE  GapsInv'
<1> DEFINE x == [resolver[o] EXCEPT !.pc = p]
<1>1. resolver' = [resolver EXCEPT ![o] = x] /\ UNCHANGED <<gaps, knowledge, resolutions>>
  BY DEF Gaps!GoTo
<1>2. /\ x \in [pc : Places, gap : Gaps!Ids \union {None}, answer : Answers \union {None}, found : BOOLEAN]
      /\ x.pc = p /\ x.gap = resolver[o].gap /\ x.answer = resolver[o].answer
      /\ x.found = resolver[o].found
  BY DEF GapsInv, GapsTyped, Places
<1>3. x.gap \in Gaps!Ids /\ x.answer \in Answers
  BY <1>2, QuestionTyped DEF GapsInv
<1> HIDE DEF x
<1>4. x.pc = "commit" /\ x.found => knowledge[x.gap[2]] # None
  BY <1>2 DEF GapsInv, Updates, Gaps!QuestionOf
<1>5. x.pc = "commit" /\ ~x.found =>
        /\ knowledge[x.gap[2]] = None
        /\ \A q \in Operators : q # o /\ resolver[q].pc = "commit" /\ ~resolver[q].found
                                => Gaps!QuestionOf(q) # x.gap[2]
  BY <1>2 DEF Gaps!MayInsert, Gaps!Inserting, Gaps!QuestionOf
<1> QED BY <1>1, <1>2, <1>3, <1>4, <1>5, ResolverFits

LEMMA FindFits == ASSUME GapsInv, NEW o \in Operators, Gaps!FindFaq(o) PROVE GapsInv'
<1> DEFINE f == knowledge[Gaps!QuestionOf(o)] # None
           x == [resolver[o] EXCEPT !.pc = "write", !.found = f]
<1>1. /\ resolver' = [resolver EXCEPT ![o] = x] /\ UNCHANGED <<gaps, knowledge, resolutions>>
      /\ resolver[o].pc = "faq"
  BY DEF Gaps!FindFaq
<1>2. f \in BOOLEAN
  OBVIOUS
<1>3. (f = TRUE) => knowledge[Gaps!QuestionOf(o)] # None
  OBVIOUS
<1> HIDE DEF f
<1>4. /\ x \in [pc : Places, gap : Gaps!Ids \union {None}, answer : Answers \union {None}, found : BOOLEAN]
      /\ x.pc = "write" /\ x.gap = resolver[o].gap /\ x.answer = resolver[o].answer /\ x.found = f
  BY <1>2 DEF GapsInv, GapsTyped, Places
<1>5. x.gap \in Gaps!Ids /\ x.answer \in Answers
  BY <1>1, <1>4, QuestionTyped DEF GapsInv
<1> HIDE DEF x
<1> QED BY <1>1, <1>2, <1>3, <1>4, <1>5, ResolverFits DEF Gaps!QuestionOf

LEMMA AbortFits == ASSUME GapsInv, NEW o \in Operators, Gaps!Abort(o) PROVE GapsInv'
<1>1. Gaps!Idle \in [pc : Places, gap : Gaps!Ids \union {None}, answer : Answers \union {None}, found : BOOLEAN]
      /\ Gaps!Idle.pc = "idle"
  BY DEF Gaps!Idle, Places
<1> QED BY <1>1, ResolverFits DEF Gaps!Abort

LEMMA SubmitFits ==
  ASSUME GapsInv, NEW o \in Operators, NEW g \in Gaps!Ids, NEW a \in Answers, Gaps!Submit(o, g, a)
  PROVE  GapsInv'
<1> DEFINE x == [Gaps!Idle EXCEPT !.pc = "gap", !.gap = g, !.answer = a]
<1>1. /\ x \in [pc : Places, gap : Gaps!Ids \union {None}, answer : Answers \union {None}, found : BOOLEAN]
      /\ x.pc = "gap" /\ x.gap = g /\ x.answer = a
  BY DEF Gaps!Idle, Places
<1>2. resolver' = [resolver EXCEPT ![o] = x] /\ UNCHANGED <<gaps, knowledge, resolutions>>
  BY DEF Gaps!Submit
<1> HIDE DEF x
<1> QED BY <1>1, <1>2, ResolverFits

\* The commit publishes its answer, whatever else was resolved in between.
LEMMA CommitFits ==
  ASSUME Gaps!KnowledgeAssumption, GapsInv, NEW o \in Operators, Gaps!Commit(o)
  PROVE  GapsInv'
<1> DEFINE x == resolver[o]
           q == Gaps!QuestionOf(o)
           g == x.gap
           a == x.answer
           e == [gap |-> g, answer |-> a]
           resolved == [status |-> "resolved", answer |-> a]
           n == Len(resolutions) + 1
<1>1. x.pc = "commit" /\ q \in Questions /\ g \in Gaps!Ids /\ a \in Answers /\ q = g[2]
  BY QuestionTyped DEF Gaps!Commit, GapsInv, Gaps!QuestionOf
<1>2. x.found \/ knowledge[q] = None
  BY <1>1 DEF GapsInv, Inserts
<1>3. /\ knowledge' = [knowledge EXCEPT ![q] = Gaps!Row(g, a)]
      /\ gaps' = [gaps EXCEPT ![g] = resolved]
      /\ resolutions' = Append(resolutions, e)
      /\ resolver' = [resolver EXCEPT ![o] = Gaps!Idle]
  BY <1>2 DEF Gaps!Commit
<1>4. /\ Gaps!Row(g, a) \in KnowledgeRow /\ Gaps!Row(g, a).source = g /\ Gaps!Row(g, a).answer = a
      /\ Gaps!Row(g, a) # None
  BY <1>1 DEF Gaps!Row, KnowledgeRow, Gaps!KnowledgeAssumption, Gaps!Ids
<1>5. resolved \in GapRow /\ resolved # None
  BY <1>1 DEF GapRow, Gaps!KnowledgeAssumption
<1>6. e \in [gap : Gaps!Ids, answer : Answers] /\ e.gap = g
  BY <1>1
<1>7. Gaps!Idle \in [pc : Places, gap : Gaps!Ids \union {None}, answer : Answers \union {None}, found : BOOLEAN]
      /\ Gaps!Idle.pc = "idle"
  BY DEF Gaps!Idle, Places
<1> HIDE DEF x, q, g, a, e, resolved, n
<1>8. /\ \A r \in Questions : knowledge'[r] = IF r = q THEN Gaps!Row(g, a) ELSE knowledge[r]
      /\ \A f \in Gaps!Ids : gaps'[f] = IF f = g THEN resolved ELSE gaps[f]
      /\ \A p \in Operators : resolver'[p] = IF p = o THEN Gaps!Idle ELSE resolver[p]
  BY <1>3 DEF GapsInv, GapsTyped
<1>9. /\ resolutions \in Seq([gap : Gaps!Ids, answer : Answers]) /\ Len(resolutions) \in Nat
      /\ resolutions' \in Seq([gap : Gaps!Ids, answer : Answers]) /\ Len(resolutions') = n
      /\ n = Len(resolutions) + 1 /\ resolutions'[n] = e
      /\ \A i \in 1 .. Len(resolutions) : resolutions'[i] = resolutions[i]
  BY <1>3, <1>6 DEF GapsInv, GapsTyped, n
<1>10. GapsTyped'
  BY <1>3, <1>4, <1>5, <1>7, <1>8, <1>9 DEF GapsInv, GapsTyped
<1>11. Updates'
  <2> SUFFICES ASSUME NEW p \in Operators, resolver'[p].pc \in {"write", "commit"}, resolver'[p].found
               PROVE  knowledge'[resolver'[p].gap[2]] # None
    BY DEF Updates, Gaps!QuestionOf
  <2>1. p # o /\ resolver'[p] = resolver[p] /\ Gaps!QuestionOf(p) \in Questions
    BY <1>7, <1>8, QuestionTyped DEF GapsInv
  <2>2. knowledge[Gaps!QuestionOf(p)] # None
    BY <2>1 DEF GapsInv, Updates
  <2> QED BY <1>4, <1>8, <2>1, <2>2 DEF Gaps!QuestionOf
<1>12. Inserts'
  <2> SUFFICES ASSUME NEW p \in Operators, resolver'[p].pc = "commit", ~resolver'[p].found
               PROVE  /\ knowledge'[resolver'[p].gap[2]] = None
                      /\ \A r \in Operators :
                           /\ resolver'[r].pc = "commit" /\ ~resolver'[r].found
                           /\ resolver'[r].gap[2] = resolver'[p].gap[2]
                           => r = p
    BY DEF Inserts, Gaps!QuestionOf
  <2>1. p # o /\ resolver'[p] = resolver[p] /\ Gaps!QuestionOf(p) \in Questions
    BY <1>7, <1>8, QuestionTyped DEF GapsInv
  <2>2. knowledge[Gaps!QuestionOf(p)] = None
    BY <2>1 DEF GapsInv, Inserts
  <2>3. Gaps!QuestionOf(p) # q
    <3>1. x.found => knowledge[q] # None
      BY <1>1 DEF GapsInv, Updates, x, q
    <3>2. ~x.found => Gaps!QuestionOf(p) # q
      BY <1>1, <2>1 DEF GapsInv, Inserts, x, q
    <3> QED BY <2>2, <3>1, <3>2
  <2>4. \A r \in Operators :
          /\ resolver'[r].pc = "commit" /\ ~resolver'[r].found
          /\ resolver'[r].gap[2] = resolver'[p].gap[2]
          => r = p
    <3>1. ASSUME NEW r \in Operators, resolver'[r].pc = "commit", ~resolver'[r].found,
                 resolver'[r].gap[2] = resolver'[p].gap[2]
          PROVE  r = p
      <4>1. resolver'[r] = resolver[r]
        BY <1>7, <1>8, <3>1
      <4> QED BY <2>1, <3>1, <4>1 DEF GapsInv, Inserts, Gaps!QuestionOf
    <3> QED BY <3>1
  <2> QED BY <1>8, <2>1, <2>2, <2>3, <2>4 DEF Gaps!QuestionOf
<1>13. Gaps!NewestResolutionIsTold'
  <2>1. ASSUME NEW f \in Gaps!Ids, gaps'[f] # None, gaps'[f].status = "resolved"
        PROVE  knowledge'[f[2]] # None
    <3>1. f[2] \in Questions
      BY DEF Gaps!Ids
    <3>2. f = g \/ knowledge[f[2]] # None
      BY <1>8, <2>1 DEF GapsInv, Gaps!NewestResolutionIsTold
    <3> QED BY <1>1, <1>4, <1>8, <3>1, <3>2 DEF q, g, x, Gaps!QuestionOf
  <2>2. ASSUME NEW r \in Questions, knowledge'[r] # None
        PROVE  /\ knowledge'[r].source[2] = r
               /\ gaps'[knowledge'[r].source] = [status |-> "resolved", answer |-> knowledge'[r].answer]
    <3>1. CASE r = q
      BY <1>1, <1>4, <1>8, <3>1 DEF resolved
    <3>2. CASE r # q
      <4>1. knowledge'[r] = knowledge[r] /\ knowledge[r].source \in Gaps!Ids
        BY <1>8, <2>2, <3>2 DEF GapsInv, GapsTyped, KnowledgeRow
      <4>2. /\ knowledge[r].source[2] = r
            /\ gaps[knowledge[r].source] = [status |-> "resolved", answer |-> knowledge[r].answer]
        BY <2>2, <4>1 DEF GapsInv, Gaps!NewestResolutionIsTold
      <4>3. knowledge[r].source # g
        BY <1>1, <3>2, <4>2
      <4> QED BY <1>8, <4>1, <4>2, <4>3
    <3> QED BY <3>1, <3>2
  <2>3. ASSUME NEW i \in DOMAIN resolutions',
               \A j \in i + 1 .. Len(resolutions') : resolutions'[j].gap[2] # resolutions'[i].gap[2]
        PROVE  knowledge'[resolutions'[i].gap[2]].source = resolutions'[i].gap
    <3>1. CASE i = n
      BY <1>1, <1>4, <1>6, <1>8, <1>9, <3>1
    <3>2. CASE i # n
      <4>1. i \in 1 .. Len(resolutions) /\ resolutions'[i] = resolutions[i] /\ n \in i + 1 .. Len(resolutions')
        BY <1>9, <3>2
      <4>2. resolutions[i].gap[2] # q
        BY <1>1, <1>6, <1>9, <2>3, <4>1
      <4>3. \A j \in i + 1 .. Len(resolutions) : resolutions[j].gap[2] # resolutions[i].gap[2]
        BY <1>9, <2>3, <4>1
      <4>4. knowledge[resolutions[i].gap[2]].source = resolutions[i].gap
        BY <1>9, <4>1, <4>3 DEF GapsInv, Gaps!NewestResolutionIsTold
      <4>5. resolutions[i].gap[2] \in Questions
        <5>1. resolutions \in Seq([gap : Gaps!Ids, answer : Answers])
          BY <1>9
        <5>2. resolutions[i] \in [gap : Gaps!Ids, answer : Answers]
          <6>1. i \in 1 .. Len(resolutions)
            BY <4>1
          <6>2. \A S : resolutions \in Seq(S) => resolutions[i] \in S
            BY <6>1
          <6> QED BY <5>1, <6>2
        <5>3. resolutions[i].gap \in Gaps!Ids
          BY <5>2
        <5> QED BY <5>3 DEF Gaps!Ids
      <4> QED BY <1>8, <4>1, <4>2, <4>4, <4>5
    <3> QED BY <3>1, <3>2
  <2> QED BY <2>1, <2>2, <2>3 DEF Gaps!NewestResolutionIsTold
<1> QED BY <1>10, <1>11, <1>12, <1>13 DEF GapsInv

LEMMA GapsNextFits ==
  ASSUME Gaps!KnowledgeAssumption, GapsInv, [Gaps!Next]_(Gaps!vars)
  PROVE  GapsInv'
<1>1. ASSUME UNCHANGED <<gaps, knowledge, resolver, resolutions>> PROVE GapsInv'
  BY <1>1 DEF GapsInv, GapsTyped, Updates, Inserts, Gaps!QuestionOf, Gaps!NewestResolutionIsTold
<1>2. ASSUME NEW c \in Calls, NEW q \in Questions, (\E r \in BOOLEAN : Gaps!Search(c, q, r)) \/ Gaps!Report(c, q)
      PROVE  GapsInv'
  BY <1>1, <1>2 DEF Gaps!Search, Gaps!Report
<1>3. ASSUME NEW c \in Calls, Gaps!Log(c) PROVE GapsInv'
  <2>1. CASE gaps' = gaps
    BY <1>1, <1>3, <2>1 DEF Gaps!Log
  <2>2. CASE gaps' = [gaps EXCEPT ![<<c, caller[c]>>] = Gaps!Logged(gaps[<<c, caller[c]>>])]
    <3>1. CASE caller[c] \in Questions
      BY <1>3, <2>2, <3>1, LogFits DEF Gaps!Log
    <3>2. CASE caller[c] \notin Questions
      <4>1. <<c, caller[c]>> \notin DOMAIN gaps
        BY <3>2 DEF GapsInv, GapsTyped, Gaps!Ids
      <4>2. gaps' = gaps
        BY <2>2, <4>1 DEF GapsInv, GapsTyped
      <4> QED BY <2>1, <4>2
    <3> QED BY <3>1, <3>2
  <2> QED BY <1>3, <2>1, <2>2 DEF Gaps!Log
<1>4. ASSUME NEW o \in Operators, NEW g \in Gaps!Ids, NEW a \in Answers, Gaps!Submit(o, g, a) PROVE GapsInv'
  BY <1>4, SubmitFits
<1>5. ASSUME NEW o \in Operators, Gaps!LockGap(o) \/ Gaps!WriteFaq(o) PROVE GapsInv'
  BY <1>5, PlaceFits DEF Gaps!LockGap, Gaps!WriteFaq
<1>6. ASSUME NEW o \in Operators, Gaps!FindFaq(o) \/ Gaps!Commit(o) \/ Gaps!Abort(o) PROVE GapsInv'
  BY <1>6, FindFits, CommitFits, AbortFits
<1>7. CASE UNCHANGED Gaps!vars
  BY <1>1, <1>7 DEF Gaps!vars
<1> QED BY <1>2, <1>3, <1>4, <1>5, <1>6, <1>7 DEF Gaps!Next

\* What operators see and what callers hear agree, and no resolution that was
\* answered as done is lost to another one.
THEOREM LastAnswerIsTold == Gaps!Spec => []NewestResolutionIsTold
<1>1. GapsInv /\ [Gaps!Next]_(Gaps!vars) => GapsInv'
  BY PartsAssumption, GapsNextFits
<1>2. GapsInv => NewestResolutionIsTold
  BY DEF GapsInv, NewestResolutionIsTold
<1> QED BY <1>1, <1>2, GapsInitFits, PTL DEF Gaps!Spec

-----------------------------------------------------------------------------
(* LocalAgent.  A write is done once on a turn.  A key of the ledger is made *)
(* of the history that the turn began with and of its message; the history a *)
(* request carries and the turn it is on never change, so that both its      *)
(* attempts have the scope that its earlier writes were entered under.       *)

Turns == Seq([message : Messages, runner : Runners])

InWork(r) == request[r].pc # "idle"

\* A request is a record with these fields.
IsRequest(x) ==
  x \in [pc : {x.pc}, runner : {x.runner}, turn : {x.turn}, history : {x.history},
         scope : {x.scope}, batch : {x.batch}, iterations : {x.iterations},
         seen : {x.seen}, retried : {x.retried}]

\* Every attempt of a turn has the scope of its first one.
ScopeKept(x, ts) == x.turn \in 1 .. Len(ts) /\ x.scope = <<Len(x.history), ts[x.turn].message>>

Entered == {e.key : e \in ledger}

RequestsFit ==
  /\ turns \in Turns /\ DOMAIN request = Requests /\ request = [r \in Requests |-> request[r]]
  /\ \A r \in Requests : IsRequest(request[r]) /\ (InWork(r) => ScopeKept(request[r], turns))
  /\ \A r, s \in Requests : r # s /\ InWork(r) /\ InWork(s) => request[r].turn # request[s].turn

\* What a turn in work has done is in the ledger, under its scope.
EffectsFit ==
  /\ \E S : effects \in Seq(S)
  /\ \A i \in DOMAIN effects : effects[i].turn \in 1 .. Len(turns)
  /\ \A r \in Requests, i \in DOMAIN effects :
       InWork(r) /\ effects[i].turn = request[r].turn
       => <<request[r].scope, effects[i].tool>> \in Entered

AgentInv == RequestsFit /\ EffectsFit /\ Agent!OncePerTurn

-----------------------------------------------------------------------------
LEMMA IdleIsRequest == IsRequest(Agent!Idle) /\ Agent!Idle.pc = "idle"
BY DEF Agent!Idle, IsRequest

LEMMA AgentInitFits == Agent!Init => AgentInv
<1> SUFFICES ASSUME Agent!Init PROVE AgentInv
  OBVIOUS
<1>1. RequestsFit
  BY IdleIsRequest DEF Agent!Init, RequestsFit, Turns, InWork
<1>2. effects \in Seq({}) /\ DOMAIN effects = {}
  BY DEF Agent!Init
<1> QED BY <1>1, <1>2 DEF AgentInv, EffectsFit, Agent!OncePerTurn

\* A request goes on with its turn, or ends.
LEMMA GoesOnFits ==
  ASSUME AgentInv, NEW r \in Requests, NEW x, IsRequest(x),
         request' = [request EXCEPT ![r] = x], UNCHANGED turns,
         x.pc = "idle" \/ /\ InWork(r) /\ x.turn = request[r].turn
                          /\ x.history = request[r].history /\ x.scope = request[r].scope
  PROVE  /\ RequestsFit'
         /\ \A s \in Requests : InWork(s)' =>
              InWork(s) /\ request'[s].turn = request[s].turn /\ request'[s].scope = request[s].scope
<1>1. \A s \in Requests : request'[s] = IF s = r THEN x ELSE request[s]
  BY DEF AgentInv, RequestsFit
<1>2. DOMAIN request' = Requests /\ request' = [s \in Requests |-> request'[s]]
  BY DEF AgentInv, RequestsFit
<1>3. \A s \in Requests : InWork(s)' =>
        /\ InWork(s) /\ request'[s].turn = request[s].turn /\ request'[s].scope = request[s].scope
        /\ request'[s].history = request[s].history
  BY <1>1 DEF InWork
<1>4. \A s \in Requests : IsRequest(request'[s])
  BY <1>1 DEF AgentInv, RequestsFit
<1>5. \A s \in Requests : InWork(s)' => ScopeKept(request'[s], turns')
  BY <1>3 DEF AgentInv, RequestsFit, ScopeKept
<1> QED BY <1>2, <1>3, <1>4, <1>5 DEF AgentInv, RequestsFit

\* Most steps write nothing.
LEMMA QuietFits ==
  ASSUME AgentInv, NEW r \in Requests, NEW x, IsRequest(x),
         request' = [request EXCEPT ![r] = x], UNCHANGED <<turns, effects, ledger>>,
         x.pc = "idle" \/ /\ InWork(r) /\ x.turn = request[r].turn
                          /\ x.history = request[r].history /\ x.scope = request[r].scope
  PROVE  AgentInv'
<1>1. RequestsFit'
      /\ \A s \in Requests : InWork(s)' =>
           InWork(s) /\ request'[s].turn = request[s].turn /\ request'[s].scope = request[s].scope
  BY GoesOnFits
<1>2. EffectsFit'
  BY <1>1 DEF AgentInv, EffectsFit, Entered
<1>3. Agent!OncePerTurn'
  BY DEF AgentInv, Agent!OncePerTurn
<1> QED BY <1>1, <1>2, <1>3 DEF AgentInv

LEMMA ReplyFits == ASSUME AgentInv, NEW r \in Requests, Agent!Reply(r) PROVE AgentInv'
BY QuietFits, IdleIsRequest DEF Agent!Reply, Agent!Become, Agent!world

\* A message that arrives is the newest turn, which has done nothing yet.
LEMMA ArriveFits ==
  ASSUME AgentInv, NEW r \in Requests, NEW w \in Runners, NEW m \in Messages, Agent!Arrive(r, w, m)
  PROVE  AgentInv'
<1> DEFINE t == Len(turns) + 1
           h == Append(Agent!Seeded(history), Agent!Said(t))
           x == [Agent!Idle EXCEPT !.pc = "turn", !.runner = w, !.turn = t, !.history = h,
                             !.scope = Agent!ActionScope(h, m, FALSE)]
<1>1. /\ turns' = Append(turns, [message |-> m, runner |-> w])
      /\ request' = [request EXCEPT ![r] = x] /\ UNCHANGED <<effects, ledger>>
  BY DEF Agent!Arrive, Agent!Become, Agent!world
<1>2. /\ IsRequest(x) /\ x.turn = t /\ x.history = h /\ x.scope = <<Len(h), m>>
  <2> HIDE DEF t, h
  <2> QED BY DEF Agent!Idle, IsRequest, Agent!ActionScope
<1>3. /\ turns \in Turns /\ turns' \in Turns /\ t \in Nat /\ Len(turns) \in Nat
      /\ Len(turns') = t /\ turns'[t].message = m
      /\ \A i \in 1 .. Len(turns) : turns'[i] = turns[i]
  BY <1>1 DEF AgentInv, RequestsFit, Turns
<1> HIDE DEF t, h, x
<1>4. /\ DOMAIN request' = Requests /\ request' = [s \in Requests |-> request'[s]]
      /\ \A s \in Requests : request'[s] = IF s = r THEN x ELSE request[s]
  BY <1>1 DEF AgentInv, RequestsFit
<1>5. t = Len(turns) + 1 /\ t \notin 1 .. Len(turns)
  BY <1>3 DEF t
<1>6. ASSUME NEW s \in Requests, InWork(s)' PROVE ScopeKept(request'[s], turns')
  <2>1. CASE s = r
    BY <1>2, <1>3, <1>4, <1>5, <2>1 DEF ScopeKept
  <2>2. CASE s # r
    BY <1>3, <1>4, <1>5, <1>6, <2>2 DEF AgentInv, RequestsFit, ScopeKept, InWork
  <2> QED BY <2>1, <2>2
<1>7. ASSUME NEW s \in Requests, s # r, InWork(s)' PROVE InWork(s) /\ request'[s].turn # t
  BY <1>4, <1>5, <1>7 DEF AgentInv, RequestsFit, ScopeKept, InWork
<1>8. RequestsFit'
  BY <1>2, <1>3, <1>4, <1>6, <1>7 DEF AgentInv, RequestsFit, InWork
<1>9. EffectsFit'
  <2>1. \A i \in DOMAIN effects : effects[i].turn \in 1 .. Len(turns)' /\ effects[i].turn # t
    BY <1>3, <1>5 DEF AgentInv, EffectsFit
  <2>2. ASSUME NEW s \in Requests, NEW i \in DOMAIN effects, InWork(s)', effects[i].turn = request'[s].turn
        PROVE  <<request'[s].scope, effects[i].tool>> \in Entered
    <3>1. s # r
      BY <1>2, <1>4, <2>1, <2>2
    <3> QED BY <1>4, <1>7, <2>2, <3>1 DEF AgentInv, EffectsFit
  <2> QED BY <1>1, <2>1, <2>2 DEF AgentInv, EffectsFit, Entered
<1> QED BY <1>1, <1>8, <1>9 DEF AgentInv, Agent!OncePerTurn

\* A write is looked up under the scope of its turn: what the turn has done
\* already is answered from the ledger.
LEMMA RunToolFits ==
  ASSUME AgentInv, NEW r \in Requests, Agent!RunTool(r)
  PROVE  AgentInv'
<1> DEFINE x == request[r]
           tool == Head(x.batch)
           rest == [x EXCEPT !.batch = Tail(x.batch)]
           key == <<x.scope, tool>>
<1>1. UNCHANGED turns /\ InWork(r)
  BY DEF Agent!RunTool, Agent!At, InWork
<1>2. /\ IsRequest(rest) /\ IsRequest([rest EXCEPT !.seen = version])
      /\ rest.turn = x.turn /\ rest.history = x.history /\ rest.scope = x.scope
      /\ [rest EXCEPT !.seen = version].turn = x.turn
      /\ [rest EXCEPT !.seen = version].history = x.history
      /\ [rest EXCEPT !.seen = version].scope = x.scope
  BY DEF AgentInv, RequestsFit, IsRequest
<1>3. \/ UNCHANGED Agent!world /\ (Agent!Become(r, rest) \/ Agent!Become(r, [rest EXCEPT !.seen = version]))
      \/ Agent!Execute(x, tool) /\ Agent!Become(r, rest)
  BY DEF Agent!RunTool
<1> HIDE DEF rest
<1>4. CASE UNCHANGED Agent!world /\ (Agent!Become(r, rest) \/ Agent!Become(r, [rest EXCEPT !.seen = version]))
  BY <1>1, <1>2, <1>4, QuietFits DEF Agent!Become, Agent!world
<1>5. CASE Agent!Execute(x, tool) /\ Agent!Become(r, rest)
  <2>1. CASE UNCHANGED <<effects, ledger>>
    BY <1>1, <1>2, <1>5, <2>1, QuietFits DEF Agent!Become
  <2>2. CASE /\ effects' = Append(effects, [turn |-> x.turn, tool |-> tool])
             /\ ledger' = ledger \cup {[key |-> key, turn |-> x.turn]}
             /\ key \notin Entered
    <3>1. /\ RequestsFit'
          /\ \A s \in Requests : InWork(s)' =>
               InWork(s) /\ request'[s].turn = request[s].turn /\ request'[s].scope = request[s].scope
      BY <1>1, <1>2, <1>5, GoesOnFits DEF Agent!Become
    <3>2. Entered' = Entered \cup {key}
      <4> DEFINE l == [key |-> key, turn |-> x.turn]
      <4>1. l.key = key
        OBVIOUS
      <4>2. ledger' = ledger \cup {l}
        BY <2>2
      <4> HIDE DEF l, key
      <4>3. {f.key : f \in ledger \cup {l}} = {f.key : f \in ledger} \cup {key}
        BY <4>1
      <4> QED BY <4>2, <4>3 DEF Entered
    <3>3. PICK S : effects \in Seq(S)
      BY DEF AgentInv, EffectsFit
    <3> DEFINE e == [turn |-> x.turn, tool |-> tool]
               n == Len(effects) + 1
    <3>4. /\ effects' \in Seq(S \cup {e}) /\ DOMAIN effects' = DOMAIN effects \cup {n}
          /\ n \notin DOMAIN effects /\ effects'[n] = e
          /\ \A i \in DOMAIN effects : effects'[i] = effects[i]
      <4>1. effects \in Seq(S \cup {e})
        BY <3>3
      <4>2. effects' = Append(effects, e)
        BY <2>2
      <4> HIDE DEF e
      <4> QED BY <4>1, <4>2
    <3>5. e.turn = x.turn /\ e.tool = tool
      OBVIOUS
    <3>6. x.turn \in 1 .. Len(turns)
      BY <1>1 DEF AgentInv, RequestsFit, ScopeKept
    <3> HIDE DEF e, n
    <3>7. ASSUME NEW s \in Requests, NEW i \in DOMAIN effects', InWork(s)',
                 effects'[i].turn = request'[s].turn
          PROVE  <<request'[s].scope, effects'[i].tool>> \in Entered'
      <4>1. CASE i \in DOMAIN effects
        BY <3>1, <3>2, <3>4, <3>7, <4>1 DEF AgentInv, EffectsFit
      <4>2. CASE i = n
        <5>1. s = r
          BY <1>1, <3>1, <3>4, <3>5, <3>7, <4>2 DEF AgentInv, RequestsFit
        <5> QED BY <3>1, <3>2, <3>4, <3>5, <3>7, <4>2, <5>1
      <4> QED BY <3>4, <4>1, <4>2
    <3>8. EffectsFit'
      BY <1>1, <3>4, <3>5, <3>6, <3>7 DEF AgentInv, EffectsFit
    <3>9. \A i \in DOMAIN effects : effects[i] # e
      BY <1>1, <2>2, <3>5 DEF AgentInv, EffectsFit
    <3>10. Agent!OncePerTurn'
      BY <3>4, <3>9 DEF AgentInv, Agent!OncePerTurn
    <3> QED BY <3>1, <3>8, <3>10 DEF AgentInv
  <2>3. DEFINE old == {e \in ledger : e.key = key}
  <2>4. IF old # {} THEN UNCHANGED <<effects, ledger>>
        ELSE /\ effects' = Append(effects, [turn |-> x.turn, tool |-> tool])
             /\ ledger' = ledger \cup {[key |-> key, turn |-> x.turn]}
    BY <1>5 DEF Agent!Execute
  <2>5. old = {} => key \notin Entered
    BY DEF Entered
  <2> HIDE DEF old
  <2> QED BY <2>1, <2>2, <2>4, <2>5
<1> QED BY <1>3, <1>4, <1>5

LEMMA StepFits == ASSUME AgentInv, NEW r \in Requests, Agent!Step(r) PROVE AgentInv'
<1> DEFINE x == request[r]
<1>1. IsRequest(x)
  BY DEF AgentInv, RequestsFit
<1>2. CASE Agent!CallerTurn(r)
  <2>1. CASE Agent!Reply(r)
    BY <2>1, ReplyFits
  <2>2. CASE Agent!Become(r, [x EXCEPT !.pc = "agent"]) /\ UNCHANGED <<turns, Agent!world>>
    <3>1. IsRequest([x EXCEPT !.pc = "agent"]) /\ [x EXCEPT !.pc = "agent"].turn = x.turn
          /\ [x EXCEPT !.pc = "agent"].history = x.history /\ [x EXCEPT !.pc = "agent"].scope = x.scope
      BY <1>1 DEF IsRequest
    <3>2. InWork(r)
      BY <1>2 DEF Agent!CallerTurn, Agent!At, InWork
    <3> QED BY <2>2, <3>1, <3>2, QuietFits DEF Agent!Become, Agent!world
  <2> QED BY <1>2, <2>1, <2>2 DEF Agent!CallerTurn
<1>3. CASE Agent!Retry(r)
  <2> DEFINE y == [x EXCEPT !.retried = TRUE, !.iterations = 0, !.seen = Agent!NoSummary,
                            !.scope = Agent!ActionScope(x.history, turns[x.turn].message, TRUE)]
  <2>1. /\ IsRequest(y) /\ y.turn = x.turn /\ y.history = x.history
        /\ y.scope = Agent!ActionScope(x.history, turns[x.turn].message, TRUE)
    BY <1>1 DEF IsRequest
  <2>2. InWork(r) /\ Agent!Become(r, y) /\ UNCHANGED <<turns, Agent!world>>
    BY <1>3 DEF Agent!Retry, Agent!At, InWork
  <2>3. x.scope = Agent!ActionScope(x.history, turns[x.turn].message, TRUE)
    BY <2>2 DEF Agent!ActionScope, AgentInv, RequestsFit, ScopeKept
  <2> HIDE DEF y
  <2> QED BY <2>1, <2>2, <2>3, QuietFits DEF Agent!Become, Agent!world
<1>4. CASE Agent!Answer(r) \/ Agent!ToolLimit(r)
  BY <1>4, ReplyFits DEF Agent!Answer, Agent!ToolLimit
<1>5. ASSUME NEW b \in Agent!Batches, Agent!CallTools(r, b) PROVE AgentInv'
  <2>1. PICK p, c : Agent!Become(r, [x EXCEPT !.pc = p, !.batch = c])
    BY <1>5 DEF Agent!CallTools
  <2> DEFINE y == [x EXCEPT !.pc = p, !.batch = c]
  <2>2. IsRequest(y) /\ y.turn = x.turn /\ y.history = x.history /\ y.scope = x.scope
    BY <1>1 DEF IsRequest
  <2>3. InWork(r) /\ UNCHANGED <<turns, Agent!world>>
    BY <1>5 DEF Agent!CallTools, Agent!At, InWork
  <2> QED BY <2>1, <2>2, <2>3, QuietFits DEF Agent!Become, Agent!world
<1>6. CASE Agent!RunTool(r)
  BY <1>6, RunToolFits
<1>7. CASE Agent!BatchDone(r)
  <2> DEFINE y == [x EXCEPT !.pc = "agent", !.iterations = x.iterations + 1]
  <2>1. IsRequest(y) /\ y.turn = x.turn /\ y.history = x.history /\ y.scope = x.scope
    BY <1>1 DEF IsRequest
  <2>2. InWork(r) /\ Agent!Become(r, y) /\ UNCHANGED <<turns, Agent!world>>
    BY <1>7 DEF Agent!BatchDone, Agent!At, InWork
  <2> QED BY <2>1, <2>2, QuietFits DEF Agent!Become, Agent!world
<1> QED BY <1>2, <1>3, <1>4, <1>5, <1>6, <1>7 DEF Agent!Step

LEMMA AgentNextFits == AgentInv /\ [Agent!Next]_(Agent!vars) => AgentInv'
<1> SUFFICES ASSUME AgentInv, [Agent!Next]_(Agent!vars) PROVE AgentInv'
  OBVIOUS
<1>1. ASSUME NEW r \in Requests, Agent!Abandon(r) PROVE AgentInv'
  BY <1>1, QuietFits, IdleIsRequest DEF Agent!Abandon, Agent!Become, Agent!world
<1>2. ASSUME UNCHANGED <<request, turns, ledger, effects>> PROVE AgentInv'
  <2>1. RequestsFit'
    BY <1>2 DEF AgentInv, RequestsFit, InWork, ScopeKept, Entered
  <2>2. EffectsFit'
    BY <1>2 DEF AgentInv, EffectsFit, InWork, Entered
  <2>3. Agent!OncePerTurn'
    BY <1>2 DEF AgentInv, Agent!OncePerTurn
  <2> QED BY <2>1, <2>2, <2>3 DEF AgentInv
<1> QED BY <1>1, <1>2, ArriveFits, StepFits DEF Agent!Next, Agent!ClearSession, Agent!vars, Agent!world

\* A write is done once on a turn, however often the model asks for it, though
\* the turn is attempted twice, and whatever other messages are in work.
THEOREM WrittenOnce == Agent!Spec => []OncePerTurn
<1>1. AgentInv => OncePerTurn
  BY DEF AgentInv, OncePerTurn
<1> QED BY <1>1, AgentInitFits, AgentNextFits, PTL DEF Agent!Spec

-----------------------------------------------------------------------------
(* What was said on a streamed turn survives.  A streamed turn appends to    *)
(* what is stored by then, and as long as the history has not reached its    *)
(* cap nothing was cut from it.                                              *)

Entries == [role : {"user", "assistant"}, turn : Nat]

\* What was said is in the history.
Heard ==
  /\ history \in Seq(Entries)
  /\ Len(history) < HistoryCap => \A t \in DOMAIN turns : Agent!Said(t) \in Agent!Range(history)

HeardInv ==
  /\ clears \in Nat
  /\ \A r \in Requests : InWork(r) => request[r].runner = turns[request[r].turn].runner
  /\ clears = 0 /\ Agent!Streamed => Heard

LEMMA EntriesFit ==
  ASSUME NEW t \in Nat
  PROVE  Agent!Said(t) \in Entries /\ Agent!Answered(t) \in Entries
BY DEF Entries, Agent!Said, Agent!Answered

\* A sequence that ends up below the cap was not cut.
LEMMA KeptFacts ==
  ASSUME NEW h \in Seq(Entries)
  PROVE  /\ Agent!Kept(h) \in Seq(Entries)
         /\ Len(Agent!Kept(h)) < HistoryCap => Agent!Kept(h) = h
<1>1. HistoryCap \in Nat /\ HistoryCap > 0 /\ Len(h) \in Nat
  BY PartsAssumption DEF Agent!LocalAgentAssumption
<1>2. CASE Len(h) <= HistoryCap
  BY <1>2 DEF Agent!Kept
<1>3. CASE ~(Len(h) <= HistoryCap)
  <2>1. Agent!Kept(h) = SubSeq(h, Len(h) - HistoryCap + 1, Len(h))
    BY <1>3 DEF Agent!Kept
  <2>2. SubSeq(h, Len(h) - HistoryCap + 1, Len(h)) \in Seq(Entries)
    BY <1>1, <1>3
  <2>3. Len(SubSeq(h, Len(h) - HistoryCap + 1, Len(h))) = HistoryCap
    BY <1>1, <1>3
  <2> QED BY <1>1, <2>1, <2>2, <2>3
<1> QED BY <1>2, <1>3

\* Storing one more entry keeps the others.
LEMMA StoredFacts ==
  ASSUME NEW g \in Seq(Entries), NEW e \in Entries, NEW s, s = Agent!Kept(Append(g, e))
  PROVE  /\ s \in Seq(Entries)
         /\ Len(s) < HistoryCap =>
              /\ Len(g) < HistoryCap
              /\ Agent!Range(g) \subseteq Agent!Range(s) /\ e \in Agent!Range(s)
<1>1. Append(g, e) \in Seq(Entries)
  OBVIOUS
<1>2. s \in Seq(Entries) /\ (Len(s) < HistoryCap => s = Append(g, e))
  BY <1>1, KeptFacts
<1>3. ASSUME Len(s) < HistoryCap
      PROVE  /\ Len(g) < HistoryCap
             /\ Agent!Range(g) \subseteq Agent!Range(s) /\ e \in Agent!Range(s)
  <2>1. s = Append(g, e) /\ Len(s) = Len(g) + 1 /\ Len(g) \in Nat
    BY <1>2, <1>3
  <2>2. HistoryCap \in Nat
    BY PartsAssumption DEF Agent!LocalAgentAssumption
  <2>3. \A i \in 1 .. Len(g) : i \in 1 .. Len(s) /\ s[i] = g[i]
    BY <2>1
  <2>4. Len(s) \in 1 .. Len(s) /\ s[Len(s)] = e
    BY <2>1
  <2>5. DOMAIN g = 1 .. Len(g) /\ DOMAIN s = 1 .. Len(s)
    BY <1>2
  <2> QED BY <1>3, <2>1, <2>2, <2>3, <2>4, <2>5 DEF Agent!Range
<1> QED BY <1>2, <1>3

\* So does storing the opening first.
LEMMA SeededFacts ==
  ASSUME history \in Seq(Entries)
  PROVE  /\ Agent!Seeded(history) \in Seq(Entries)
         /\ Len(history) <= Len(Agent!Seeded(history))
         /\ Agent!Range(history) \subseteq Agent!Range(Agent!Seeded(history))
<1>1. CASE history = <<>>
  <2>1. Agent!Seeded(history) = <<Agent!Answered(0)>> /\ Agent!Answered(0) \in Entries
    BY <1>1, EntriesFit DEF Agent!Seeded
  <2>2. Agent!Range(history) = {} /\ Len(history) = 0
    BY <1>1 DEF Agent!Range
  <2>3. <<Agent!Answered(0)>> \in Seq(Entries) /\ Len(<<Agent!Answered(0)>>) = 1
    BY <2>1
  <2> QED BY <2>1, <2>2, <2>3
<1>2. CASE history # <<>>
  BY <1>2 DEF Agent!Seeded
<1> QED BY <1>1, <1>2

\* A message that arrives on a stream is stored at once.
LEMMA ArriveHeard ==
  ASSUME AgentInv, HeardInv, NEW r \in Requests, NEW w \in Runners, NEW m \in Messages,
         Agent!Arrive(r, w, m)
  PROVE  HeardInv'
<1> DEFINE t == Len(turns) + 1
           g == Agent!Seeded(history)
           h == Append(g, Agent!Said(t))
           x == [Agent!Idle EXCEPT !.pc = "turn", !.runner = w, !.turn = t, !.history = h,
                             !.scope = Agent!ActionScope(h, m, FALSE)]
<1>1. /\ turns' = Append(turns, [message |-> m, runner |-> w])
      /\ request' = [request EXCEPT ![r] = x] /\ UNCHANGED clears
      /\ history' = Agent!StoreAtOnce(w, h)
  BY DEF Agent!Arrive, Agent!Become
<1>2. x.runner = w /\ x.turn = t
  <2> HIDE DEF t, h
  <2> QED BY DEF Agent!Idle
<1>3. /\ turns \in Turns /\ t \in Nat /\ Len(turns) \in Nat
      /\ DOMAIN turns = 1 .. Len(turns) /\ DOMAIN turns' = 1 .. t
      /\ t = Len(turns) + 1 /\ turns'[t].runner = w
      /\ \A i \in 1 .. Len(turns) : i \in 1 .. t /\ turns'[i] = turns[i]
  BY <1>1 DEF AgentInv, RequestsFit, Turns
<1> HIDE DEF x
<1>4. \A s \in Requests : request'[s] = IF s = r THEN x ELSE request[s]
  BY <1>1 DEF AgentInv, RequestsFit
<1> HIDE DEF t
<1>5. ASSUME NEW s \in Requests, InWork(s)'
      PROVE  request'[s].runner = turns'[request'[s].turn].runner
  <2>1. CASE s = r
    BY <1>2, <1>3, <1>4, <2>1
  <2>2. CASE s # r
    <3>1. InWork(s) /\ request'[s] = request[s]
      BY <1>4, <1>5, <2>2 DEF InWork
    <3>2. request[s].turn \in 1 .. Len(turns)
      BY <3>1 DEF AgentInv, RequestsFit, ScopeKept
    <3> QED BY <1>3, <3>1, <3>2 DEF HeardInv
  <2> QED BY <2>1, <2>2
<1>6. ASSUME clears' = 0, Agent!Streamed' PROVE Heard'
  <2>1. Agent!Streamed /\ w = "stream"
    BY <1>3, <1>6 DEF Agent!Streamed
  <2>2. Heard
    BY <1>1, <1>6, <2>1 DEF HeardInv
  <2>3. history' = Agent!Kept(Append(g, Agent!Said(t)))
    BY <1>1, <2>1 DEF Agent!StoreAtOnce
  <2>4. /\ g \in Seq(Entries) /\ Len(history) <= Len(g) /\ Agent!Range(history) \subseteq Agent!Range(g)
        /\ Agent!Said(t) \in Entries
    BY <1>3, <2>2, SeededFacts, EntriesFit DEF Heard
  <2> HIDE DEF g
  <2>5. /\ history' \in Seq(Entries)
        /\ Len(history') < HistoryCap =>
             /\ Len(g) < HistoryCap
             /\ Agent!Range(g) \subseteq Agent!Range(history')
             /\ Agent!Said(t) \in Agent!Range(history')
    BY <2>3, <2>4, StoredFacts
  <2>6. ASSUME Len(history') < HistoryCap, NEW i \in 1 .. t
        PROVE  Agent!Said(i) \in Agent!Range(history')
    <3>1. Len(history) < HistoryCap
      BY <2>2, <2>4, <2>5, <2>6, PartsAssumption DEF Heard, Agent!LocalAgentAssumption
    <3>2. CASE i = t
      BY <2>5, <2>6, <3>2
    <3>3. CASE i # t
      <4>1. i \in DOMAIN turns
        BY <1>3, <3>3
      <4> QED BY <2>2, <2>4, <2>5, <2>6, <3>1, <4>1 DEF Heard
    <3> QED BY <3>2, <3>3
  <2>7. \A i \in DOMAIN turns' : Agent!Said(i) = Agent!Said(i)'
    BY DEF Agent!Said
  <2> QED BY <1>3, <2>5, <2>6 DEF Heard, Agent!Said, Agent!Range
<1> QED BY <1>1, <1>5, <1>6 DEF HeardInv

\* A request goes on with its turn, or ends.
LEMMA WorkHeard ==
  ASSUME AgentInv, HeardInv, NEW r \in Requests, NEW x,
         request' = [request EXCEPT ![r] = x], UNCHANGED turns,
         \/ x.pc = "idle"
         \/ InWork(r) /\ x.turn = request[r].turn /\ x.runner = request[r].runner
  PROVE  \A s \in Requests : InWork(s)' => request'[s].runner = turns'[request'[s].turn].runner
<1>1. \A s \in Requests : request'[s] = IF s = r THEN x ELSE request[s]
  BY DEF AgentInv, RequestsFit
<1> QED BY <1>1 DEF HeardInv, InWork

\* Most steps store nothing.
LEMMA QuietHeard ==
  ASSUME AgentInv, HeardInv, NEW r \in Requests, NEW x,
         request' = [request EXCEPT ![r] = x], UNCHANGED <<turns, history, clears>>,
         \/ x.pc = "idle"
         \/ InWork(r) /\ x.turn = request[r].turn /\ x.runner = request[r].runner
  PROVE  HeardInv'
<1>1. \A s \in Requests : InWork(s)' => request'[s].runner = turns'[request'[s].turn].runner
  BY WorkHeard
<1>2. Heard => Heard'
  BY DEF Heard, Agent!Said, Agent!Range
<1> QED BY <1>1, <1>2 DEF HeardInv, Agent!Streamed

\* A streamed turn's answer is appended to what is stored by then.
LEMMA ReplyHeard ==
  ASSUME AgentInv, HeardInv, NEW r \in Requests, InWork(r), Agent!Reply(r)
  PROVE  HeardInv'
<1> DEFINE x == request[r]
<1>1. /\ history' = Agent!Stored(r) /\ request' = [request EXCEPT ![r] = Agent!Idle]
      /\ UNCHANGED <<turns, clears>>
  BY DEF Agent!Reply, Agent!Become
<1>2. \A s \in Requests : InWork(s)' => request'[s].runner = turns'[request'[s].turn].runner
  BY <1>1, WorkHeard, IdleIsRequest
<1>3. ASSUME clears' = 0, Agent!Streamed' PROVE Heard'
  <2>1. x.turn \in 1 .. Len(turns) /\ DOMAIN turns = 1 .. Len(turns) /\ Len(turns) \in Nat
    BY DEF AgentInv, RequestsFit, ScopeKept, Turns
  <2>2. Heard /\ x.runner = "stream"
    BY <1>1, <1>3, <2>1 DEF HeardInv, Agent!Streamed
  <2>3. history' = Agent!Kept(Append(history, Agent!Answered(x.turn)))
    BY <1>1, <2>2 DEF Agent!Stored
  <2>4. history \in Seq(Entries) /\ Agent!Answered(x.turn) \in Entries
    BY <2>1, <2>2, EntriesFit DEF Heard
  <2>5. /\ history' \in Seq(Entries)
        /\ Len(history') < HistoryCap =>
             Len(history) < HistoryCap /\ Agent!Range(history) \subseteq Agent!Range(history')
    BY <2>3, <2>4, StoredFacts
  <2> QED BY <1>1, <2>2, <2>5 DEF Heard, Agent!Said, Agent!Range
<1> QED BY <1>1, <1>2, <1>3 DEF HeardInv

LEMMA StepHeard ==
  ASSUME AgentInv, HeardInv, NEW r \in Requests, Agent!Step(r) \/ Agent!Abandon(r)
  PROVE  HeardInv'
<1> DEFINE x == request[r]
<1>1. IsRequest(x)
  BY DEF AgentInv, RequestsFit
<1>2. InWork(r)
  BY DEF Agent!Step, Agent!CallerTurn, Agent!Retry, Agent!Answer, Agent!ToolLimit, Agent!CallTools,
    Agent!RunTool, Agent!BatchDone, Agent!Abandon, Agent!At, InWork
<1>3. CASE Agent!Reply(r)
  BY <1>2, <1>3, ReplyHeard
<1>4. ASSUME ~Agent!Reply(r)
      PROVE  /\ UNCHANGED <<turns, history, clears>>
             /\ \E y : /\ request' = [request EXCEPT ![r] = y]
                       /\ \/ y.pc = "idle"
                          \/ y.turn = x.turn /\ y.runner = x.runner
  <2>1. UNCHANGED <<turns, history, clears>>
    BY <1>4 DEF Agent!Step, Agent!CallerTurn, Agent!Retry, Agent!Answer, Agent!ToolLimit,
      Agent!CallTools, Agent!RunTool, Agent!BatchDone, Agent!Abandon
  <2> SUFFICES \E y : /\ Agent!Become(r, y)
                      /\ \/ y.pc = "idle"
                         \/ y.turn = x.turn /\ y.runner = x.runner
    BY <2>1 DEF Agent!Become
  <2>2. CASE Agent!CallerTurn(r)
    <3>1. Agent!Become(r, [x EXCEPT !.pc = "agent"])
      BY <1>4, <2>2 DEF Agent!CallerTurn
    <3>2. [x EXCEPT !.pc = "agent"].turn = x.turn /\ [x EXCEPT !.pc = "agent"].runner = x.runner
      BY <1>1 DEF IsRequest
    <3> QED BY <3>1, <3>2
  <2>3. CASE Agent!Retry(r)
    <3> DEFINE y == [x EXCEPT !.retried = TRUE, !.iterations = 0, !.seen = Agent!NoSummary,
                              !.scope = Agent!ActionScope(x.history, turns[x.turn].message, TRUE)]
    <3>1. Agent!Become(r, y)
      BY <2>3 DEF Agent!Retry
    <3>2. y.turn = x.turn /\ y.runner = x.runner
      BY <1>1 DEF IsRequest
    <3> HIDE DEF y
    <3> QED BY <3>1, <3>2
  <2>4. ASSUME NEW b \in Agent!Batches, Agent!CallTools(r, b)
        PROVE  \E y : Agent!Become(r, y) /\ y.turn = x.turn /\ y.runner = x.runner
    <3>1. PICK p, c : Agent!Become(r, [x EXCEPT !.pc = p, !.batch = c])
      BY <2>4 DEF Agent!CallTools
    <3>2. [x EXCEPT !.pc = p, !.batch = c].turn = x.turn
          /\ [x EXCEPT !.pc = p, !.batch = c].runner = x.runner
      BY <1>1 DEF IsRequest
    <3> QED BY <3>1, <3>2
  <2>5. CASE Agent!RunTool(r)
    <3> DEFINE rest == [x EXCEPT !.batch = Tail(x.batch)]
    <3>1. Agent!Become(r, rest) \/ Agent!Become(r, [rest EXCEPT !.seen = version])
      BY <2>5 DEF Agent!RunTool
    <3>2. /\ rest.turn = x.turn /\ rest.runner = x.runner
          /\ [rest EXCEPT !.seen = version].turn = x.turn
          /\ [rest EXCEPT !.seen = version].runner = x.runner
      BY <1>1 DEF IsRequest
    <3> HIDE DEF rest
    <3> QED BY <3>1, <3>2
  <2>6. CASE Agent!BatchDone(r)
    <3>1. Agent!Become(r, [x EXCEPT !.pc = "agent", !.iterations = x.iterations + 1])
      BY <2>6 DEF Agent!BatchDone
    <3>2. [x EXCEPT !.pc = "agent", !.iterations = x.iterations + 1].turn = x.turn
          /\ [x EXCEPT !.pc = "agent", !.iterations = x.iterations + 1].runner = x.runner
      BY <1>1 DEF IsRequest
    <3> QED BY <3>1, <3>2
  <2>7. CASE Agent!Abandon(r)
    BY <2>7, IdleIsRequest DEF Agent!Abandon
  <2>8. CASE Agent!Answer(r) \/ Agent!ToolLimit(r)
    BY <1>4, <2>8 DEF Agent!Answer, Agent!ToolLimit
  <2> QED BY <2>2, <2>3, <2>4, <2>5, <2>6, <2>7, <2>8 DEF Agent!Step
<1> QED BY <1>2, <1>3, <1>4, QuietHeard

LEMMA AgentNextHeard == AgentInv /\ HeardInv /\ [Agent!Next]_(Agent!vars) => HeardInv'
<1> SUFFICES ASSUME AgentInv, HeardInv, [Agent!Next]_(Agent!vars) PROVE HeardInv'
  OBVIOUS
<1>1. CASE Agent!ClearSession
  BY <1>1 DEF Agent!ClearSession, HeardInv, InWork
<1>2. CASE UNCHANGED Agent!vars
  <2>1. UNCHANGED <<request, turns, history, clears>>
    BY <1>2 DEF Agent!vars
  <2>2. Heard => Heard'
    BY <2>1 DEF Heard, Agent!Said, Agent!Range
  <2> QED BY <2>1, <2>2 DEF HeardInv, InWork, Agent!Streamed
<1> QED BY <1>1, <1>2, ArriveHeard, StepHeard DEF Agent!Next

\* Whatever becomes of a streamed turn, what the caller said on it stays in the
\* history until it is cleared or reaches its cap.
THEOREM SaidIsKept == Agent!Spec => []UtteranceSurvives
<1>1. Agent!Init => HeardInv
  <2> SUFFICES ASSUME Agent!Init PROVE HeardInv
    OBVIOUS
  <2>1. \A r \in Requests : ~InWork(r)
    BY IdleIsRequest DEF Agent!Init, InWork
  <2>2. history \in Seq(Entries) /\ DOMAIN turns = {}
    BY DEF Agent!Init
  <2> QED BY <2>1, <2>2 DEF Agent!Init, HeardInv, Heard
<1>2. HeardInv => UtteranceSurvives
  BY DEF HeardInv, Heard, UtteranceSurvives, Agent!UtteranceSurvives
<1> QED BY <1>1, <1>2, AgentInitFits, AgentNextFits, AgentNextHeard, PTL DEF Agent!Spec

-----------------------------------------------------------------------------
(* Provisioning.  What a run has read of the number that is configured is    *)
(* still so or has been put right since: runs and Retell only ever bind a    *)
(* number to what all runs desire.  A number that was bought is the answer   *)
(* to the one request of a run that may buy.                                 *)

RequestKinds == {"update", "create"}

RunRecord ==
  [pc : {"new", "list", "decide", "update", "create", "done"}, buy : BOOLEAN, owned : BOOLEAN,
   existing : Number!Phones \union {None}, twice : BOOLEAN, keys : SUBSET (Keys \union {None}),
   result : {"error", "planned", "refused", None} \union Number!Successes]

NumberTyped ==
  /\ setting \in Settings
  /\ account \in [Numbers -> Number!Phones \union {None}]
  /\ run \in [Runs -> RunRecord]
  /\ answer \in [Runs -> Numbers \union {None}]

\* A field as it was read is as it should be only if it still is.
StillRight(phone) ==
  /\ Number!Configured \in Number!Owned
  /\ \A f \in Number!Bindings :
       phone[f] = Number!Desired[f] => account[Number!Configured][f] = Number!Desired[f]

\* A run has one request at most under way, and one answer.
RunFits(r) ==
  /\ run[r].existing # None => StillRight(run[r].existing)
  /\ answer[r] # None => answer[r] \in Number!Owned /\ Number!IsOurs(account[answer[r]])
  /\ <<r, "update">> \in posted \/ run[r].pc = "update" => Number!Configured \in Number!Owned
  /\ <<r, "create">> \in posted => run[r].buy
  /\ \A kind \in RequestKinds : <<r, kind>> \in posted =>
       /\ answer[r] = None /\ run[r].pc \in {"update", "create", "done"}
       /\ \A other \in RequestKinds : <<r, other>> \in posted => other = kind
  /\ run[r].pc \in {"new", "list", "decide"} => answer[r] = None
  /\ run[r].result \in Number!Successes => TellsTheTruth(r)

BoughtFits ==
  /\ Number!Configured # None => Number!Bought \subseteq {Number!Configured}
  /\ \A n \in Number!Bought : \E r \in Runs : run[r].buy /\ answer[r] = n

NumberInv == NumberTyped /\ BoughtFits /\ \A r \in Runs : RunFits(r)

\* What the definitions say of the settings.
LEMMA SettingFacts ==
  ASSUME setting \in Settings
  PROVE  /\ Number!Configured \in Numbers \union {None} /\ Number!HasFallback \in BOOLEAN
         /\ setting.account \in [Numbers -> Number!Phones \union {None}]
         /\ Number!Bindings \subseteq Number!Fields
         /\ \A f \in Number!Bindings : Number!Desired[f] = "ours"
         /\ None \notin Numbers /\ None \notin Number!Phones /\ None \notin Number!Successes
<1>1. setting \in Number!Setting
  BY PartsAssumption DEF Number!ConfigAssumption
<1>2. None \notin Numbers /\ None \notin Number!Phones /\ None \notin Number!Successes
  BY PartsAssumption DEF Number!ConfigAssumption
<1>3. Number!Bindings \subseteq Number!Fields
  BY DEF Number!Bindings, Number!Fields
<1> QED BY <1>1, <1>2, <1>3
        DEF Number!Setting, Number!Configured, Number!HasFallback, Number!Desired

\* Where Retell does nothing, the numbers are as they were.
LEMMA SameNumbers ==
  ASSUME UNCHANGED <<setting, account>>
  PROVE  /\ Number!Configured' = Number!Configured /\ Number!Owned' = Number!Owned
         /\ Number!Bought' = Number!Bought /\ Number!Bindings' = Number!Bindings
         /\ Number!Desired' = Number!Desired
         /\ \A x : StillRight(x)' <=> StillRight(x)
         /\ \A n : Number!IsOurs(n)' <=> Number!IsOurs(n)
BY DEF Number!Configured, Number!Owned, Number!Bought, Number!Bindings, Number!HasFallback,
  Number!Desired, Number!IsOurs, StillRight

\* One run goes on.
LEMMA RunGoesOn ==
  ASSUME NumberInv, NEW r \in Runs, NEW x \in RunRecord,
         run' = [run EXCEPT ![r] = x], UNCHANGED <<setting, account, answer>>,
         \A o \in Runs \ {r} : \A kind \in RequestKinds :
           <<o, kind>> \in posted' <=> <<o, kind>> \in posted,
         answer[r] # None => x.buy = run[r].buy,
         RunFits(r)'
  PROVE  NumberInv'
<1>1. NumberTyped'
  BY DEF NumberInv, NumberTyped
<1>2. run'[r] = x /\ \A o \in Runs \ {r} : run'[o] = run[o]
  BY DEF NumberInv, NumberTyped
<1>3. ASSUME NEW o \in Runs \ {r} PROVE RunFits(o)'
  <2>1. RunFits(o)
    BY DEF NumberInv
  <2>2. TellsTheTruth(o) => TellsTheTruth(o)'
    BY SameNumbers DEF TellsTheTruth
  <2>3. \A kind \in RequestKinds : <<o, kind>> \in posted' <=> <<o, kind>> \in posted
    OBVIOUS
  <2>4. run'[o] = run[o]
    BY <1>2
  <2>5. "update" \in RequestKinds /\ "create" \in RequestKinds
    BY DEF RequestKinds
  <2> QED BY <2>1, <2>2, <2>3, <2>4, <2>5, SameNumbers DEF RunFits
<1>4. BoughtFits'
  <2>1. BoughtFits /\ None \notin Number!Bought
    BY SettingFacts DEF NumberInv, NumberTyped, Number!Bought, Number!Owned
  <2>2. ASSUME NEW n \in Number!Bought PROVE \E o \in Runs : run'[o].buy /\ answer[o] = n
    <3>1. PICK o \in Runs : run[o].buy /\ answer[o] = n
      BY <2>1, <2>2 DEF BoughtFits
    <3>2. run'[o].buy = run[o].buy
      BY <1>2, <2>1, <2>2, <3>1
    <3> QED BY <3>1, <3>2
  <2> QED BY <2>1, <2>2, SameNumbers DEF BoughtFits
<1> QED BY <1>1, <1>3, <1>4 DEF NumberInv

\* A run ends, and what it reports of success is so.
LEMMA FinishFits ==
  ASSUME NumberInv, NEW r \in Runs,
         NEW s \in {"error", "planned", "refused"} \union Number!Successes,
         Number!Finish(r, s), UNCHANGED <<setting, account, posted, answer>>,
         s \in Number!Successes => TellsTheTruth(r)
  PROVE  NumberInv'
<1> DEFINE x == [run[r] EXCEPT !.pc = "done", !.result = s]
<1>1. run[r] \in RunRecord
  BY DEF NumberInv, NumberTyped
<1>2. /\ x \in RunRecord /\ x.pc = "done" /\ x.result = s
      /\ x.buy = run[r].buy /\ x.existing = run[r].existing
  BY <1>1 DEF RunRecord
<1>3. run' = [run EXCEPT ![r] = x]
  BY DEF Number!Finish
<1> HIDE DEF x
<1>4. run'[r] = x
  BY <1>3 DEF NumberInv, NumberTyped
<1>5. RunFits(r)'
  <2>1. RunFits(r)
    BY DEF NumberInv
  <2>2. TellsTheTruth(r) => TellsTheTruth(r)'
    BY SameNumbers DEF TellsTheTruth
  <2> QED BY <1>2, <1>4, <2>1, <2>2, SameNumbers DEF RunFits, RequestKinds
<1> QED BY <1>2, <1>3, <1>5, RunGoesOn

LEMMA BeginFits ==
  ASSUME NumberInv, NEW r \in Runs, NEW apply \in BOOLEAN, NEW confirm \in BOOLEAN,
         Number!Begin(r, apply, confirm)
  PROVE  NumberInv'
<1>1. CASE Number!Finish(r, "error") \/ Number!Finish(r, "planned")
  BY <1>1, FinishFits DEF Number!Begin, Number!Successes
<1>2. ASSUME NEW b \in BOOLEAN,
             run' = [run EXCEPT ![r] = [run[r] EXCEPT !.pc = "list", !.buy = confirm, !.owned = b]]
      PROVE  NumberInv'
  <2> DEFINE x == [run[r] EXCEPT !.pc = "list", !.buy = confirm, !.owned = b]
  <2>1. run[r] \in RunRecord /\ run[r].pc = "new" /\ UNCHANGED <<setting, account, posted, answer>>
    BY DEF NumberInv, NumberTyped, Number!Begin
  <2>2. x \in RunRecord /\ x.pc = "list" /\ x.existing = run[r].existing /\ x.result = run[r].result
    BY <2>1 DEF RunRecord
  <2>0. run' = [run EXCEPT ![r] = x]
    BY <1>2
  <2> HIDE DEF x
  <2>3. run'[r] = x
    BY <2>0 DEF NumberInv, NumberTyped
  <2>4. RunFits(r) /\ answer[r] = None /\ \A kind \in RequestKinds : <<r, kind>> \notin posted
    BY <2>1 DEF NumberInv, RunFits, RequestKinds
  <2>5. RunFits(r)'
    <3>1. TellsTheTruth(r) => TellsTheTruth(r)'
      BY <2>1, SameNumbers DEF TellsTheTruth
    <3> QED BY <2>1, <2>2, <2>3, <2>4, <3>1, SameNumbers DEF RunFits, RequestKinds
  <2> QED BY <2>0, <2>1, <2>2, <2>4, <2>5, RunGoesOn
<1>3. ASSUME NEW b \in BOOLEAN, b = (Number!Configured \in Number!Owned) PROVE NumberInv'
  <2>1. CASE run' = [run EXCEPT ![r] = [run[r] EXCEPT !.pc = "list", !.buy = confirm, !.owned = b]]
    BY <1>2, <2>1
  <2> QED BY <1>1, <1>3, <2>1 DEF Number!Begin
<1>4. CASE Number!Configured \in Number!Owned
  <2>1. TRUE = (Number!Configured \in Number!Owned)
    BY <1>4
  <2> QED BY <1>3, <2>1
<1>5. CASE Number!Configured \notin Number!Owned
  <2>1. FALSE = (Number!Configured \in Number!Owned)
    BY <1>5
  <2> QED BY <1>3, <2>1
<1> QED BY <1>4, <1>5

LEMMA PageFits ==
  ASSUME NumberInv, NEW r \in Runs, NEW hit \in BOOLEAN, NEW more \in BOOLEAN,
         NEW key \in Keys \union {None}, Number!Page(r, hit, more, key)
  PROVE  NumberInv'
<1>1. /\ run[r] \in RunRecord /\ run[r].pc = "list"
      /\ hit => Number!Configured \in Number!Owned
      /\ UNCHANGED <<setting, account, posted, answer>>
      /\ RunFits(r) /\ setting \in Settings
  BY DEF NumberInv, NumberTyped, Number!Page
<1>2. CASE Number!Finish(r, "error")
  BY <1>1, <1>2, FinishFits DEF Number!Successes
<1>3. ASSUME NEW e, NEW b \in BOOLEAN, NEW x,
             \/ e = run[r].existing
             \/ hit /\ e = account[Number!Configured],
             \/ x = [[run[r] EXCEPT !.existing = e, !.twice = b] EXCEPT !.pc = "decide"]
             \/ x = [[run[r] EXCEPT !.existing = e, !.twice = b] EXCEPT !.keys = Number!SeenKeys(r, key)],
             run' = [run EXCEPT ![r] = x]
      PROVE  NumberInv'
  <2>1. e \in Number!Phones \union {None}
    BY <1>1, <1>3, SettingFacts DEF NumberInv, NumberTyped, Number!Owned, RunRecord
  <2>2. Number!SeenKeys(r, key) \in SUBSET (Keys \union {None})
    BY <1>1 DEF RunRecord, Number!SeenKeys
  <2> DEFINE next == [run[r] EXCEPT !.existing = e, !.twice = b]
  <2>3. /\ next \in RunRecord /\ next.pc = "list" /\ next.existing = e
        /\ next.buy = run[r].buy /\ next.result = run[r].result
    BY <1>1, <2>1 DEF RunRecord
  <2>4. \/ x = [next EXCEPT !.pc = "decide"]
        \/ x = [next EXCEPT !.keys = Number!SeenKeys(r, key)]
    BY <1>3
  <2> HIDE DEF next
  <2>5. /\ x \in RunRecord /\ x.pc \in {"list", "decide"} /\ x.existing = e
        /\ x.buy = run[r].buy /\ x.result = run[r].result
    BY <2>2, <2>3, <2>4 DEF RunRecord
  <2>6. run'[r] = x
    BY <1>3 DEF NumberInv, NumberTyped
  <2>7. e # None => StillRight(e)
    <3>1. CASE e = run[r].existing
      BY <1>1, <3>1 DEF RunFits
    <3>2. CASE hit /\ e = account[Number!Configured]
      BY <1>1, <3>2 DEF StillRight
    <3> QED BY <1>3, <3>1, <3>2
  <2>8. answer[r] = None /\ \A kind \in RequestKinds : <<r, kind>> \notin posted
    BY <1>1 DEF RunFits, RequestKinds
  <2>9. RunFits(r)'
    <3>1. TellsTheTruth(r) => TellsTheTruth(r)'
      BY <1>1, SameNumbers DEF TellsTheTruth
    <3> QED BY <1>1, <2>5, <2>6, <2>7, <2>8, <3>1, SameNumbers DEF RunFits, RequestKinds
  <2> QED BY <1>1, <1>3, <2>5, <2>9, RunGoesOn
<1>4. CASE ~Number!Finish(r, "error")
  <2> DEFINE known == run[r].existing # None
             e == IF hit /\ ~known THEN account[Number!Configured] ELSE run[r].existing
             next == [run[r] EXCEPT !.existing = e, !.twice = run[r].twice \/ (hit /\ known)]
  <2>1. \/ run' = [run EXCEPT ![r] = [next EXCEPT !.pc = "decide"]]
        \/ run' = [run EXCEPT ![r] = [next EXCEPT !.keys = Number!SeenKeys(r, key)]]
    BY <1>4 DEF Number!Page
  <2>2. PICK b \in BOOLEAN : b = (run[r].twice \/ (hit /\ known))
    OBVIOUS
  <2>3. next = [run[r] EXCEPT !.existing = e, !.twice = b]
    BY <2>2, Zenon
  <2>4. e = run[r].existing \/ (hit /\ e = account[Number!Configured])
    OBVIOUS
  <2> HIDE DEF known, e, next
  <2> QED BY <1>3, <2>1, <2>3, <2>4
<1> QED BY <1>2, <1>4

LEMMA DecideFits == ASSUME NumberInv, NEW r \in Runs, Number!Decide(r) PROVE NumberInv'
<1>0. /\ run[r] \in RunRecord /\ run[r].pc = "decide" /\ UNCHANGED <<setting, account, answer>>
      /\ setting \in Settings /\ RunFits(r)
  BY DEF NumberInv, NumberTyped, Number!Decide
<1>1. CASE (Number!Finish(r, "refused") \/ Number!Finish(r, "error")) /\ UNCHANGED posted
  BY <1>0, <1>1, FinishFits DEF Number!Successes
<1>2. CASE /\ run[r].existing # None /\ Number!Changes(run[r].existing) = {}
           /\ Number!Finish(r, "unchanged") /\ UNCHANGED posted
  <2>1. StillRight(run[r].existing)
    BY <1>0, <1>2 DEF RunFits
  <2>2. Number!IsOurs(account[Number!Configured])
    BY <1>2, <2>1 DEF Number!IsOurs, Number!Changes, StillRight
  <2>3. TellsTheTruth(r)
    BY <1>0, <2>1, <2>2, SettingFacts DEF TellsTheTruth, StillRight, Number!Owned
  <2> QED BY <1>0, <1>2, <2>3, FinishFits DEF Number!Successes
<1>3. ASSUME NEW kind \in RequestKinds, Number!Send(r, kind),
             kind = "create" => run[r].buy, kind = "update" => run[r].existing # None
      PROVE  NumberInv'
  <2> DEFINE x == [run[r] EXCEPT !.pc = kind]
  <2>1. /\ x \in RunRecord /\ x.pc = kind /\ x.existing = run[r].existing
        /\ x.buy = run[r].buy /\ x.result = run[r].result
    BY <1>0 DEF RunRecord, RequestKinds
  <2>2. run' = [run EXCEPT ![r] = x] /\ run'[r] = x /\ posted' = posted \union {<<r, kind>>}
    BY <1>3 DEF Number!Send, NumberInv, NumberTyped
  <2> HIDE DEF x
  <2>3. answer[r] = None /\ \A k \in RequestKinds : <<r, k>> \notin posted
    BY <1>0 DEF RunFits, RequestKinds
  <2>4. \A k \in RequestKinds : <<r, k>> \in posted' => k = kind
    BY <2>2, <2>3
  <2>5. kind = "update" => Number!Configured \in Number!Owned
    BY <1>0, <1>3 DEF RunFits, StillRight
  <2>6. RunFits(r)'
    <3>1. TellsTheTruth(r) => TellsTheTruth(r)'
      BY <1>0, SameNumbers DEF TellsTheTruth
    <3>2. kind \in {"update", "create"}
      BY DEF RequestKinds
    <3> QED BY <1>0, <1>3, <2>1, <2>2, <2>3, <2>4, <2>5, <3>1, <3>2, SameNumbers DEF RunFits, RequestKinds
  <2>7. \A o \in Runs \ {r} : \A k \in RequestKinds : <<o, k>> \in posted' <=> <<o, k>> \in posted
    BY <2>2
  <2> QED BY <1>0, <2>1, <2>2, <2>3, <2>6, <2>7, RunGoesOn
<1> QED
  BY <1>1, <1>2, <1>3 DEF Number!Decide, Number!MayBuy, RequestKinds

\* An answer of Retell is a number that it has bound.
LEMMA AnsweredFits ==
  ASSUME NumberInv, NEW r \in Runs, NEW garbled \in BOOLEAN, Number!Answered(r, garbled)
  PROVE  NumberInv'
<1>1. /\ RunFits(r) /\ answer[r] # None /\ run[r].pc \in {"update", "create"}
      /\ setting \in Settings /\ UNCHANGED <<setting, account, posted, answer>>
  BY DEF NumberInv, NumberTyped, Number!Answered
<1>2. CASE Number!Finish(r, "error")
  BY <1>1, <1>2, FinishFits DEF Number!Successes
<1>3. CASE ~Number!Finish(r, "error")
  <2>1. Number!Configured # None => answer[r] = Number!Configured
    BY <1>3 DEF Number!Answered
  <2>2. TellsTheTruth(r)
    BY <1>1, <2>1 DEF RunFits, TellsTheTruth
  <2>3. Number!Finish(r, "updated") \/ Number!Finish(r, "purchased")
    BY <1>3 DEF Number!Answered
  <2> QED BY <1>1, <2>2, <2>3, FinishFits DEF Number!Successes
<1> QED BY <1>2, <1>3

-----------------------------------------------------------------------------
\* Retell binds a number, which stays bound, and answers one request.
LEMMA RetellFits ==
  ASSUME NumberInv, NEW r \in Runs, NEW kind \in RequestKinds, <<r, kind>> \in posted,
         NEW n \in Numbers, NEW phone \in Number!Phones, Number!IsOurs(phone),
         account' = [account EXCEPT ![n] = phone],
         posted' = posted \ {<<r, kind>>},
         answer' = [answer EXCEPT ![r] = n],
         UNCHANGED <<setting, run>>,
         n \in Number!Owned \/ (run[r].buy /\ (Number!Configured # None => n = Number!Configured))
  PROVE  NumberInv'
<1>1. NumberTyped /\ setting \in Settings
  BY DEF NumberInv, NumberTyped
<1>2. NumberTyped'
  BY <1>1 DEF NumberTyped
<1>3. /\ account'[n] = phone /\ \A m \in Numbers \ {n} : account'[m] = account[m]
      /\ answer'[r] = n /\ \A o \in Runs \ {r} : answer'[o] = answer[o]
  BY <1>1 DEF NumberTyped
<1>4. phone # None /\ n # None
  BY <1>1, SettingFacts
<1>5. Number!Owned' = Number!Owned \union {n}
  BY <1>3, <1>4 DEF Number!Owned
<1>6. /\ Number!Configured' = Number!Configured /\ Number!Bindings' = Number!Bindings
      /\ Number!Desired' = Number!Desired
      /\ \A m : Number!IsOurs(m)' <=> Number!IsOurs(m)
  BY DEF Number!Configured, Number!Bindings, Number!HasFallback, Number!Desired, Number!IsOurs
<1>7. ASSUME NEW m \in Numbers PROVE Number!IsOurs(account[m]) => Number!IsOurs(account'[m])
  BY <1>3
<1>8. ASSUME NEW x PROVE StillRight(x) => StillRight(x)'
  <2> SUFFICES ASSUME StillRight(x) PROVE StillRight(x)'
    OBVIOUS
  <2>1. Number!Configured \in Number!Owned
    BY DEF StillRight
  <2>2. ASSUME NEW f \in Number!Bindings, x[f] = Number!Desired[f]
        PROVE  account'[Number!Configured][f] = Number!Desired[f]
    <3>1. CASE Number!Configured = n
      BY <1>3, <2>2, <3>1 DEF Number!IsOurs
    <3>2. CASE Number!Configured # n
      BY <1>3, <2>1, <2>2, <3>2 DEF StillRight, Number!Owned
    <3> QED BY <3>1, <3>2
  <2> QED BY <1>5, <1>6, <2>1, <2>2 DEF StillRight
<1>9. ASSUME NEW o \in Runs PROVE RunFits(o)'
  <2>0. RunFits(o) /\ RunFits(r)
    BY DEF NumberInv
  <2>1. \A k \in RequestKinds : <<r, k>> \in posted => k = kind
    BY <2>0 DEF RunFits
  <2>2. answer[r] = None /\ run[r].pc \in {"update", "create", "done"}
    BY <2>0 DEF RunFits
  <2>3. TellsTheTruth(o) => TellsTheTruth(o)'
    <3> SUFFICES ASSUME TellsTheTruth(o) PROVE TellsTheTruth(o)'
      OBVIOUS
    <3>1. PICK m \in Number!Owned :
            /\ IF Number!Configured # None THEN m = Number!Configured ELSE m = answer[o]
            /\ Number!IsOurs(account[m])
      BY DEF TellsTheTruth
    <3>2. m \in Numbers /\ m # None
      BY <1>1, SettingFacts DEF Number!Owned
    <3>3. Number!Configured = None => answer'[o] = answer[o]
      BY <1>3, <2>2, <3>1, <3>2
    <3>4. Number!IsOurs(account'[m])
      BY <1>7, <3>1, <3>2
    <3> QED BY <1>5, <1>6, <3>1, <3>3, <3>4 DEF TellsTheTruth
  <2>4. answer'[o] # None => answer'[o] \in Number!Owned' /\ Number!IsOurs(account'[answer'[o]])
    <3>1. CASE o = r
      BY <1>3, <1>5, <3>1
    <3>2. CASE o # r
      BY <1>3, <1>5, <1>7, <2>0, <3>2 DEF RunFits, Number!Owned
    <3> QED BY <3>1, <3>2
  <2>5. \A k \in RequestKinds : <<o, k>> \in posted' => <<o, k>> \in posted /\ o # r
    BY <2>1
  <2>6. run[o].existing # None => StillRight(run[o].existing)'
    BY <1>8, <2>0 DEF RunFits
  <2>7. "update" \in RequestKinds /\ "create" \in RequestKinds
    BY DEF RequestKinds
  <2>8. o # r => answer'[o] = answer[o]
    BY <1>3
  <2>9. run[o].pc \in {"new", "list", "decide"} => o # r
    BY <2>2
  <2> QED BY <1>5, <1>6, <2>0, <2>3, <2>4, <2>5, <2>6, <2>7, <2>8, <2>9 DEF RunFits
<1>10. BoughtFits'
  <2>1. BoughtFits /\ answer[r] = None
    BY DEF NumberInv, RunFits
  <2>2. Number!Bought' \subseteq Number!Bought \union {n}
        /\ (n \in Number!Owned => Number!Bought' = Number!Bought)
    BY <1>5 DEF Number!Bought
  <2>3. ASSUME NEW m \in Number!Bought' PROVE \E o \in Runs : run[o].buy /\ answer'[o] = m
    <3>1. CASE m \in Number!Bought
      <4>1. PICK o \in Runs : run[o].buy /\ answer[o] = m
        BY <2>1, <3>1 DEF BoughtFits
      <4>2. m # None
        BY <1>1, <3>1, SettingFacts DEF Number!Bought, Number!Owned
      <4> QED BY <1>3, <2>1, <4>1, <4>2
    <3>2. CASE m \notin Number!Bought
      BY <1>3, <2>2, <2>3, <3>2
    <3> QED BY <3>1, <3>2
  <2>4. Number!Configured # None => Number!Bought' \subseteq {Number!Configured}
    BY <2>1, <2>2 DEF BoughtFits
  <2> QED BY <1>6, <2>3, <2>4 DEF BoughtFits
<1> QED BY <1>2, <1>9, <1>10 DEF NumberInv

LEMMA UpdateFits == ASSUME NumberInv, NEW r \in Runs, Number!Update(r) PROVE NumberInv'
<1>1. /\ setting \in Settings /\ <<r, "update">> \in posted /\ "update" \in RequestKinds
      /\ account \in [Numbers -> Number!Phones \union {None}]
  BY DEF NumberInv, NumberTyped, Number!Update, RequestKinds
<1>2. Number!Configured \in Number!Owned
  BY <1>1 DEF NumberInv, RunFits
<1>3. Number!Configured \in Numbers /\ account[Number!Configured] \in Number!Phones
  BY <1>1, <1>2 DEF Number!Owned
<1> DEFINE phone == Number!Bound(account[Number!Configured])
<1>4. phone \in Number!Phones /\ Number!IsOurs(phone)
  <2>1. \A f \in Number!Fields :
          account[Number!Configured][f] \in Number!Types \union {"ours", "other", "none"}
    BY <1>3 DEF Number!Phones
  <2>2. \A f \in Number!Bindings : Number!Desired[f] = "ours" /\ f \in Number!Fields
    BY <1>1, SettingFacts
  <2> QED BY <2>1, <2>2 DEF Number!Bound, Number!Phones, Number!IsOurs
<1>5. /\ account' = [account EXCEPT ![Number!Configured] = phone]
      /\ posted' = posted \ {<<r, "update">>} /\ UNCHANGED <<setting, run>>
      /\ answer' = [answer EXCEPT ![r] = Number!Configured]
  BY <1>3 DEF Number!Update
<1> HIDE DEF phone
<1> QED BY <1>1, <1>2, <1>3, <1>4, <1>5, RetellFits

LEMMA SellFits ==
  ASSUME NumberInv, NEW r \in Runs, NEW n \in Numbers, Number!Sell(r, n)
  PROVE  NumberInv'
<1>1. /\ setting \in Settings /\ <<r, "create">> \in posted /\ "create" \in RequestKinds
      /\ account' = [account EXCEPT ![n] = Number!New]
      /\ posted' = posted \ {<<r, "create">>} /\ UNCHANGED <<setting, run>>
      /\ answer' = [answer EXCEPT ![r] = n]
  BY DEF NumberInv, NumberTyped, Number!Sell, RequestKinds
<1>2. run[r].buy /\ (Number!Configured # None => n = Number!Configured)
  BY <1>1 DEF NumberInv, RunFits, Number!Sell, Number!Offered
<1>3. Number!New \in Number!Phones /\ Number!IsOurs(Number!New)
  <2>1. \A f \in Number!Bindings : Number!Desired[f] = "ours" /\ f \in Number!Fields
    BY <1>1, SettingFacts
  <2>2. "type" \notin Number!Bindings
    BY DEF Number!Bindings
  <2>3. ASSUME NEW f \in Number!Fields
        PROVE  /\ Number!New[f] \in Number!Types \union {"ours", "other", "none"}
               /\ f \in Number!Bindings => Number!New[f] = Number!Desired[f]
    <3>1. CASE f \in Number!Bindings
      BY <2>1, <3>1, <2>2 DEF Number!New
    <3>2. CASE f = "type"
      BY <2>2, <3>2 DEF Number!New, Number!Types
    <3>3. CASE f \notin Number!Bindings /\ f # "type"
      BY <3>3 DEF Number!New
    <3> QED BY <3>1, <3>2, <3>3
  <2>4. Number!New = [f \in Number!Fields |-> Number!New[f]]
    BY DEF Number!New
  <2> QED BY <2>1, <2>3, <2>4 DEF Number!Phones, Number!IsOurs
<1> QED BY <1>1, <1>2, <1>3, RetellFits

LEMMA RefuseNumberFits ==
  ASSUME NumberInv, NEW r \in Runs, NEW kind \in RequestKinds, Number!Refuse(r, kind)
  PROVE  NumberInv'
<1>1. UNCHANGED <<setting, account, run, answer>> /\ posted' \subseteq posted
  BY DEF Number!Refuse
<1>2. ASSUME NEW o \in Runs PROVE RunFits(o)'
  <2>1. RunFits(o) /\ (TellsTheTruth(o) => TellsTheTruth(o)')
    BY <1>1, SameNumbers DEF NumberInv, TellsTheTruth
  <2> QED BY <1>1, <2>1, SameNumbers DEF RunFits
<1> QED BY <1>1, <1>2, SameNumbers DEF NumberInv, NumberTyped, BoughtFits

LEMMA NumberNextFits == NumberInv /\ [Number!Next]_(Number!vars) => NumberInv'
<1> SUFFICES ASSUME NumberInv, [Number!Next]_(Number!vars) PROVE NumberInv'
  OBVIOUS
<1>1. ASSUME NEW r \in Runs, Number!Fail(r) PROVE NumberInv'
  BY <1>1, FinishFits DEF Number!Fail, Number!Successes
<1>2. CASE UNCHANGED Number!vars
  <2>1. UNCHANGED <<setting, account, run, answer, posted>>
    BY <1>2 DEF Number!vars
  <2>2. ASSUME NEW o \in Runs PROVE RunFits(o)'
    <3>1. RunFits(o) /\ (TellsTheTruth(o) => TellsTheTruth(o)')
      BY <2>1, SameNumbers DEF NumberInv, TellsTheTruth
    <3> QED BY <2>1, <3>1, SameNumbers DEF RunFits
  <2> QED BY <2>1, <2>2, SameNumbers DEF NumberInv, NumberTyped, BoughtFits
<1> QED BY <1>1, <1>2, BeginFits, PageFits, DecideFits, UpdateFits, SellFits, RefuseNumberFits,
        AnsweredFits DEF Number!Next, Number!Listing, RequestKinds

LEMMA NumberInitFits == Number!Init => NumberInv
<1> SUFFICES ASSUME Number!Init PROVE NumberInv
  OBVIOUS
<1>1. /\ setting \in Settings /\ account = setting.account /\ posted = {}
      /\ \A r \in Runs : run[r] = Number!NotStarted /\ answer[r] = None
  BY DEF Number!Init
<1>2. /\ Number!NotStarted \in RunRecord /\ Number!NotStarted.pc = "new"
      /\ Number!NotStarted.existing = None /\ Number!NotStarted.result = None
  BY DEF Number!NotStarted, RunRecord
<1>3. NumberTyped
  BY <1>1, <1>2, SettingFacts DEF NumberTyped, Number!Init
<1>4. Number!Bought = {}
  BY <1>1 DEF Number!Bought, Number!Owned
<1>5. ASSUME NEW r \in Runs PROVE RunFits(r)
  BY <1>1, <1>2, SettingFacts DEF RunFits
<1> QED BY <1>3, <1>4, <1>5 DEF NumberInv, BoughtFits

\* However often the script is run, whatever is lost or late: a run that reports
\* success has told the truth, and the numbers that were bought are no more than
\* the runs that were allowed to buy, and the exact one if one is configured.
THEOREM AccountTold == Number!Spec => []AccountIsAsTold
<1>1. ASSUME NumberInv PROVE AccountIsAsTold
  <2> DEFINE buyers == {r \in Runs : run[r].buy}
             answers == {answer[r] : r \in buyers}
  <2>1. IsFiniteSet(buyers)
    BY PartsAssumption, FS_Subset
  <2>2. IsFiniteSet(answers) /\ Cardinality(answers) <= Cardinality(buyers)
    <3> DEFINE f == [r \in buyers |-> answer[r]]
    <3>1. f \in Surjection(buyers, answers)
      BY DEF Surjection
    <3> HIDE DEF buyers, answers, f
    <3> QED BY <2>1, <3>1, FS_Surjection
  <2>3. Number!Bought \subseteq answers
    BY <1>1 DEF NumberInv, BoughtFits
  <2> HIDE DEF answers
  <2>4. IsFiniteSet(Number!Bought) /\ Cardinality(Number!Bought) <= Cardinality(answers)
    BY <2>2, <2>3, FS_Subset
  <2>5. /\ Cardinality(Number!Bought) \in Nat /\ Cardinality(answers) \in Nat
        /\ Cardinality(buyers) \in Nat
    BY <2>1, <2>2, <2>4, FS_CardinalityType
  <2>6. Cardinality(Number!Bought) <= Cardinality(buyers)
    BY <2>2, <2>4, <2>5
  <2> QED BY <1>1, <2>6 DEF NumberInv, RunFits, BoughtFits, AccountIsAsTold
<1> QED BY <1>1, NumberInitFits, NumberNextFits, PTL DEF Number!Spec

-----------------------------------------------------------------------------
(* RateLimit.  No window has more than the limit of admitted requests.  One  *)
(* that is admitted finds fewer than the limit of them remembered, and those *)
(* that were forgotten had expired: so two that are Limit places apart are a *)
(* window apart.  The requests within a window begin with one that is first  *)
(* (LeastNatural) and all lie less than Limit places after it.               *)

\* The times of the admitted requests: in order, none from the future, and
\* never more than the limit within a window.
Spread(s, present) ==
  /\ \A i \in 1 .. Len(s) : s[i] <= present
  /\ \A i, j \in 1 .. Len(s) : i <= j => s[i] <= s[j]
  /\ \A i, j \in 1 .. Len(s) : i + Limit <= j => s[i] + Window <= s[j]

\* What is kept of them: all but the first ones, which are expired.
Remembers(e, s, present) ==
  \E d \in 0 .. Len(s) :
    /\ Len(e) = Len(s) - d
    /\ \A i \in 1 .. Len(e) : e[i] = s[d + i]
    /\ \A i \in 1 .. d : s[i] + Window <= present

LimiterInv ==
  /\ time \in Nat
  /\ events \in [Clients -> Seq(Nat)] /\ admitted \in [Clients -> Seq(Nat)]
  /\ \A k \in Clients : /\ Spread(admitted[k], time)
                        /\ Remembers(events[k], admitted[k], time)

-----------------------------------------------------------------------------
\* Every nonempty set of naturals has a least element.
LEMMA LeastNatural ==
  ASSUME NEW S \in SUBSET Nat, S # {}
  PROVE \E m \in S : \A n \in S : m <= n
<1>1. \E R : IsWellFoundedOn(R, Nat) /\ \A m, n \in Nat : <<n, m>> \in R <=> n < m
  <2>1. \A m, n \in Nat : <<n, m>> \in OpToRel(<, Nat) <=> n < m
    BY DEF OpToRel
  <2> QED BY NatLessThanWellFounded, <2>1
<1>2. PICK R : IsWellFoundedOn(R, Nat) /\ \A m, n \in Nat : <<n, m>> \in R <=> n < m
  BY <1>1
<1>3. PICK m \in S : \A n \in S : ~(<<n, m>> \in R)
  BY <1>2, WFMin
<1>4. ASSUME NEW n \in S PROVE m <= n
  <2>1. m \in Nat /\ n \in Nat /\ ~(<<n, m>> \in R)
    BY <1>3
  <2>2. ~(n < m)
    BY <1>2, <2>1
  <2> QED BY <2>1, <2>2
<1> QED BY <1>4

\* The end of a sequence after its first n elements.
LEMMA Subsequence ==
  ASSUME NEW e \in Seq(Nat), NEW n \in Nat, n <= Len(e)
  PROVE  /\ SubSeq(e, n + 1, Len(e)) \in Seq(Nat)
         /\ Len(SubSeq(e, n + 1, Len(e))) = Len(e) - n
         /\ \A i \in 1 .. Len(e) - n : SubSeq(e, n + 1, Len(e))[i] = e[n + i]
<1> DEFINE m == n + 1
           l == Len(e)
<1>1. m \in 1 .. l + 1 /\ l \in (m - 1) .. l /\ l \in Nat /\ m \in Nat
  OBVIOUS
<1>2. /\ SubSeq(e, m, l) \in Seq(Nat)
      /\ Len(SubSeq(e, m, l)) = IF m <= l THEN (l - m) + 1 ELSE 0
      /\ \A i \in 1 .. (l - m) + 1 : SubSeq(e, m, l)[i] = e[(m + i) - 1]
  BY <1>1, SubSeqProperties
<1> HIDE DEF l
<1>3. Len(SubSeq(e, m, l)) = l - n
  BY <1>1, <1>2
<1>4. \A i \in 1 .. l - n : SubSeq(e, m, l)[i] = e[n + i]
  <2> SUFFICES ASSUME NEW i \in 1 .. l - n PROVE SubSeq(e, m, l)[i] = e[n + i]
    OBVIOUS
  <2>1. i \in 1 .. (l - m) + 1 /\ (m + i) - 1 = n + i
    BY <1>1
  <2> QED BY <1>2, <2>1
<1> QED BY <1>2, <1>3, <1>4 DEF l

\* A limiter that has seen nothing.
LEMMA FreshLimiter ==
  ASSUME NEW t \in Nat
  PROVE  Spread(<<>>, t) /\ Remembers(<<>>, <<>>, t) /\ <<>> \in Seq(Nat)
<1>1. <<>> \in Seq(Nat) /\ Len(<<>>) = 0 /\ 0 \in 0 .. 0
  OBVIOUS
<1>2. Remembers(<<>>, <<>>, t)
  BY <1>1 DEF Remembers
<1> QED BY <1>1, <1>2 DEF Spread

LEMMA LimiterInitFits == Limiter!Init => LimiterInv
BY FreshLimiter DEF Limiter!Init, LimiterInv

\* What is expired stays expired.
LEMMA LimiterTickFits == ASSUME LimiterInv, Limiter!Tick PROVE LimiterInv'
<1>1. time' = time + 1 /\ UNCHANGED <<events, admitted>> /\ time \in Nat /\ Window \in Nat
  BY PartsAssumption DEF Limiter!Tick, LimiterInv, Limiter!LimitAssumption
<1>2. ASSUME NEW k \in Clients
      PROVE  Spread(admitted[k], time') /\ Remembers(events[k], admitted[k], time')
  <2>1. admitted[k] \in Seq(Nat) /\ \A i \in 1 .. Len(admitted[k]) : admitted[k][i] \in Nat
    BY DEF LimiterInv
  <2>2. Spread(admitted[k], time')
    BY <1>1, <2>1 DEF LimiterInv, Spread
  <2>3. PICK d \in 0 .. Len(admitted[k]) :
          /\ Len(events[k]) = Len(admitted[k]) - d
          /\ \A i \in 1 .. Len(events[k]) : events[k][i] = admitted[k][d + i]
          /\ \A i \in 1 .. d : admitted[k][i] + Window <= time
    BY DEF LimiterInv, Remembers
  <2>4. \A i \in 1 .. d : admitted[k][i] + Window <= time'
    BY <1>1, <2>1, <2>3
  <2> QED BY <2>2, <2>3, <2>4 DEF Remembers
<1> QED BY <1>1, <1>2 DEF LimiterInv

\* The loop leaves what is not expired.
LEMMA RestFits ==
  ASSUME LimiterInv, NEW k \in Clients, NEW n \in 0 .. Len(events[k]), Limiter!Takes(k, n)
  PROVE  /\ Limiter!Rest(k, n) \in Seq(Nat)
         /\ Len(Limiter!Rest(k, n)) = Len(events[k]) - n
         /\ \E d \in 0 .. Len(admitted[k]) :
              /\ Len(Limiter!Rest(k, n)) = Len(admitted[k]) - d
              /\ \A i \in 1 .. Len(Limiter!Rest(k, n)) :
                   Limiter!Rest(k, n)[i] = admitted[k][d + i]
              /\ \A i \in 1 .. d : admitted[k][i] + Window <= time
<1> DEFINE e == events[k]
           s == admitted[k]
           r == SubSeq(e, n + 1, Len(e))
<1>1. /\ e \in Seq(Nat) /\ s \in Seq(Nat) /\ Len(e) \in Nat /\ Len(s) \in Nat /\ n \in Nat
      /\ \A i \in 1 .. n : e[i] + Window <= time
  BY DEF LimiterInv, Limiter!Takes, Limiter!Expired
<1>2. PICK c \in 0 .. Len(s) : /\ Len(e) = Len(s) - c
                               /\ \A i \in 1 .. Len(e) : e[i] = s[c + i]
                               /\ \A i \in 1 .. c : s[i] + Window <= time
  BY DEF LimiterInv, Remembers
<1>3. /\ r \in Seq(Nat) /\ Len(r) = Len(e) - n
      /\ \A i \in 1 .. Len(e) - n : r[i] = e[n + i]
  <2>1. n <= Len(e)
    BY <1>1
  <2> HIDE DEF e
  <2> QED BY <1>1, <2>1, Subsequence
<1> HIDE DEF e, s, r
<1>4. c + n \in 0 .. Len(s) /\ Len(r) = Len(s) - (c + n)
  BY <1>1, <1>2, <1>3 DEF e
<1>5. \A i \in 1 .. Len(r) : r[i] = s[(c + n) + i]
  <2> SUFFICES ASSUME NEW i \in 1 .. Len(r) PROVE r[i] = s[(c + n) + i]
    OBVIOUS
  <2>1. i \in Nat /\ i \in 1 .. Len(e) - n
    BY <1>1, <1>3
  <2>2. n + i \in 1 .. Len(e) /\ c + (n + i) = (c + n) + i
    BY <1>1, <1>2, <2>1
  <2> QED BY <1>2, <1>3, <2>1, <2>2
<1>6. \A i \in 1 .. c + n : s[i] + Window <= time
  <2> SUFFICES ASSUME NEW i \in 1 .. c + n PROVE s[i] + Window <= time
    OBVIOUS
  <2>1. CASE i <= c
    BY <1>2, <2>1
  <2>2. CASE i > c
    <3>1. i - c \in 1 .. n /\ i - c \in 1 .. Len(e) /\ c + (i - c) = i
      BY <1>1, <2>2 DEF e
    <3> QED BY <1>1, <1>2, <3>1
  <2> QED BY <1>1, <2>1, <2>2
<1> QED BY <1>3, <1>4, <1>5, <1>6 DEF e, s, r, Limiter!Rest

\* A refused request is not remembered.
LEMMA RefuseFits ==
  ASSUME LimiterInv, NEW k \in Clients, NEW n \in 0 .. Len(events[k]), Limiter!Refuse(k, n)
  PROVE  LimiterInv'
<1>1. /\ Limiter!Takes(k, n) /\ UNCHANGED <<time, admitted>>
      /\ events' = [events EXCEPT ![k] = Limiter!Rest(k, n)]
  BY DEF Limiter!Refuse
<1>2. Limiter!Rest(k, n) \in Seq(Nat) /\ Remembers(Limiter!Rest(k, n), admitted[k], time)
  BY <1>1, RestFits DEF Remembers
<1> QED BY <1>1, <1>2 DEF LimiterInv

\* One that is admitted comes at least a window after the one that was
\* admitted Limit requests before it.
LEMMA AdmitFits ==
  ASSUME LimiterInv, NEW k \in Clients, NEW n \in 0 .. Len(events[k]), Limiter!Admit(k, n)
  PROVE  LimiterInv'
<1> DEFINE s == admitted[k]
           r == Limiter!Rest(k, n)
           s2 == Append(s, time)
           r2 == Append(r, time)
<1>1. /\ Limiter!Takes(k, n) /\ UNCHANGED time /\ Len(r) < Limit
      /\ events' = [events EXCEPT ![k] = r2] /\ admitted' = [admitted EXCEPT ![k] = s2]
  BY DEF Limiter!Admit
<1>2. s \in Seq(Nat) /\ time \in Nat /\ Window \in Nat /\ Limit \in Nat \ {0} /\ Len(s) \in Nat
  BY PartsAssumption DEF LimiterInv, Limiter!LimitAssumption
<1>3. PICK d \in 0 .. Len(s) : /\ Len(r) = Len(s) - d
                               /\ \A i \in 1 .. Len(r) : r[i] = s[d + i]
                               /\ \A i \in 1 .. d : s[i] + Window <= time
  BY <1>1, RestFits
<1>4. r \in Seq(Nat)
  BY <1>1, RestFits
<1>5. Spread(s, time)
  BY DEF LimiterInv
<1> HIDE DEF s, r
<1>6. /\ s2 \in Seq(Nat) /\ Len(s2) = Len(s) + 1 /\ s2[Len(s) + 1] = time
      /\ \A i \in 1 .. Len(s) : s2[i] = s[i] /\ s[i] \in Nat
      /\ r2 \in Seq(Nat) /\ Len(r2) = Len(r) + 1 /\ r2[Len(r) + 1] = time
      /\ \A i \in 1 .. Len(r) : r2[i] = r[i]
  BY <1>2, <1>4
<1> HIDE DEF s2, r2
<1>7. Spread(s2, time)
  <2>1. ASSUME NEW i \in 1 .. Len(s2) PROVE s2[i] <= time
    <3>1. CASE i = Len(s) + 1
      BY <1>2, <1>6, <3>1
    <3>2. CASE i # Len(s) + 1
      <4>1. i \in 1 .. Len(s)
        BY <1>2, <1>6, <3>2
      <4> QED BY <1>5, <1>6, <4>1 DEF Spread
    <3> QED BY <3>1, <3>2
  <2>2. ASSUME NEW i \in 1 .. Len(s2), NEW j \in 1 .. Len(s2), i <= j PROVE s2[i] <= s2[j]
    <3>1. CASE j = Len(s) + 1
      BY <1>2, <1>6, <2>1, <3>1
    <3>2. CASE j # Len(s) + 1
      <4>1. i \in 1 .. Len(s) /\ j \in 1 .. Len(s)
        BY <1>2, <1>6, <2>2, <3>2
      <4> QED BY <1>5, <1>6, <2>2, <4>1 DEF Spread
    <3> QED BY <3>1, <3>2
  <2>3. ASSUME NEW i \in 1 .. Len(s2), NEW j \in 1 .. Len(s2), i + Limit <= j
        PROVE  s2[i] + Window <= s2[j]
    <3>1. CASE j = Len(s) + 1
      <4>1. i \in 1 .. d /\ i \in 1 .. Len(s)
        BY <1>1, <1>2, <1>3, <2>3, <3>1
      <4> QED BY <1>3, <1>6, <3>1, <4>1
    <3>2. CASE j # Len(s) + 1
      <4>1. j \in 1 .. Len(s)
        BY <1>2, <1>6, <3>2
      <4>2. i \in 1 .. Len(s)
        BY <1>2, <1>6, <2>3, <4>1
      <4> QED BY <1>5, <1>6, <2>3, <4>1, <4>2 DEF Spread
    <3> QED BY <3>1, <3>2
  <2> QED BY <2>1, <2>2, <2>3 DEF Spread
<1>8. Remembers(r2, s2, time)
  <2>1. d \in 0 .. Len(s2) /\ Len(r2) = Len(s2) - d
    BY <1>2, <1>3, <1>6
  <2>2. ASSUME NEW i \in 1 .. Len(r2) PROVE r2[i] = s2[d + i]
    <3>1. CASE i = Len(r) + 1
      BY <1>2, <1>3, <1>6, <3>1
    <3>2. CASE i # Len(r) + 1
      <4>0. /\ d \in Nat /\ Len(r) \in Nat /\ Len(s) = d + Len(r) /\ Len(r2) = Len(r) + 1
            /\ i \in Nat /\ 1 <= i /\ i <= Len(r2)
        <5>1. d \in Nat /\ d <= Len(s)
          BY <1>2
        <5>2. Len(r) = Len(s) - d /\ Len(r2) = Len(r) + 1
          BY <1>3, <1>6
        <5> QED BY <1>2, <5>1, <5>2
      <4>1. i \in 1 .. Len(r) /\ d + i \in 1 .. Len(s)
        BY <3>2, <4>0
      <4> QED BY <1>3, <1>6, <4>1
    <3> QED BY <3>1, <3>2
  <2>3. ASSUME NEW i \in 1 .. d PROVE s2[i] + Window <= time
    <3>1. i \in 1 .. Len(s)
      BY <1>2
    <3> QED BY <1>3, <1>6, <3>1
  <2> QED BY <2>1, <2>2, <2>3 DEF Remembers
<1> QED BY <1>1, <1>6, <1>7, <1>8 DEF LimiterInv

LEMMA LimiterNextFits == LimiterInv /\ [Limiter!Next]_(Limiter!vars) => LimiterInv'
<1> SUFFICES ASSUME LimiterInv, [Limiter!Next]_(Limiter!vars) PROVE LimiterInv'
  OBVIOUS
<1>1. CASE Limiter!Restart
  BY <1>1, FreshLimiter DEF Limiter!Restart, LimiterInv
<1>2. CASE UNCHANGED Limiter!vars
  BY <1>2 DEF Limiter!vars, LimiterInv
<1> QED BY <1>1, <1>2, LimiterTickFits, AdmitFits, RefuseFits DEF Limiter!Next

\* The requests of a window lie within Limit places of one another.
LEMMA SpreadIsEnough == LimiterInv => NeverOverLimit
<1> SUFFICES ASSUME LimiterInv, NEW k \in Clients, NEW t \in 0 .. time
             PROVE  Cardinality(Limiter!InWindow(k, t)) <= Limit
  BY DEF NeverOverLimit
<1> DEFINE s == admitted[k]
           W == Limiter!InWindow(k, t)
<1>1. /\ s \in Seq(Nat) /\ Len(s) \in Nat /\ \A i \in 1 .. Len(s) : s[i] \in Nat
      /\ t \in Nat /\ Window \in Nat /\ Limit \in Nat \ {0} /\ Spread(s, time)
  BY PartsAssumption DEF LimiterInv, Limiter!LimitAssumption
<1>2. W = {i \in 1 .. Len(s) : s[i] <= t /\ t < s[i] + Window}
  BY <1>1 DEF Limiter!InWindow
<1> HIDE DEF s, W
<1>3. CASE W = {}
  BY <1>1, <1>3, FS_EmptySet DEF W
<1>4. CASE W # {}
  <2>1. W \in SUBSET Nat
    BY <1>1, <1>2
  <2>2. PICK a \in W : \A b \in W : a <= b
    BY <1>4, <2>1, LeastNatural
  <2>3. a \in 1 .. Len(s) /\ s[a] <= t /\ t < s[a] + Window
    BY <1>2, <2>2
  <2>4. ASSUME NEW b \in W PROVE b \in a .. (a + Limit) - 1
    <3>1. b \in 1 .. Len(s) /\ s[b] <= t /\ a <= b
      BY <1>2, <2>2
    <3>2. ~(a + Limit <= b)
      <4>1. SUFFICES ASSUME a + Limit <= b PROVE FALSE
        OBVIOUS
      <4>2. s[a] + Window <= s[b]
        BY <1>1, <2>3, <3>1, <4>1 DEF Spread
      <4> QED BY <1>1, <2>3, <3>1, <4>2
    <3> QED BY <1>1, <2>3, <3>1, <3>2
  <2>5. /\ IsFiniteSet(a .. (a + Limit) - 1)
        /\ Cardinality(a .. (a + Limit) - 1) = Limit
    <3> DEFINE b == (a + Limit) - 1
    <3>1. a \in Int /\ b \in Int /\ ~(a > b) /\ (b - a) + 1 = Limit
      BY <1>1, <2>3
    <3> HIDE DEF b
    <3>2. /\ IsFiniteSet(a .. b)
          /\ Cardinality(a .. b) = IF a > b THEN 0 ELSE b - a + 1
      BY <3>1, FS_Interval
    <3>3. IsFiniteSet(a .. b) /\ Cardinality(a .. b) = Limit
      BY <3>1, <3>2
    <3> QED BY <3>3 DEF b
  <2>6. W \in SUBSET (a .. (a + Limit) - 1)
    BY <2>4
  <2> QED BY <2>5, <2>6, FS_Subset DEF W
<1> QED BY <1>3, <1>4

\* Wherever a window is laid over the requests that were admitted, it has at
\* most the limit of them, for every limit, window and number of clients.
THEOREM LimitHolds == Limiter!Spec => []NeverOverLimit
<1> QED BY LimiterInitFits, LimiterNextFits, SpreadIsEnough, PTL DEF Limiter!Spec
=============================================================================
