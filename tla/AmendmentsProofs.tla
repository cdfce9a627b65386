------------------------- MODULE AmendmentsProofs -------------------------
(***************************************************************************)
(* Proofs of Amendments, for every number of requests, turns, readbacks    *)
(* and crashes.                                                            *)
(*                                                                         *)
(* What is done was agreed to: a copy of the gate may be restored over     *)
(* memory long after it was taken, so the invariant says the same of every *)
(* copy.  rs and ag stand for readbacks and agreed; what is said of a copy *)
(* stays true as they grow.  A cancellation is final: whoever is past the  *)
(* lock is alone there, and the reservation is still confirmed.            *)
(***************************************************************************)
EXTENDS Amendments, SequenceTheorems, TLAPS

Readbacks == Seq([kind : Kinds, details : Details \cup {None}, life : Nat])

\* A record in a copy of the gate is that of a readback, and it is accepted
\* only if a yes came after that.
RecordFits(r, k, m, rs, ag) ==
  /\ r.id \in DOMAIN rs
  /\ rs[r.id].kind = k /\ rs[r.id].details = r.details
  /\ m.word = "affirmative" /\ m.turn > r.turn => r.id \in ag

GateFits(m, rs, ag) ==
  /\ m \in Gate
  /\ \A k \in Kinds : m.pending[k] # None => RecordFits(m.pending[k], k, m, rs, ag)

CopyFits(m, rs, ag) == m # None => GateFits(m, rs, ag)

Past == {"begin", "lock", "write", "clear", "commit"}
Places == {"idle", "turn", "readback", "confirm", "read for turn", "read for readback",
           "read for confirm", "invalidate", "lookup", "again", "patch", "persist"} \cup Past

Request == [pc : Places, kind : Kinds \cup {None}, details : Details \cup {None},
            seen : Gate \cup {None}, patch : Gate \cup {None}, used : Nat]

\* What was read back and agreed to.
Covered(id, k, d, rs, ag) ==
  id \in ag /\ id \in DOMAIN rs /\ rs[id].kind = k /\ rs[id].details = d

RequestFits(x, rs, ag) ==
  /\ x \in Request
  /\ x.pc \notin {"idle", "persist"} => x.kind \in Kinds
  /\ CopyFits(x.seen, rs, ag) /\ CopyFits(x.patch, rs, ag)
  /\ x.pc \in Past => Covered(x.used, x.kind, x.details, rs, ag)

DoneFits(dn, rs, ag) ==
  \A i \in DOMAIN dn : Covered(dn[i].readback, dn[i].kind, dn[i].details, rs, ag)

Done == Seq([readback : Nat, kind : Kinds, details : Details \cup {None}, life : Nat])

Inv ==
  /\ readbacks \in Readbacks /\ done \in Done /\ restarts \in Nat
  /\ CopyFits(memory, readbacks, agreed) /\ CopyFits(row, readbacks, agreed)
  /\ handler \in [Handlers -> Request]
  /\ \A h \in Handlers : RequestFits(handler[h], readbacks, agreed)
  /\ DoneFits(done, readbacks, agreed)

-----------------------------------------------------------------------------
(* Copies of the gate.                                                     *)

LEMMA NoneFits == \A rs, ag : CopyFits(None, rs, ag)
BY DEF CopyFits

\* An empty memory is a gate without records.
LEMMA OrEmptyFits ==
  ASSUME NEW m, NEW rs, NEW ag, CopyFits(m, rs, ag)
  PROVE  GateFits(OrEmpty(m), rs, ag)
<1>1. CASE m = None
  <2>1. OrEmpty(m) = NoGate
    BY <1>1 DEF OrEmpty
  <2>2. NoGate \in Gate /\ \A k \in Kinds : NoGate.pending[k] = None
    BY DEF NoGate, Gate, Words
  <2> QED BY <2>1, <2>2 DEF GateFits
<1>2. CASE m # None
  BY <1>2 DEF OrEmpty, CopyFits
<1> QED BY <1>1, <1>2

LEMMA GateIsCopy ==
  ASSUME NEW m, NEW rs, NEW ag, GateFits(m, rs, ag)
  PROVE  CopyFits(m, rs, ag)
BY DEF CopyFits

\* A copy stays what it is while the talk goes on.
LEMMA CopyStays ==
  ASSUME NEW m, NEW rs, NEW ag, NEW rs2, NEW ag2, CopyFits(m, rs, ag),
         \A i \in DOMAIN rs : i \in DOMAIN rs2 /\ rs2[i] = rs[i], ag \subseteq ag2
  PROVE  CopyFits(m, rs2, ag2)
BY DEF CopyFits, GateFits, RecordFits

\* A turn: a yes covers every readback so far, another word covers none.
LEMMA SpokenFits ==
  ASSUME NEW m, NEW rs, NEW ag, NEW w \in Words, CopyFits(m, rs, ag)
  PROVE  GateFits(Spoken(m, w), rs, IF w = "affirmative" THEN ag \cup DOMAIN rs ELSE ag)
<1> DEFINE g == OrEmpty(m)
           ag2 == IF w = "affirmative" THEN ag \cup DOMAIN rs ELSE ag
<1>1. GateFits(g, rs, ag)
  BY OrEmptyFits
<1>2. g \in Gate
  BY <1>1 DEF GateFits
<1>3. Spoken(m, w) = [g EXCEPT !.turn = g.turn + 1, !.word = w]
  BY DEF Spoken
<1> HIDE DEF g
<1>4. /\ Spoken(m, w) \in Gate
      /\ Spoken(m, w).pending = g.pending /\ Spoken(m, w).word = w
  <2>1. /\ g.turn \in Nat /\ g.pending \in [Kinds -> Record \cup {None}]
        /\ g = [turn |-> g.turn, word |-> g.word, pending |-> g.pending]
    BY <1>2 DEF Gate
  <2>2. Spoken(m, w) = [turn |-> g.turn + 1, word |-> w, pending |-> g.pending]
    BY <1>3, <2>1
  <2>3. g.turn + 1 \in Nat
    BY <2>1
  <2> QED BY <2>1, <2>2, <2>3 DEF Gate
<1>5. ASSUME NEW k \in Kinds, Spoken(m, w).pending[k] # None
      PROVE  RecordFits(Spoken(m, w).pending[k], k, Spoken(m, w), rs, ag2)
  <2>1. RecordFits(g.pending[k], k, g, rs, ag)
    BY <1>1, <1>4, <1>5 DEF GateFits
  <2> QED BY <1>4, <2>1 DEF RecordFits
<1> QED BY <1>4, <1>5 DEF GateFits

\* Dropping a record.
LEMMA ClearedFits ==
  ASSUME NEW m, NEW rs, NEW ag, NEW k \in Kinds, CopyFits(m, rs, ag)
  PROVE  CopyFits(Cleared(m, k), rs, ag)
<1>1. CASE m = None \/ m.pending[k] = None
  BY <1>1 DEF Cleared
<1>2. CASE m # None /\ m.pending[k] # None
  <2>1. m \in Gate
    BY <1>2 DEF CopyFits, GateFits
  <2>2. Cleared(m, k) = [m EXCEPT !.pending[k] = None]
    BY <1>2 DEF Cleared
  <2>3. /\ Cleared(m, k) \in Gate
        /\ Cleared(m, k).word = m.word /\ Cleared(m, k).turn = m.turn
        /\ \A l \in Kinds : Cleared(m, k).pending[l] = IF l = k THEN None ELSE m.pending[l]
    BY <2>1, <2>2 DEF Gate
  <2> QED BY <1>2, <2>3 DEF CopyFits, GateFits, RecordFits
<1> QED BY <1>1, <1>2

\* What is saved for the row leaves the cancellation out.
LEMMA PatchFits ==
  ASSUME NEW m, NEW rs, NEW ag, CopyFits(m, rs, ag)
  PROVE  GateFits(StatePatch(m), rs, ag)
<1> DEFINE g == OrEmpty(m)
<1>1. GateFits(g, rs, ag)
  BY OrEmptyFits
<1>2. g \in Gate
  BY <1>1 DEF GateFits
<1>3. StatePatch(m) = [g EXCEPT !.pending["cancel"] = None]
  BY DEF StatePatch
<1> HIDE DEF g
<1>4. /\ StatePatch(m) \in Gate
      /\ StatePatch(m).word = g.word /\ StatePatch(m).turn = g.turn
      /\ \A l \in Kinds : StatePatch(m).pending[l] = IF l = "cancel" THEN None ELSE g.pending[l]
  BY <1>2, <1>3 DEF Gate, Kinds
<1> QED BY <1>1, <1>4 DEF GateFits, RecordFits

\* What a turn leaves of a cancellation it takes back.
LEMMA StoppedFits ==
  ASSUME NEW m, NEW rs, NEW ag, CopyFits(m, rs, ag)
  PROVE  CopyFits(Cleared(Spoken(m, "negative"), "cancel"), rs, ag)
<1>1. "negative" \in Words /\ "negative" # "affirmative" /\ "cancel" \in Kinds
  BY DEF Words, Kinds
<1>2. GateFits(Spoken(m, "negative"), rs, IF "negative" = "affirmative" THEN ag \cup DOMAIN rs ELSE ag)
  BY <1>1, SpokenFits
<1>3. GateFits(Spoken(m, "negative"), rs, ag)
  BY <1>1, <1>2
<1> QED BY <1>1, <1>3, GateIsCopy, ClearedFits

-----------------------------------------------------------------------------
(* Requests and what is done.                                              *)

LEMMA RequestStays ==
  ASSUME NEW x, NEW rs, NEW ag, NEW rs2, NEW ag2, RequestFits(x, rs, ag),
         \A i \in DOMAIN rs : i \in DOMAIN rs2 /\ rs2[i] = rs[i], ag \subseteq ag2
  PROVE  RequestFits(x, rs2, ag2)
<1>1. CopyFits(x.seen, rs2, ag2) /\ CopyFits(x.patch, rs2, ag2)
  BY CopyStays DEF RequestFits
<1> QED BY <1>1 DEF RequestFits, Covered

LEMMA IdleFits == \A rs, ag : RequestFits(Idle, rs, ag)
<1>1. Idle \in Request /\ Idle.pc = "idle" /\ Idle.seen = None /\ Idle.patch = None
  BY DEF Idle, Request, Places
<1> QED BY <1>1, NoneFits DEF RequestFits, Past

\* A request that only goes on, to a place that asks nothing new of it.
LEMMA GoesOn ==
  ASSUME NEW x, NEW rs, NEW ag, NEW p \in Places, RequestFits(x, rs, ag),
         x.pc \notin {"idle", "persist"}, p \in Past => x.pc \in Past
  PROVE  RequestFits([x EXCEPT !.pc = p], rs, ag)
<1> DEFINE y == [x EXCEPT !.pc = p]
<1>1. /\ y \in Request /\ y.pc = p /\ y.kind = x.kind /\ y.details = x.details
      /\ y.seen = x.seen /\ y.patch = x.patch /\ y.used = x.used
  BY DEF RequestFits, Request
<1>2. RequestFits(y, rs, ag)
  <2> HIDE DEF y
  <2> QED BY <1>1 DEF RequestFits
<1> QED BY <1>2

\* A request that is about to save m.
LEMMA PersistFits ==
  ASSUME NEW x, NEW rs, NEW ag, NEW m, RequestFits(x, rs, ag), CopyFits(m, rs, ag)
  PROVE  RequestFits([x EXCEPT !.pc = "persist", !.patch = m], rs, ag)
<1> DEFINE y == [x EXCEPT !.pc = "persist", !.patch = m]
<1>1. m \in Gate \cup {None}
  BY DEF CopyFits, GateFits
<1>2. "persist" \in Places /\ "persist" \notin Past
  BY DEF Places, Past
<1>3. y \in Request /\ y.pc = "persist" /\ y.seen = x.seen /\ y.patch = m
  BY <1>1, <1>2 DEF RequestFits, Request
<1>4. RequestFits(y, rs, ag)
  <2> HIDE DEF y
  <2> QED BY <1>2, <1>3 DEF RequestFits
<1> QED BY <1>4

\* A step of one request keeps the invariant if all that it writes fits.
LEMMA StepFits ==
  ASSUME Inv, NEW h \in Handlers, NEW x,
         handler' = [handler EXCEPT ![h] = x], RequestFits(x, readbacks', agreed'),
         readbacks' \in Readbacks, done' \in Done, restarts' \in Nat,
         \A i \in DOMAIN readbacks : i \in DOMAIN readbacks' /\ readbacks'[i] = readbacks[i],
         agreed \subseteq agreed',
         CopyFits(memory', readbacks', agreed'), CopyFits(row', readbacks', agreed'),
         DoneFits(done', readbacks', agreed')
  PROVE  Inv'
<1>1. handler' \in [Handlers -> Request]
  BY DEF Inv, RequestFits
<1>2. ASSUME NEW g \in Handlers PROVE RequestFits(handler'[g], readbacks', agreed')
  <2>1. CASE g = h
    BY <2>1 DEF Inv
  <2>2. CASE g # h
    <3>1. handler'[g] = handler[g] /\ RequestFits(handler[g], readbacks, agreed)
      BY <2>2 DEF Inv
    <3> QED BY <3>1, RequestStays
  <2> QED BY <2>1, <2>2
<1> QED BY <1>1, <1>2 DEF Inv

\* Most steps say nothing to the caller and commit nothing.
LEMMA QuietStepFits ==
  ASSUME Inv, NEW h \in Handlers, NEW x,
         handler' = [handler EXCEPT ![h] = x], RequestFits(x, readbacks, agreed),
         UNCHANGED <<readbacks, agreed, done, restarts>>,
         CopyFits(memory', readbacks, agreed), CopyFits(row', readbacks, agreed)
  PROVE  Inv'
<1>1. /\ readbacks \in Readbacks /\ done \in Done /\ restarts \in Nat
      /\ DoneFits(done, readbacks, agreed)
  BY DEF Inv
<1> QED BY <1>1, StepFits

-----------------------------------------------------------------------------
LEMMA InitFits == Init => Inv
<1> SUFFICES ASSUME Init PROVE Inv
  OBVIOUS
<1>1. readbacks \in Readbacks /\ done \in Done /\ restarts \in Nat
  BY DEF Init, Readbacks, Done
<1>2. handler \in [Handlers -> Request] /\ \A h \in Handlers : RequestFits(handler[h], readbacks, agreed)
  BY IdleFits DEF Init, RequestFits
<1>3. DoneFits(done, readbacks, agreed)
  BY DEF Init, DoneFits
<1> QED BY <1>1, <1>2, <1>3, NoneFits DEF Init, Inv

\* Of what a request knows.
LEMMA Known ==
  ASSUME Inv, NEW h \in Handlers
  PROVE  /\ RequestFits(handler[h], readbacks, agreed) /\ handler[h] \in Request
         /\ CopyFits(memory, readbacks, agreed) /\ CopyFits(row, readbacks, agreed)
         /\ CopyFits(Recalled(h), readbacks, agreed)
         /\ CopyFits(handler[h].patch, readbacks, agreed)
BY DEF Inv, RequestFits, Recalled

\* Where a request may start.
LEMMA StartPlaces ==
  ASSUME NEW s \in Starts
  PROVE  /\ s \in Places \ Past /\ Reading[s] \in Places \ Past
         /\ Reading[s] \notin {"idle", "persist"}
<1>1. Reading["turn"] = "read for turn" /\ Reading["readback"] = "read for readback"
      /\ Reading["confirm"] = "read for confirm"
  BY DEF Reading
<1>2. /\ {"turn", "readback", "confirm"} \subseteq Places \ Past
      /\ {"read for turn", "read for readback", "read for confirm"} \subseteq Places \ Past
  BY DEF Places, Past
<1>3. s = "turn" \/ s = "readback" \/ s = "confirm"
  BY DEF Starts
<1> QED BY <1>1, <1>2, <1>3

LEMMA ArriveFits ==
  ASSUME Inv, NEW h \in Handlers, NEW s \in Starts, NEW k \in Kinds,
         NEW d \in Details \cup {None}, Arrive(h, s, k, d)
  PROVE  Inv'
<1> DEFINE p == IF memory = None /\ ~(k = "cancel" /\ s # "turn") THEN Reading[s] ELSE s
           x == [Idle EXCEPT !.kind = k, !.details = d, !.pc = p]
<1>1. p \in Places /\ p \notin Past
  BY StartPlaces
<1>2. handler' = [handler EXCEPT ![h] = x]
  BY DEF Arrive, Become
<1>3. RequestFits(x, readbacks, agreed)
  <2> HIDE DEF p
  <2>1. /\ x \in Request /\ x.pc = p /\ x.kind = k
        /\ x.seen = None /\ x.patch = None
    BY <1>1 DEF Idle, Request
  <2> HIDE DEF x
  <2> QED BY <1>1, <2>1, NoneFits DEF RequestFits
<1>4. UNCHANGED <<readbacks, agreed, done, restarts, memory, row>>
  BY DEF Arrive, talk
<1> HIDE DEF x
<1> QED BY <1>2, <1>3, <1>4, Known, QuietStepFits

LEMMA ReadRowFits ==
  ASSUME Inv, NEW h \in Handlers, NEW s \in Starts, ReadRow(h, s)
  PROVE  Inv'
<1>1. PICK r \in {row, None} : Become(h, [handler[h] EXCEPT !.pc = s, !.seen = r])
  BY DEF ReadRow
<1> DEFINE x == [handler[h] EXCEPT !.pc = s, !.seen = r]
<1>2. CopyFits(r, readbacks, agreed) /\ r \in Gate \cup {None}
  BY Known, NoneFits DEF CopyFits, GateFits
<1>3. s \in Places /\ s \notin Past /\ handler[h].pc \notin {"idle", "persist"}
  BY StartPlaces DEF ReadRow, At
<1>4. RequestFits(x, readbacks, agreed)
  <2>1. /\ x \in Request /\ x.pc = s /\ x.kind = handler[h].kind
        /\ x.seen = r /\ x.patch = handler[h].patch
    BY <1>2, <1>3, Known DEF Request
  <2> HIDE DEF x
  <2> QED BY <1>2, <1>3, <2>1, Known DEF RequestFits
<1>5. UNCHANGED <<readbacks, agreed, done, restarts, memory, row>>
  BY DEF ReadRow, talk
<1>6. handler' = [handler EXCEPT ![h] = x]
  BY <1>1 DEF Become
<1> HIDE DEF x
<1> QED BY <1>4, <1>5, <1>6, Known, QuietStepFits

LEMMA CallerTurnFits ==
  ASSUME Inv, NEW h \in Handlers, CallerTurn(h)
  PROVE  Inv'
<1> DEFINE m == OrEmpty(Recalled(h))
<1>1. CopyFits(m, readbacks, agreed)
  BY Known, OrEmptyFits, GateIsCopy
<1>2. PICK w \in Words :
        /\ memory' = Spoken(m, w)
        /\ agreed' = IF w = "affirmative" THEN agreed \cup DOMAIN readbacks ELSE agreed
  BY DEF CallerTurn
<1>3. /\ handler' = [handler EXCEPT ![h] = Idle]
      /\ UNCHANGED <<readbacks, done, restarts, row>>
  BY DEF CallerTurn, Finish, Become
<1> HIDE DEF m
<1>4. CopyFits(memory', readbacks, agreed')
  BY <1>1, <1>2, SpokenFits, GateIsCopy
<1>5. agreed \subseteq agreed'
  BY <1>2
<1>6. CopyFits(row, readbacks, agreed') /\ DoneFits(done, readbacks, agreed')
  BY <1>5, CopyStays DEF Inv, DoneFits, Covered
<1>7. readbacks \in Readbacks /\ done \in Done /\ restarts \in Nat
  BY DEF Inv
<1> QED BY <1>3, <1>4, <1>5, <1>6, <1>7, IdleFits, StepFits

LEMMA StopFits ==
  ASSUME Inv, NEW h \in Handlers, StopCancellation(h)
  PROVE  Inv'
<1> DEFINE m == OrEmpty(Recalled(h))
           c == Cleared(Spoken(m, "negative"), "cancel")
           x == [handler[h] EXCEPT !.pc = "invalidate", !.patch = StatePatch(c),
                                   !.used = m.pending["cancel"].id]
<1>1. GateFits(m, readbacks, agreed)
  BY Known, OrEmptyFits
<1>2. CopyFits(c, readbacks, agreed)
  BY <1>1, GateIsCopy, StoppedFits
<1>3. memory' = c /\ handler' = [handler EXCEPT ![h] = x] /\ handler[h].pc = "turn"
      /\ m.pending["cancel"] # None
  BY DEF StopCancellation, Become, At
<1>4. UNCHANGED <<readbacks, agreed, done, restarts, row>>
  BY DEF StopCancellation, talk
<1>5. m.pending["cancel"].id \in Nat
  <2> HIDE DEF m
  <2>1. "cancel" \in Kinds
    BY DEF Kinds
  <2>2. m.pending \in [Kinds -> Record \cup {None}]
    BY <1>1 DEF GateFits, Gate
  <2> QED BY <1>3, <2>1, <2>2 DEF Record
<1>6. RequestFits(x, readbacks, agreed)
  <2> HIDE DEF c, m
  <2>1. CopyFits(StatePatch(c), readbacks, agreed) /\ StatePatch(c) \in Gate
    BY <1>2, PatchFits, GateIsCopy DEF GateFits
  <2>2. "invalidate" \in Places /\ "invalidate" \notin Past
    BY DEF Places, Past
  <2>3. /\ x \in Request /\ x.pc = "invalidate" /\ x.kind = handler[h].kind
        /\ x.seen = handler[h].seen /\ x.patch = StatePatch(c)
    BY <1>5, <2>1, <2>2, Known DEF Request
  <2> HIDE DEF x
  <2> QED BY <1>3, <2>1, <2>2, <2>3, Known DEF RequestFits
<1> HIDE DEF x, c
<1> QED BY <1>2, <1>3, <1>4, <1>6, Known, QuietStepFits

\* The steps of a request that only goes on or ends.
LEMMA GoOnFits ==
  ASSUME Inv, NEW h \in Handlers, NEW p \in Places,
         handler[h].pc \notin {"idle", "persist"}, p \in Past => handler[h].pc \in Past,
         GoTo(h, p), UNCHANGED <<readbacks, agreed, done, restarts>>,
         CopyFits(memory', readbacks, agreed), CopyFits(row', readbacks, agreed)
  PROVE  Inv'
<1>1. RequestFits([handler[h] EXCEPT !.pc = p], readbacks, agreed)
  BY Known, GoesOn
<1> QED BY <1>1, QuietStepFits DEF GoTo, Become

LEMMA FinishFits ==
  ASSUME Inv, NEW h \in Handlers, Finish(h), UNCHANGED <<readbacks, agreed, done, restarts>>,
         CopyFits(memory', readbacks, agreed), CopyFits(row', readbacks, agreed)
  PROVE  Inv'
BY IdleFits, QuietStepFits DEF Finish, Become

LEMMA InvalidateFits ==
  ASSUME Inv, NEW h \in Handlers, Invalidate(h)
  PROVE  Inv'
<1>1. /\ UNCHANGED <<readbacks, agreed, done, restarts, memory>>
      /\ handler[h].pc = "invalidate" /\ row' \in {row, handler[h].patch}
      /\ GoTo(h, "lookup") \/ GoTo(h, "again")
  BY DEF Invalidate, talk, At
<1>2. {"lookup", "again"} \subseteq Places \ Past
  BY DEF Places, Past
<1>3. CopyFits(memory', readbacks, agreed) /\ CopyFits(row', readbacks, agreed)
  BY <1>1, Known
<1> QED BY <1>1, <1>2, <1>3, GoOnFits

LEMMA LookUpFits ==
  ASSUME Inv, NEW h \in Handlers, LookUp(h)
  PROVE  Inv'
<1>1. /\ UNCHANGED <<readbacks, agreed, done, restarts, memory, row>>
      /\ handler[h].pc = "lookup"
      /\ Finish(h) \/ GoTo(h, "again")
  BY DEF LookUp, At
<1>2. "again" \in Places \ Past
  BY DEF Places, Past
<1>3. CopyFits(memory', readbacks, agreed) /\ CopyFits(row', readbacks, agreed)
  BY <1>1, Known
<1> QED BY <1>1, <1>2, <1>3, GoOnFits, FinishFits

LEMMA AgainFits ==
  ASSUME Inv, NEW h \in Handlers, InvalidateAgain(h)
  PROVE  Inv'
<1> DEFINE c == Cleared(memory, "cancel")
           x == [Idle EXCEPT !.pc = "persist", !.patch = StatePatch(c)]
<1>1. UNCHANGED <<readbacks, agreed, done, restarts, row>>
      /\ memory' = c /\ handler' = [handler EXCEPT ![h] = x]
  BY DEF InvalidateAgain, talk, Become
<1>2. "cancel" \in Kinds
  BY DEF Kinds
<1>3. CopyFits(c, readbacks, agreed)
  BY <1>2, Known, ClearedFits
<1> HIDE DEF c
<1>4. RequestFits(x, readbacks, agreed)
  BY <1>3, IdleFits, PatchFits, GateIsCopy, PersistFits
<1> HIDE DEF x
<1> QED BY <1>1, <1>3, <1>4, Known, QuietStepFits

LEMMA PersistStepFits ==
  ASSUME Inv, NEW h \in Handlers, Persist(h)
  PROVE  Inv'
<1>1. UNCHANGED <<readbacks, agreed, done, restarts, memory>>
      /\ row' \in {row, handler[h].patch} /\ Finish(h)
  BY DEF Persist, talk
<1> QED BY <1>1, Known, FinishFits

\* A readback is recorded with the turn it was made on, so that no yes so far
\* covers it.
LEMMA ReadBackFits ==
  ASSUME Inv, NEW h \in Handlers, ReadBack(h)
  PROVE  Inv'
<1> DEFINE m == OrEmpty(Recalled(h))
           k == handler[h].kind
           n == Len(readbacks) + 1
           r == [details |-> handler[h].details, turn |-> m.turn, id |-> n]
           g == [m EXCEPT !.pending[k] = r]
           said == [kind |-> k, details |-> handler[h].details, life |-> restarts]
           x == [handler[h] EXCEPT !.pc = "persist", !.patch = StatePatch(g)]
<1>1. /\ readbacks' = Append(readbacks, said) /\ memory' = g
      /\ handler' = [handler EXCEPT ![h] = x]
      /\ UNCHANGED <<row, agreed, done, restarts>> /\ handler[h].pc = "readback"
  BY DEF ReadBack, Become, At
<1>2. GateFits(m, readbacks, agreed)
  BY Known, OrEmptyFits
<1>3. k \in Kinds /\ handler[h].details \in Details \cup {None}
  BY <1>1, Known DEF RequestFits, Request
<1> HIDE DEF m
<1>4. said \in [kind : Kinds, details : Details \cup {None}, life : Nat]
  BY <1>3 DEF Inv
<1>5. /\ readbacks' \in Readbacks /\ n \in DOMAIN readbacks' /\ readbacks'[n] = said
      /\ \A i \in DOMAIN readbacks : i \in DOMAIN readbacks' /\ readbacks'[i] = readbacks[i]
  <2>1. readbacks \in Readbacks
    BY DEF Inv
  <2> HIDE DEF said
  <2> QED BY <1>1, <1>4, <2>1 DEF Readbacks
<1>6. CopyFits(g, readbacks', agreed)
  <2>1. /\ m.turn \in Nat /\ m.word \in Words /\ m.pending \in [Kinds -> Record \cup {None}]
        /\ m = [turn |-> m.turn, word |-> m.word, pending |-> m.pending] /\ n \in Nat
    BY <1>2 DEF GateFits, Gate, Inv, Readbacks
  <2>2. r \in Record /\ r.turn = m.turn /\ r.id = n /\ r.details = handler[h].details
    BY <1>3, <2>1 DEF Record
  <2> HIDE DEF n, r, said
  <2>3. /\ g \in Gate /\ g.word = m.word /\ g.turn = m.turn
        /\ \A l \in Kinds : g.pending[l] = IF l = k THEN r ELSE m.pending[l]
    BY <1>3, <2>1, <2>2 DEF Gate
  <2> HIDE DEF g
  <2>4. said.kind = k /\ said.details = handler[h].details
    BY DEF said
  <2>5. RecordFits(r, k, g, readbacks', agreed)
    BY <1>5, <2>1, <2>2, <2>3, <2>4 DEF RecordFits
  <2>6. ASSUME NEW l \in Kinds, l # k, m.pending[l] # None
        PROVE  RecordFits(m.pending[l], l, g, readbacks', agreed)
    BY <1>2, <1>5, <2>3, <2>6 DEF GateFits, RecordFits
  <2> QED BY <2>3, <2>5, <2>6 DEF CopyFits, GateFits
<1>7. RequestFits(x, readbacks', agreed)
  <2>1. RequestFits(handler[h], readbacks', agreed)
    BY <1>5, Known, RequestStays
  <2> HIDE DEF g
  <2>2. CopyFits(StatePatch(g), readbacks', agreed)
    BY <1>6, PatchFits, GateIsCopy
  <2> QED BY <2>1, <2>2, PersistFits
<1>8. CopyFits(row, readbacks', agreed) /\ DoneFits(done, readbacks', agreed)
  BY <1>5, CopyStays DEF Inv, DoneFits, Covered
<1>9. done \in Done /\ restarts \in Nat
  BY DEF Inv
<1> HIDE DEF x, g
<1> QED BY <1>1, <1>5, <1>6, <1>7, <1>8, <1>9, StepFits

-----------------------------------------------------------------------------
(* The write behind the gate.                                              *)

\* The gate: whoever it lets go on was read back what it does, and a yes came
\* after that.
LEMMA GateChecked ==
  ASSUME Inv, NEW h \in Handlers, NEW p \in Past, CheckGate(h, p),
         handler[h].pc \notin {"idle", "persist"}
  PROVE  Inv'
<1> DEFINE m == OrEmpty(Recalled(h))
           k == handler[h].kind
           d == handler[h].details
           x == [handler[h] EXCEPT !.pc = p, !.seen = None, !.used = m.pending[k].id]
<1>1. GateFits(m, readbacks, agreed) /\ CopyFits(m, readbacks, agreed)
  BY Known, OrEmptyFits, GateIsCopy
<1>2. k \in Kinds
  BY Known DEF RequestFits
<1>3. UNCHANGED <<readbacks, agreed, done, restarts, row>>
  BY DEF CheckGate, talk
<1> HIDE DEF m
<1>4. \/ memory' = Cleared(m, k) /\ Finish(h)
      \/ memory' = Recalled(h) /\ Finish(h)
      \/ Accepts(m, k, d) /\ memory' = Recalled(h) /\ Become(h, x)
  BY DEF CheckGate, m
<1>5. CASE memory' = Cleared(m, k) /\ Finish(h)
  BY <1>1, <1>2, <1>3, <1>5, Known, ClearedFits, FinishFits
<1>6. CASE memory' = Recalled(h) /\ Finish(h)
  BY <1>3, <1>6, Known, FinishFits
<1>7. CASE Accepts(m, k, d) /\ memory' = Recalled(h) /\ Become(h, x)
  <2>1. RecordFits(m.pending[k], k, m, readbacks, agreed) /\ m.pending[k].details = d
        /\ m.pending[k].id \in Nat
    BY <1>1, <1>2, <1>7 DEF GateFits, Accepts, Gate, Record
  <2>2. Covered(m.pending[k].id, k, d, readbacks, agreed)
    BY <1>7, <2>1 DEF RecordFits, Covered, Accepts
  <2>3. p \in Places
    BY DEF Places
  <2>4. /\ x \in Request /\ x.kind = k /\ x.details = d /\ x.seen = None
        /\ x.patch = handler[h].patch /\ x.used = m.pending[k].id /\ x.pc = p
    BY <2>1, <2>3, Known DEF Request
  <2> HIDE DEF x
  <2>5. RequestFits(x, readbacks, agreed)
    BY <1>2, <2>2, <2>4, Known, NoneFits DEF RequestFits
  <2> QED BY <1>3, <1>7, <2>5, Known, QuietStepFits DEF Become
<1> QED BY <1>4, <1>5, <1>6, <1>7

LEMMA LockFits ==
  ASSUME Inv, NEW h \in Handlers, Lock(h)
  PROVE  Inv'
<1>1. /\ UNCHANGED <<readbacks, agreed, done, restarts, row>> /\ handler[h].pc = "lock"
      /\ \/ memory' = memory /\ (GoTo(h, "write") \/ Finish(h))
         \/ memory' = Cleared(memory, handler[h].kind) /\ GoTo(h, "patch")
  BY DEF Lock, talk, At
<1>2. /\ "lock" \in Past /\ {"write", "patch"} \subseteq Places /\ "patch" \notin Past
      /\ "lock" \notin {"idle", "persist"}
  BY DEF Places, Past
<1>3. handler[h].kind \in Kinds
  BY <1>1, Known DEF RequestFits
<1>4. CopyFits(memory', readbacks, agreed)
  BY <1>1, <1>3, Known, ClearedFits
<1> QED BY <1>1, <1>2, <1>4, Known, GoOnFits, FinishFits

LEMMA WriteFits ==
  ASSUME Inv, NEW h \in Handlers, Write(h)
  PROVE  Inv'
<1>1. /\ UNCHANGED <<readbacks, agreed, done, restarts, row, memory>> /\ handler[h].pc = "write"
      /\ GoTo(h, "clear") \/ Finish(h)
  BY DEF Write, talk, At
<1>2. "write" \in Past /\ "clear" \in Places /\ "write" \notin {"idle", "persist"}
  BY DEF Places, Past
<1> QED BY <1>1, <1>2, Known, GoOnFits, FinishFits

LEMMA ClearFits ==
  ASSUME Inv, NEW h \in Handlers, ClearRecord(h)
  PROVE  Inv'
<1>1. /\ UNCHANGED <<readbacks, agreed, done, restarts, row>> /\ handler[h].pc = "clear"
      /\ memory' = Cleared(memory, handler[h].kind) /\ GoTo(h, "commit")
  BY DEF ClearRecord, talk, At
<1>2. "clear" \in Past /\ "commit" \in Places /\ "clear" \notin {"idle", "persist"}
  BY DEF Places, Past
<1>3. handler[h].kind \in Kinds
  BY <1>1, Known DEF RequestFits
<1> QED BY <1>1, <1>2, <1>3, Known, ClearedFits, GoOnFits

LEMMA CommitFits ==
  ASSUME Inv, NEW h \in Handlers, Commit(h)
  PROVE  Inv'
<1> DEFINE x == handler[h]
           did == [readback |-> x.used, kind |-> x.kind, details |-> x.details, life |-> restarts]
<1>1. UNCHANGED <<readbacks, agreed, restarts, memory, row>> /\ x.pc = "commit"
      /\ \/ done' = Append(done, did) /\ GoTo(h, "patch")
         \/ done' = done /\ Finish(h)
  BY DEF Commit, talk, At
<1>2. "commit" \in Past /\ "patch" \in Places \ Past /\ "commit" \notin {"idle", "persist"}
  BY DEF Places, Past
<1>3. CASE done' = done /\ Finish(h)
  BY <1>1, <1>3, Known, FinishFits
<1>4. CASE done' = Append(done, did) /\ GoTo(h, "patch")
  <2>1. Covered(x.used, x.kind, x.details, readbacks, agreed) /\ x.kind \in Kinds
        /\ x.details \in Details \cup {None} /\ x.used \in Nat
    BY <1>1, <1>2, Known DEF RequestFits, Request
  <2>2. did \in [readback : Nat, kind : Kinds, details : Details \cup {None}, life : Nat]
    BY <2>1 DEF Inv
  <2>3. did.readback = x.used /\ did.kind = x.kind /\ did.details = x.details
    OBVIOUS
  <2> HIDE DEF did
  <2>4. /\ done \in Done /\ done' \in Done
        /\ \A i \in DOMAIN done' : (i \in DOMAIN done /\ done'[i] = done[i]) \/ done'[i] = did
    BY <1>4, <2>2 DEF Inv, Done
  <2>5. DoneFits(done', readbacks, agreed)
    BY <2>1, <2>3, <2>4 DEF Inv, DoneFits
  <2>6. RequestFits([handler[h] EXCEPT !.pc = "patch"], readbacks, agreed)
    BY <1>1, <1>2, Known, GoesOn
  <2>7. handler' = [handler EXCEPT ![h] = [handler[h] EXCEPT !.pc = "patch"]]
    BY <1>4 DEF GoTo, Become
  <2>8. readbacks \in Readbacks /\ restarts \in Nat
    BY DEF Inv
  <2> QED BY <1>1, <2>4, <2>5, <2>6, <2>7, <2>8, Known, StepFits
<1> QED BY <1>1, <1>3, <1>4

LEMMA TakePatchFits ==
  ASSUME Inv, NEW h \in Handlers, TakePatch(h)
  PROVE  Inv'
<1>1. /\ UNCHANGED <<readbacks, agreed, done, restarts, memory, row>>
      /\ handler' = [handler EXCEPT ![h] =
           [handler[h] EXCEPT !.pc = "persist", !.patch = StatePatch(memory)]]
  BY DEF TakePatch, talk, Become
<1>2. RequestFits([handler[h] EXCEPT !.pc = "persist", !.patch = StatePatch(memory)],
                  readbacks, agreed)
  BY Known, PatchFits, GateIsCopy, PersistFits
<1> QED BY <1>1, <1>2, Known, QuietStepFits

LEMMA CrashFits == Inv /\ Crash => Inv'
BY IdleFits, NoneFits, AmendmentsAssumption DEF Inv, Crash, talk, RequestFits

LEMMA StepKeepsFits == Inv /\ [Next]_vars => Inv'
<1> SUFFICES ASSUME Inv, [Next]_vars PROVE Inv'
  OBVIOUS
<1>1. ASSUME NEW h \in Handlers, NEW s \in Starts, NEW k \in Kinds,
             NEW d \in Details \cup {None}, Arrive(h, s, k, d)
      PROVE  Inv'
  BY <1>1, ArriveFits
<1>2. ASSUME NEW h \in Handlers, Step(h) PROVE Inv'
  <2>1. CheckFirst(h) => CheckGate(h, "begin") /\ handler[h].pc \notin {"idle", "persist"}
        /\ "begin" \in Past
    BY DEF CheckFirst, At, Past
  <2>2. CheckAgain(h) => CheckGate(h, "lock") /\ handler[h].pc \notin {"idle", "persist"}
        /\ "lock" \in Past
    BY DEF CheckAgain, At, Past
  <2> QED BY <1>2, <2>1, <2>2, ReadRowFits, CallerTurnFits, StopFits, InvalidateFits,
             LookUpFits, AgainFits, ReadBackFits, PersistStepFits, GateChecked, LockFits,
             WriteFits, ClearFits, CommitFits, TakePatchFits
          DEF Step
<1>3. CASE Crash
  BY <1>3, CrashFits
<1>4. CASE UNCHANGED vars
  BY <1>4 DEF vars, Inv
<1> QED BY <1>1, <1>2, <1>3, <1>4 DEF Next

LEMMA AlwaysFits == Spec => []Inv
BY InitFits, StepKeepsFits, PTL DEF Spec

\* Every change and every cancellation that is committed was read back with
\* these details and agreed to on a later turn, whatever requests overlap, fail
\* or are restored from an old copy after a crash.
THEOREM OnlyAsAgreed == Spec => []DoneAsAgreed
<1>1. Inv => DoneAsAgreed
  BY DEF Inv, DoneFits, Covered, DoneAsAgreed
<1> QED BY <1>1, AlwaysFits, PTL

-----------------------------------------------------------------------------
(* The lock of the reservation.                                            *)

Holding == {"write", "clear", "commit"}

\* Whoever holds the lock holds it alone, and read that the reservation stands.
Alone ==
  \A h \in Handlers : handler[h].pc \in Holding =>
    /\ booking.status = "confirmed"
    /\ \A g \in Handlers : handler[g].pc \in Holding => g = h

LockInv == handler \in [Handlers -> Request] /\ Alone

\* Steps that neither take the lock nor write the reservation.
LEMMA NotTaken ==
  ASSUME LockInv, NEW h \in Handlers, NEW x, handler' = [handler EXCEPT ![h] = x],
         x.pc \in Holding => handler[h].pc \in Holding, booking' = booking
  PROVE  Alone'
BY DEF LockInv, Alone

LEMMA Elsewhere ==
  ASSUME LockInv, NEW h \in Handlers, NEW p, p \in Holding => handler[h].pc \in Holding,
         GoTo(h, p), booking' = booking
  PROVE  Alone'
<1>1. [handler[h] EXCEPT !.pc = p].pc = p
  BY DEF LockInv, Request
<1> QED BY <1>1, NotTaken DEF GoTo, Become

LEMMA Finished ==
  ASSUME LockInv, NEW h \in Handlers, Finish(h), booking' = booking
  PROVE  Alone'
<1>1. Idle.pc \notin Holding
  BY DEF Idle, Holding
<1> QED BY <1>1, NotTaken DEF Finish, Become

LEMMA LockKept ==
  ASSUME LockInv, [Next]_vars
  PROVE  Alone' /\ (booking.status = "cancelled" => booking' = booking)
<1>1. ASSUME NEW h \in Handlers, NEW s \in Starts, NEW k \in Kinds,
             NEW d \in Details \cup {None}, Arrive(h, s, k, d)
      PROVE  Alone' /\ booking' = booking
  <2> DEFINE p == IF memory = None /\ ~(k = "cancel" /\ s # "turn") THEN Reading[s] ELSE s
             x == [Idle EXCEPT !.kind = k, !.details = d, !.pc = p]
  <2>1. p \notin Holding /\ x.pc = p
    BY StartPlaces DEF Past, Holding, Idle
  <2>2. handler' = [handler EXCEPT ![h] = x] /\ booking' = booking
    BY <1>1 DEF Arrive, Become
  <2> HIDE DEF x, p
  <2> QED BY <2>1, <2>2, NotTaken
<1>2. ASSUME NEW h \in Handlers, NEW s \in Starts, ReadRow(h, s)
      PROVE  Alone' /\ booking' = booking
  <2>1. PICK r \in {row, None} : Become(h, [handler[h] EXCEPT !.pc = s, !.seen = r])
    BY <1>2 DEF ReadRow
  <2> DEFINE x == [handler[h] EXCEPT !.pc = s, !.seen = r]
  <2>2. x.pc \notin Holding
    BY StartPlaces DEF Past, Holding, LockInv, Request
  <2>3. handler' = [handler EXCEPT ![h] = x] /\ booking' = booking
    BY <1>2, <2>1 DEF Become, ReadRow
  <2> HIDE DEF x
  <2> QED BY <2>2, <2>3, NotTaken
<1>3. ASSUME NEW h \in Handlers, CallerTurn(h) \/ Persist(h)
      PROVE  Alone' /\ booking' = booking
  BY <1>3, Finished DEF CallerTurn, Persist
<1>4. ASSUME NEW h \in Handlers, Invalidate(h) \/ LookUp(h)
      PROVE  Alone' /\ booking' = booking
  BY <1>4, Finished, Elsewhere DEF Invalidate, LookUp, Holding
<1>5. ASSUME NEW h \in Handlers, StopCancellation(h) \/ InvalidateAgain(h) \/ ReadBack(h) \/ TakePatch(h)
      PROVE  Alone' /\ booking' = booking
  <2>1. booking' = booking
    BY <1>5 DEF StopCancellation, InvalidateAgain, ReadBack, TakePatch
  <2>2. ASSUME NEW m, Become(h, [handler[h] EXCEPT !.pc = "persist", !.patch = m])
        PROVE  Alone'
    <3>1. [handler[h] EXCEPT !.pc = "persist", !.patch = m].pc = "persist"
      BY DEF LockInv, Request
    <3> QED BY <2>1, <2>2, <3>1, NotTaken DEF Become, Holding
  <2>3. ASSUME NEW m, Become(h, [Idle EXCEPT !.pc = "persist", !.patch = m])
        PROVE  Alone'
    <3>1. [Idle EXCEPT !.pc = "persist", !.patch = m].pc = "persist"
      BY DEF Idle
    <3> QED BY <2>1, <2>3, <3>1, NotTaken DEF Become, Holding
  <2>4. ASSUME NEW m, NEW u,
               Become(h, [handler[h] EXCEPT !.pc = "invalidate", !.patch = m, !.used = u])
        PROVE  Alone'
    <3>1. [handler[h] EXCEPT !.pc = "invalidate", !.patch = m, !.used = u].pc = "invalidate"
      BY DEF LockInv, Request
    <3> QED BY <2>1, <2>4, <3>1, NotTaken DEF Become, Holding
  <2>5. CASE StopCancellation(h)
    BY <2>4, <2>5 DEF StopCancellation
  <2>6. CASE InvalidateAgain(h)
    BY <2>3, <2>6 DEF InvalidateAgain
  <2>7. CASE ReadBack(h)
    BY <2>2, <2>7 DEF ReadBack
  <2>8. CASE TakePatch(h)
    BY <2>2, <2>8 DEF TakePatch
  <2> QED BY <1>5, <2>1, <2>5, <2>6, <2>7, <2>8
<1>6. ASSUME NEW h \in Handlers, NEW p \in {"begin", "lock"}, CheckGate(h, p)
      PROVE  Alone' /\ booking' = booking
  <2>1. booking' = booking
    BY <1>6 DEF CheckGate
  <2>2. PICK u : Finish(h) \/ Become(h, [handler[h] EXCEPT !.pc = p, !.seen = None, !.used = u])
    BY <1>6 DEF CheckGate
  <2> DEFINE x == [handler[h] EXCEPT !.pc = p, !.seen = None, !.used = u]
  <2>3. x.pc \notin Holding
    BY DEF LockInv, Request, Holding
  <2> HIDE DEF x
  <2>4. CASE Become(h, x)
    BY <2>1, <2>3, <2>4, NotTaken DEF Become
  <2> QED BY <2>1, <2>2, <2>4, Finished DEF x
<1>7. ASSUME NEW h \in Handlers, Lock(h)
      PROVE  Alone' /\ booking' = booking
  <2>1. booking' = booking
    BY <1>7 DEF Lock
  <2>2. CASE booking.status = "confirmed" /\ GoTo(h, "write")
    <3>1. \A g \in Handlers : handler[g].pc \notin Holding
      BY <1>7 DEF Lock, Locked, Holding
    <3>2. \A g \in Handlers : g # h => handler'[g] = handler[g]
      BY <2>2 DEF GoTo, Become, LockInv
    <3> QED BY <2>1, <2>2, <3>1, <3>2 DEF Alone
  <2>3. CASE Finish(h) \/ GoTo(h, "patch")
    BY <2>1, <2>3, Finished, Elsewhere DEF Holding
  <2> QED BY <1>7, <2>1, <2>2, <2>3 DEF Lock
<1>8. ASSUME NEW h \in Handlers, Write(h) \/ ClearRecord(h)
      PROVE  Alone' /\ booking' = booking
  BY <1>8, Finished, Elsewhere DEF Write, ClearRecord, Holding, At
<1>9. ASSUME NEW h \in Handlers, Commit(h)
      PROVE  Alone' /\ booking.status = "confirmed"
  <2>1. handler[h].pc \in Holding /\ booking.status = "confirmed"
    BY <1>9 DEF Commit, At, Holding, LockInv, Alone
  <2>2. CASE GoTo(h, "patch")
    <3>1. handler'[h].pc = "patch"
      BY <2>2 DEF GoTo, Become, LockInv, Request
    <3>2. \A g \in Handlers : g # h => handler'[g] = handler[g]
      BY <2>2 DEF GoTo, Become, LockInv
    <3> QED BY <2>1, <3>1, <3>2 DEF LockInv, Alone, Holding
  <2>3. CASE Finish(h) /\ booking' = booking
    BY <2>1, <2>3, Finished
  <2> QED BY <1>9, <2>1, <2>2, <2>3 DEF Commit
<1>10. CASE Crash
  BY <1>10 DEF Crash, Alone, Idle, Holding
<1>11. CASE UNCHANGED vars
  BY <1>11 DEF vars, LockInv, Alone
<1>12. ASSUME NEW h \in Handlers, Step(h)
       PROVE  Alone' /\ (booking.status = "cancelled" => booking' = booking)
  BY <1>12, <1>2, <1>3, <1>4, <1>5, <1>6, <1>7, <1>8, <1>9 DEF Step, CheckFirst, CheckAgain
<1> QED BY <1>1, <1>10, <1>11, <1>12 DEF Next, Crash

LEMMA AlwaysAlone == Spec => []Alone
<1>1. Init => Alone
  BY DEF Init, Alone, Idle, Holding
<1>2. Inv /\ Alone /\ [Next]_vars => Alone'
  BY LockKept DEF Inv, LockInv
<1> QED BY <1>1, <1>2, AlwaysFits, PTL DEF Spec

\* A cancelled reservation stays as it is, whatever change was already past the
\* gate when it was cancelled, because a change reads the status under the lock.
THEOREM CancelledForGood == Spec => CancelledIsFinal
<1>1. Inv /\ Alone /\ [Next]_vars => [booking.status = "cancelled" => booking' = booking]_vars
  BY LockKept DEF Inv, LockInv
<1> QED BY <1>1, AlwaysFits, AlwaysAlone, PTL DEF Spec, CancelledIsFinal

-----------------------------------------------------------------------------
(* What was taken back stays undone.  The record of a cancellation is never  *)
(* durable, so one that memory holds was read back by this process.  While   *)
(* requests come one at a time, no record or request is left of a            *)
(* cancellation of which the caller was told that it was stopped.            *)

\* Of which the caller was told; once requests have overlapped, nothing is said.
Told == IF overlapped THEN {} ELSE stopped

Current(id, rs, life, told) == id \in DOMAIN rs /\ rs[id].life = life /\ id \notin told

GateStands(g, rs, life, told) ==
  g.pending["cancel"] # None => Current(g.pending["cancel"].id, rs, life, told)
Standing(m, rs, life, told) == m # None => GateStands(m, rs, life, told)

Durable(m) == m # None => m.pending["cancel"] = None

Holds(x, m, rs, life, told, ov) ==
  /\ Durable(x.seen) /\ Durable(x.patch)
  /\ x.pc \in Past /\ x.kind = "cancel" => Current(x.used, rs, life, told)
  /\ x.pc \in {"invalidate", "lookup"} => x.used \in DOMAIN rs /\ (ov \/ Durable(m))

DoneStands(dn, b, rs, told) ==
  \A i \in DOMAIN dn : dn[i].kind = "cancel" =>
    b.status = "cancelled" /\ Current(dn[i].readback, rs, dn[i].life, told)

StandInv ==
  /\ booking \in [status : {"confirmed", "cancelled"}, details : Details \cup {Original, None}]
  /\ stopped \subseteq DOMAIN readbacks
  /\ Durable(row) /\ Standing(memory, readbacks, restarts, Told)
  /\ \A h \in Handlers : Holds(handler[h], memory, readbacks, restarts, Told, overlapped)
  /\ DoneStands(done, booking, readbacks, Told)
  /\ ~overlapped => ~Overlap

\* The history variable of a step.
Noted == overlapped' = (overlapped \/ Overlap')

LEMMA IdleHolds == \A m, rs, life, told, ov : Holds(Idle, m, rs, life, told, ov)
BY DEF Holds, Idle, Durable, Past

\* What is said of a record says less when fewer were stopped.
LEMMA HoldsLess ==
  ASSUME NEW rs, NEW life, NEW told, NEW told2, told2 \subseteq told
  PROVE  /\ \A m : Standing(m, rs, life, told) => Standing(m, rs, life, told2)
         /\ \A dn, b : DoneStands(dn, b, rs, told) => DoneStands(dn, b, rs, told2)
         /\ \A x, m, ov, ov2 : Holds(x, m, rs, life, told, ov) /\ (ov => ov2)
                                 => Holds(x, m, rs, life, told2, ov2)
BY DEF Standing, GateStands, DoneStands, Holds, Current

\* A step keeps the invariant if all that it writes does: either requests have
\* overlapped, or the others are idle.
LEMMA StandStep ==
  ASSUME Inv, StandInv, Noted, NEW h \in Handlers, NEW x,
         handler' = [handler EXCEPT ![h] = x],
         handler[h].pc # "idle" \/ x.pc # "idle", restarts' = restarts,
         \A i \in DOMAIN readbacks : i \in DOMAIN readbacks' /\ readbacks'[i] = readbacks[i],
         booking' \in [status : {"confirmed", "cancelled"}, details : Details \cup {Original, None}],
         stopped' \subseteq DOMAIN readbacks',
         Durable(row'), Standing(memory', readbacks', restarts, Told'),
         Holds(x, memory', readbacks', restarts, Told', overlapped'),
         DoneStands(done', booking', readbacks', Told')
  PROVE  StandInv'
<1>1. handler \in [Handlers -> Request]
  BY DEF Inv
<1>2. ~overlapped' => ~Overlap'
  BY DEF Noted
<1>3. ASSUME NEW g \in Handlers, g # h
      PROVE  Holds(handler'[g], memory', readbacks', restarts, Told', overlapped')
  <2>1. handler'[g] = handler[g] /\ handler'[h] = x
    BY <1>1, <1>3
  <2>2. Holds(handler[g], memory, readbacks, restarts, Told, overlapped)
    BY DEF StandInv
  <2>3. CASE overlapped'
    BY <2>1, <2>2, <2>3 DEF Holds, Current, Told
  <2>4. CASE ~overlapped'
    <3>1. ~overlapped /\ ~Overlap /\ ~Overlap'
      BY <1>2, <2>4 DEF Noted, StandInv
    <3>2. handler'[g].pc = "idle"
      BY <1>3, <2>1, <3>1 DEF Overlap
    <3> QED BY <2>1, <2>2, <3>2 DEF Holds, Past
  <2> QED BY <2>3, <2>4
<1>4. handler'[h] = x
  BY <1>1
<1>5. \A g \in Handlers : Holds(handler'[g], memory', readbacks', restarts', Told', overlapped')
  BY <1>3, <1>4
<1> QED BY <1>2, <1>5 DEF StandInv

\* A step that says nothing to the caller and commits nothing.
LEMMA QuietStand ==
  ASSUME Inv, StandInv, Noted, NEW h \in Handlers, NEW x,
         handler' = [handler EXCEPT ![h] = x],
         handler[h].pc # "idle" \/ x.pc # "idle",
         UNCHANGED <<restarts, readbacks, stopped, done, booking>>,
         Durable(row'), Standing(memory', readbacks, restarts, Told),
         Holds(x, memory', readbacks, restarts, Told, overlapped)
  PROVE  StandInv'
<1>1. Told' \subseteq Told /\ (overlapped => overlapped')
  BY DEF Told, Noted
<1>2. /\ Standing(memory', readbacks, restarts, Told')
      /\ Holds(x, memory', readbacks, restarts, Told', overlapped')
      /\ DoneStands(done, booking, readbacks, Told')
  BY <1>1, HoldsLess DEF StandInv
<1>3. /\ booking \in [status : {"confirmed", "cancelled"}, details : Details \cup {Original, None}]
      /\ stopped \subseteq DOMAIN readbacks
  BY DEF StandInv
<1> QED BY <1>2, <1>3, StandStep

\* Of the copies of the gate.
LEMMA CopiesStand ==
  ASSUME NEW m, NEW rs, NEW ag, NEW life, NEW told,
         CopyFits(m, rs, ag), Standing(m, rs, life, told)
  PROVE  /\ GateStands(OrEmpty(m), rs, life, told)
         /\ \A k \in Kinds : Standing(Cleared(m, k), rs, life, told)
         /\ Durable(Cleared(m, "cancel")) /\ Durable(StatePatch(m))
         /\ \A w \in Words : GateStands(Spoken(m, w), rs, life, told)
<1>0. "cancel" \in Kinds
  BY DEF Kinds
<1>1. GateStands(OrEmpty(m), rs, life, told)
  <2>1. NoGate.pending["cancel"] = None
    BY <1>0 DEF NoGate
  <2> QED BY <2>1 DEF OrEmpty, Standing, GateStands
<1> DEFINE g == OrEmpty(m)
<1>2. g \in Gate
  BY OrEmptyFits DEF GateFits
<1>3. ASSUME NEW k \in Kinds PROVE Standing(Cleared(m, k), rs, life, told)
  <2>1. CASE m = None \/ m.pending[k] = None
    BY <2>1 DEF Cleared
  <2>2. CASE m # None /\ m.pending[k] # None
    <3>1. m \in Gate /\ Cleared(m, k) = [m EXCEPT !.pending[k] = None]
      BY <2>2 DEF CopyFits, GateFits, Cleared
    <3>2. Cleared(m, k).pending["cancel"] \in {None, m.pending["cancel"]}
      BY <1>0, <3>1 DEF Gate
    <3>3. m.pending["cancel"] # None => Current(m.pending["cancel"].id, rs, life, told)
      BY <2>2 DEF Standing, GateStands
    <3> QED BY <3>2, <3>3 DEF Standing, GateStands
  <2> QED BY <2>1, <2>2
<1>4. Durable(Cleared(m, "cancel"))
  <2>1. CASE m = None \/ m.pending["cancel"] = None
    BY <2>1 DEF Cleared, Durable
  <2>2. CASE m # None /\ m.pending["cancel"] # None
    <3>1. m \in Gate /\ Cleared(m, "cancel") = [m EXCEPT !.pending["cancel"] = None]
      BY <2>2 DEF CopyFits, GateFits, Cleared
    <3> QED BY <1>0, <3>1 DEF Gate, Durable
  <2> QED BY <2>1, <2>2
<1>5. Durable(StatePatch(m))
  <2>1. StatePatch(m) = [g EXCEPT !.pending["cancel"] = None]
    BY DEF StatePatch
  <2> HIDE DEF g
  <2> QED BY <1>0, <1>2, <2>1 DEF Gate, Durable
<1>6. ASSUME NEW w \in Words PROVE GateStands(Spoken(m, w), rs, life, told)
  <2>1. Spoken(m, w) = [g EXCEPT !.turn = g.turn + 1, !.word = w] /\ GateStands(g, rs, life, told)
    BY <1>1 DEF Spoken
  <2> HIDE DEF g
  <2>2. Spoken(m, w).pending = g.pending
    BY <1>2, <2>1 DEF Gate
  <2> QED BY <2>1, <2>2 DEF GateStands
<1> QED BY <1>1, <1>3, <1>4, <1>5, <1>6

\* Of what a request knows.
LEMMA StandHere ==
  ASSUME Inv, StandInv, NEW h \in Handlers
  PROVE  /\ Holds(handler[h], memory, readbacks, restarts, Told, overlapped)
         /\ handler[h] \in Request /\ Durable(row)
         /\ CopyFits(memory, readbacks, agreed)
         /\ Standing(memory, readbacks, restarts, Told)
         /\ CopyFits(Recalled(h), readbacks, agreed)
         /\ Standing(Recalled(h), readbacks, restarts, Told)
         /\ GateFits(OrEmpty(Recalled(h)), readbacks, agreed)
         /\ GateStands(OrEmpty(Recalled(h)), readbacks, restarts, Told)
<1>1. /\ Holds(handler[h], memory, readbacks, restarts, Told, overlapped)
      /\ Standing(memory, readbacks, restarts, Told) /\ Durable(row)
  BY DEF StandInv
<1>2. Standing(Recalled(h), readbacks, restarts, Told)
  BY <1>1 DEF Recalled, Holds, Durable, Standing, GateStands
<1>3. CopyFits(Recalled(h), readbacks, agreed)
  BY Known
<1> QED BY <1>1, <1>2, <1>3, Known, CopiesStand, OrEmptyFits

\* Steps of a request that ends, goes on, or goes on to save a patch.
LEMMA FinishStands ==
  ASSUME Inv, StandInv, Noted, NEW h \in Handlers, Finish(h), handler[h].pc # "idle",
         UNCHANGED <<restarts, readbacks, stopped, done, booking>>,
         Durable(row'), Standing(memory', readbacks, restarts, Told)
  PROVE  StandInv'
BY IdleHolds, QuietStand DEF Finish, Become

LEMMA GoOnStands ==
  ASSUME Inv, StandInv, Noted, NEW h \in Handlers, NEW p, GoTo(h, p), handler[h].pc # "idle",
         p \in Past => handler[h].pc \in Past,
         p \in {"invalidate", "lookup"} =>
           handler[h].used \in DOMAIN readbacks /\ (overlapped \/ Durable(memory')),
         UNCHANGED <<restarts, readbacks, stopped, done, booking>>,
         Durable(row'), Standing(memory', readbacks, restarts, Told)
  PROVE  StandInv'
<1> DEFINE x == [handler[h] EXCEPT !.pc = p]
<1>1. /\ x.pc = p /\ x.kind = handler[h].kind /\ x.used = handler[h].used
      /\ x.seen = handler[h].seen /\ x.patch = handler[h].patch
  BY StandHere DEF Request
<1>2. handler' = [handler EXCEPT ![h] = x]
  BY DEF GoTo, Become
<1> HIDE DEF x
<1>3. Holds(x, memory', readbacks, restarts, Told, overlapped)
  BY <1>1, StandHere DEF Holds
<1> QED BY <1>2, <1>3, QuietStand

LEMMA SaveStands ==
  ASSUME Inv, StandInv, Noted, NEW h \in Handlers, NEW p, Durable(p), handler[h].pc # "idle",
         Become(h, [handler[h] EXCEPT !.pc = "persist", !.patch = p]),
         UNCHANGED <<restarts, readbacks, stopped, done, booking>>,
         Durable(row'), Standing(memory', readbacks, restarts, Told)
  PROVE  StandInv'
<1> DEFINE x == [handler[h] EXCEPT !.pc = "persist", !.patch = p]
<1>1. x.pc = "persist" /\ x.seen = handler[h].seen /\ x.patch = p
  BY StandHere DEF Request
<1>2. handler' = [handler EXCEPT ![h] = x]
  BY DEF Become
<1> HIDE DEF x
<1>3. Holds(x, memory', readbacks, restarts, Told, overlapped)
  BY <1>1, StandHere DEF Holds, Past
<1> QED BY <1>2, <1>3, QuietStand

LEMMA ArriveStands ==
  ASSUME Inv, StandInv, Noted, NEW h \in Handlers, NEW s \in Starts, NEW k \in Kinds,
         NEW d \in Details \cup {None}, Arrive(h, s, k, d)
  PROVE  StandInv'
<1> DEFINE p == IF memory = None /\ ~(k = "cancel" /\ s # "turn") THEN Reading[s] ELSE s
           x == [Idle EXCEPT !.kind = k, !.details = d, !.pc = p]
<1>1. p \notin Past \cup {"idle", "invalidate", "lookup"}
  <2>1. s = "turn" \/ s = "readback" \/ s = "confirm"
    BY DEF Starts
  <2>2. /\ Reading["turn"] = "read for turn" /\ Reading["readback"] = "read for readback"
        /\ Reading["confirm"] = "read for confirm"
    BY DEF Reading
  <2>3. p \in {s, Reading[s]}
    OBVIOUS
  <2> HIDE DEF p
  <2> QED BY <2>1, <2>2, <2>3 DEF Past
<1>2. handler' = [handler EXCEPT ![h] = x]
  BY DEF Arrive, Become
<1> HIDE DEF p
<1>3. x.pc = p /\ x.seen = None /\ x.patch = None
  BY DEF Idle
<1> HIDE DEF x
<1>4. Holds(x, memory, readbacks, restarts, Told, overlapped) /\ x.pc # "idle"
  BY <1>1, <1>3 DEF Holds, Durable
<1>5. UNCHANGED <<restarts, readbacks, stopped, done, booking, memory, row>>
  BY DEF Arrive, talk
<1> QED BY <1>2, <1>4, <1>5, StandHere, QuietStand

LEMMA ReadRowStands ==
  ASSUME Inv, StandInv, Noted, NEW h \in Handlers, NEW s \in Starts, ReadRow(h, s)
  PROVE  StandInv'
<1>1. PICK r \in {row, None} : Become(h, [handler[h] EXCEPT !.pc = s, !.seen = r])
  BY DEF ReadRow
<1> DEFINE x == [handler[h] EXCEPT !.pc = s, !.seen = r]
<1>2. s \notin Past \cup {"idle", "invalidate", "lookup"}
  BY DEF Starts, Past
<1>3. x.pc = s /\ x.seen = r /\ x.patch = handler[h].patch
  BY StandHere DEF Request
<1>4. handler' = [handler EXCEPT ![h] = x]
  BY <1>1 DEF Become
<1> HIDE DEF x
<1>5. Holds(x, memory, readbacks, restarts, Told, overlapped) /\ x.pc # "idle"
  BY <1>2, <1>3, StandHere DEF Holds, Durable
<1>6. UNCHANGED <<restarts, readbacks, stopped, done, booking, memory, row>>
  BY DEF ReadRow, talk
<1> QED BY <1>4, <1>5, <1>6, StandHere, QuietStand

LEMMA CallerTurnStands ==
  ASSUME Inv, StandInv, Noted, NEW h \in Handlers, CallerTurn(h)
  PROVE  StandInv'
<1> DEFINE m == OrEmpty(Recalled(h))
<1>1. PICK w \in Words : memory' = Spoken(m, w)
  BY DEF CallerTurn
<1>2. /\ Finish(h) /\ handler[h].pc # "idle"
      /\ UNCHANGED <<restarts, readbacks, stopped, done, booking, row>>
  BY DEF CallerTurn, At
<1>3. CopyFits(m, readbacks, agreed) /\ Standing(m, readbacks, restarts, Told)
  BY StandHere, GateIsCopy DEF Standing
<1> HIDE DEF m
<1>4. Standing(memory', readbacks, restarts, Told)
  BY <1>1, <1>3, CopiesStand DEF Standing
<1> QED BY <1>2, <1>4, StandHere, FinishStands

\* The record is cleared in memory before anything else is done.
LEMMA StopStands ==
  ASSUME Inv, StandInv, Noted, NEW h \in Handlers, StopCancellation(h)
  PROVE  StandInv'
<1> DEFINE m == OrEmpty(Recalled(h))
           spoken == Spoken(m, "negative")
           c == Cleared(spoken, "cancel")
           x == [handler[h] EXCEPT !.pc = "invalidate", !.patch = StatePatch(c),
                                   !.used = m.pending["cancel"].id]
<1>1. memory' = c /\ handler' = [handler EXCEPT ![h] = x] /\ handler[h].pc = "turn"
      /\ m.pending["cancel"] # None
      /\ UNCHANGED <<restarts, readbacks, stopped, done, booking, row>>
  BY DEF StopCancellation, Become, At, talk
<1>2. "negative" \in Words /\ "cancel" \in Kinds
  BY DEF Words, Kinds
<1>3. CopyFits(m, readbacks, agreed) /\ Standing(m, readbacks, restarts, Told)
      /\ GateStands(m, readbacks, restarts, Told)
  BY StandHere, GateIsCopy DEF Standing
<1> HIDE DEF m
<1>4. Standing(spoken, readbacks, restarts, Told) /\ CopyFits(c, readbacks, agreed)
  BY <1>2, <1>3, CopiesStand, StoppedFits DEF Standing
<1>5. CopyFits(spoken, readbacks, agreed \cup DOMAIN readbacks)
  BY <1>2, <1>3, SpokenFits, GateIsCopy, CopyStays
<1> HIDE DEF spoken
<1>6. Standing(c, readbacks, restarts, Told) /\ Durable(c)
  BY <1>2, <1>4, <1>5, CopiesStand
<1> HIDE DEF c
<1>7. Durable(StatePatch(c))
  BY <1>4, <1>6, CopiesStand
<1>8. m.pending["cancel"].id \in DOMAIN readbacks
  BY <1>1, <1>3 DEF GateStands, Current
<1>9. /\ x.pc = "invalidate" /\ x.patch = StatePatch(c) /\ x.used = m.pending["cancel"].id
      /\ x.seen = handler[h].seen
  BY StandHere DEF Request
<1> HIDE DEF x
<1>10. Holds(x, memory', readbacks, restarts, Told, overlapped)
  BY <1>1, <1>6, <1>7, <1>8, <1>9, StandHere DEF Holds, Past
<1> QED BY <1>1, <1>6, <1>10, StandHere, QuietStand

LEMMA InvalidateStands ==
  ASSUME Inv, StandInv, Noted, NEW h \in Handlers, Invalidate(h)
  PROVE  StandInv'
<1>1. /\ UNCHANGED <<restarts, readbacks, stopped, done, booking, memory>>
      /\ handler[h].pc = "invalidate" /\ row' \in {row, handler[h].patch}
      /\ GoTo(h, "lookup") \/ GoTo(h, "again")
  BY DEF Invalidate, talk, At
<1>2. /\ Durable(row') /\ handler[h].used \in DOMAIN readbacks
      /\ overlapped \/ Durable(memory')
  BY <1>1, StandHere DEF Holds
<1>3. "lookup" \notin Past /\ "again" \notin Past
  BY DEF Past
<1> QED BY <1>1, <1>2, <1>3, StandHere, GoOnStands

\* The caller is told only when the reservation is not cancelled, so that no
\* cancellation has been carried out; and if no requests overlap, none is about
\* to be and no record of one is left.
LEMMA LookUpStands ==
  ASSUME Inv, StandInv, Noted, NEW h \in Handlers, LookUp(h)
  PROVE  StandInv'
<1>1. /\ UNCHANGED <<restarts, readbacks, done, booking, memory, row>>
      /\ handler[h].pc = "lookup"
      /\ \/ /\ stopped' = IF booking.status = "cancelled" THEN stopped
                          ELSE stopped \cup {handler[h].used}
           /\ Finish(h)
         \/ GoTo(h, "again") /\ stopped' = stopped
  BY DEF LookUp, At
<1>2. handler[h].used \in DOMAIN readbacks /\ (overlapped \/ Durable(memory))
  BY <1>1, StandHere DEF Holds
<1>3. CASE GoTo(h, "again") /\ stopped' = stopped
  BY <1>1, <1>3, StandHere, GoOnStands DEF Past
<1>4. CASE booking.status = "cancelled" /\ stopped' = stopped /\ Finish(h)
  BY <1>1, <1>4, StandHere, FinishStands
<1>5. CASE /\ booking.status # "cancelled" /\ stopped' = stopped \cup {handler[h].used}
           /\ Finish(h)
  <2>1. stopped' \subseteq DOMAIN readbacks'
    BY <1>1, <1>2, <1>5 DEF StandInv
  <2>2. Standing(memory', readbacks', restarts, Told')
    <3>1. CASE overlapped'
      BY <1>1, <3>1, StandHere DEF Standing, GateStands, Current, Told
    <3>2. CASE ~overlapped'
      BY <1>1, <1>2, <3>2 DEF Noted, Durable, Standing, GateStands
    <3> QED BY <3>1, <3>2
  <2>3. DoneStands(done', booking', readbacks', Told')
    BY <1>1, <1>5 DEF StandInv, DoneStands
  <2>4. \A i \in DOMAIN readbacks : i \in DOMAIN readbacks' /\ readbacks'[i] = readbacks[i]
    BY <1>1
  <2>5. booking' \in [status : {"confirmed", "cancelled"}, details : Details \cup {Original, None}]
    BY <1>1 DEF StandInv
  <2>6. handler' = [handler EXCEPT ![h] = Idle]
    BY <1>5 DEF Finish, Become
  <2>7. Durable(row')
    BY <1>1, StandHere
  <2> QED BY <1>1, <2>1, <2>2, <2>3, <2>4, <2>5, <2>6, <2>7, IdleHolds, StandStep
<1> QED BY <1>1, <1>3, <1>4, <1>5

LEMMA AgainStands ==
  ASSUME Inv, StandInv, Noted, NEW h \in Handlers, InvalidateAgain(h)
  PROVE  StandInv'
<1> DEFINE c == Cleared(memory, "cancel")
           x == [Idle EXCEPT !.pc = "persist", !.patch = StatePatch(c)]
<1>1. /\ UNCHANGED <<restarts, readbacks, stopped, done, booking, row>>
      /\ handler[h].pc # "idle" /\ memory' = c /\ handler' = [handler EXCEPT ![h] = x]
  BY DEF InvalidateAgain, talk, Become, At
<1>2. "cancel" \in Kinds
  BY DEF Kinds
<1>3. Standing(c, readbacks, restarts, Told) /\ CopyFits(c, readbacks, agreed)
  BY <1>2, StandHere, CopiesStand, ClearedFits
<1> HIDE DEF c
<1>4. Durable(StatePatch(c))
  BY <1>3, CopiesStand
<1>5. x.pc = "persist" /\ x.seen = None /\ x.patch = StatePatch(c)
  BY DEF Idle
<1> HIDE DEF x
<1>6. Holds(x, memory', readbacks, restarts, Told, overlapped)
  BY <1>4, <1>5 DEF Holds, Durable, Past
<1> QED BY <1>1, <1>3, <1>6, StandHere, QuietStand

LEMMA PersistStands ==
  ASSUME Inv, StandInv, Noted, NEW h \in Handlers, Persist(h)
  PROVE  StandInv'
<1>1. /\ UNCHANGED <<restarts, readbacks, stopped, done, booking, memory>>
      /\ handler[h].pc # "idle" /\ row' \in {row, handler[h].patch} /\ Finish(h)
  BY DEF Persist, talk, At
<1>2. Durable(row')
  BY <1>1, StandHere DEF Holds
<1> QED BY <1>1, <1>2, StandHere, FinishStands

\* A new readback has a number of its own, which nobody was told was stopped.
LEMMA ReadBackStands ==
  ASSUME Inv, StandInv, Noted, NEW h \in Handlers, ReadBack(h)
  PROVE  StandInv'
<1> DEFINE m == OrEmpty(Recalled(h))
           k == handler[h].kind
           n == Len(readbacks) + 1
           r == [details |-> handler[h].details, turn |-> m.turn, id |-> n]
           g == [m EXCEPT !.pending[k] = r]
           said == [kind |-> k, details |-> handler[h].details, life |-> restarts]
           x == [handler[h] EXCEPT !.pc = "persist", !.patch = StatePatch(g)]
<1>1. /\ readbacks' = Append(readbacks, said) /\ memory' = g
      /\ handler' = [handler EXCEPT ![h] = x] /\ handler[h].pc = "readback"
      /\ UNCHANGED <<row, restarts, stopped, done, booking>>
  BY DEF ReadBack, Become, At
<1>2. /\ m \in Gate /\ GateStands(m, readbacks, restarts, Told) /\ k \in Kinds
      /\ "cancel" \in Kinds
  BY <1>1, StandHere, Known DEF GateFits, RequestFits, Kinds
<1>3. said.life = restarts
  OBVIOUS
<1> HIDE DEF m, said
<1>4. /\ n \in DOMAIN readbacks' /\ readbacks'[n] = said /\ n \notin DOMAIN readbacks
      /\ \A i \in DOMAIN readbacks : i \in DOMAIN readbacks' /\ readbacks'[i] = readbacks[i]
  <2>1. readbacks \in Readbacks
    BY DEF Inv
  <2> QED BY <1>1, <2>1 DEF Readbacks
<1>5. Told' \subseteq Told /\ Told \subseteq DOMAIN readbacks
  BY <1>1 DEF Told, Noted, StandInv
<1>6. Current(n, readbacks', restarts, Told')
  BY <1>3, <1>4, <1>5 DEF Current
<1>7. ASSUME NEW i, NEW life, Current(i, readbacks, life, Told)
      PROVE  Current(i, readbacks', life, Told')
  BY <1>4, <1>5, <1>7 DEF Current
<1>8. GateStands(g, readbacks', restarts, Told') /\ CopyFits(g, readbacks', agreed')
  <2>1. g.pending["cancel"] \in {r, m.pending["cancel"]} /\ r.id = n
    <3>1. r.id = n
      OBVIOUS
    <3> HIDE DEF r
    <3> QED BY <1>2, <3>1 DEF Gate
  <2>2. Inv'
    BY ReadBackFits
  <2>3. CopyFits(g, readbacks', agreed')
    BY <1>1, <2>2 DEF Inv
  <2> HIDE DEF g, r
  <2> QED BY <1>2, <1>6, <1>7, <2>1, <2>3 DEF GateStands
<1> HIDE DEF g
<1>9. Standing(memory', readbacks', restarts, Told') /\ Durable(StatePatch(g))
  BY <1>1, <1>8, CopiesStand DEF Standing
<1>10. x.pc = "persist" /\ x.seen = handler[h].seen /\ x.patch = StatePatch(g)
  BY StandHere DEF Request
<1> HIDE DEF x
<1>11. Holds(x, memory', readbacks', restarts, Told', overlapped')
  BY <1>9, <1>10, StandHere DEF Holds, Past
<1>12. DoneStands(done', booking', readbacks', Told')
  BY <1>1, <1>7 DEF StandInv, DoneStands
<1>13. /\ stopped' \subseteq DOMAIN readbacks' /\ Durable(row')
       /\ booking' \in [status : {"confirmed", "cancelled"}, details : Details \cup {Original, None}]
  BY <1>1, <1>4 DEF StandInv
<1> QED BY <1>1, <1>4, <1>9, <1>11, <1>12, <1>13, StandStep

\* A restored gate has no record of a cancellation, so the gate lets one go on
\* only with the record of memory.
LEMMA GateCheckedStands ==
  ASSUME Inv, StandInv, Noted, NEW h \in Handlers, NEW p \in {"begin", "lock"},
         CheckGate(h, p), handler[h].pc # "idle", handler[h].kind \in Kinds
  PROVE  StandInv'
<1> DEFINE m == OrEmpty(Recalled(h))
           k == handler[h].kind
           x == [handler[h] EXCEPT !.pc = p, !.seen = None, !.used = m.pending[k].id]
<1>1. UNCHANGED <<restarts, readbacks, stopped, done, booking, row>>
  BY DEF CheckGate, talk
<1>2. /\ CopyFits(m, readbacks, agreed) /\ GateStands(m, readbacks, restarts, Told)
      /\ Standing(m, readbacks, restarts, Told)
  BY StandHere, GateIsCopy DEF Standing
<1> HIDE DEF m
<1>3. \/ memory' = Cleared(m, k) /\ Finish(h)
      \/ memory' = Recalled(h) /\ Finish(h)
      \/ m.pending[k] # None /\ memory' = Recalled(h) /\ handler' = [handler EXCEPT ![h] = x]
  BY DEF CheckGate, m, Accepts, Become
<1>4. Standing(memory', readbacks, restarts, Told)
  BY <1>2, <1>3, StandHere, CopiesStand
<1>5. CASE Finish(h)
  BY <1>1, <1>4, <1>5, StandHere, FinishStands
<1>6. CASE m.pending[k] # None /\ handler' = [handler EXCEPT ![h] = x]
  <2>1. /\ x.pc = p /\ x.seen = None /\ x.patch = handler[h].patch /\ x.kind = k
        /\ x.used = m.pending[k].id
    BY StandHere DEF Request
  <2>2. k = "cancel" => Current(m.pending[k].id, readbacks, restarts, Told)
    BY <1>2, <1>6 DEF GateStands
  <2> HIDE DEF x
  <2>3. Holds(x, memory', readbacks, restarts, Told, overlapped)
    BY <2>1, <2>2, StandHere DEF Holds, Durable
  <2> QED BY <1>1, <1>4, <1>6, <2>3, StandHere, QuietStand
<1> QED BY <1>3, <1>5, <1>6

LEMMA LockedStands ==
  ASSUME Inv, StandInv, Noted, NEW h \in Handlers,
         Lock(h) \/ Write(h) \/ ClearRecord(h)
  PROVE  StandInv'
<1>1. /\ UNCHANGED <<restarts, readbacks, stopped, done, booking, row>>
      /\ handler[h].pc \in {"lock", "write", "clear"}
      /\ memory' = memory \/ memory' = Cleared(memory, handler[h].kind)
      /\ Finish(h) \/ \E p \in {"write", "clear", "commit", "patch"} : GoTo(h, p)
  BY DEF Lock, Write, ClearRecord, talk, At
<1>2. handler[h].kind \in Kinds
  BY <1>1, Known DEF RequestFits
<1>3. Standing(memory', readbacks, restarts, Told)
  BY <1>1, <1>2, StandHere, CopiesStand
<1>4. CASE Finish(h)
  BY <1>1, <1>3, <1>4, StandHere, FinishStands
<1>5. ASSUME NEW p \in {"write", "clear", "commit", "patch"}, GoTo(h, p)
      PROVE  StandInv'
  <2>1. handler[h].pc \in Past
    BY <1>1 DEF Past
  <2> QED BY <1>1, <1>3, <1>5, <2>1, StandHere, GoOnStands
<1> QED BY <1>1, <1>4, <1>5

\* A cancellation that commits still stands: its request held a current readback.
LEMMA CommitStands ==
  ASSUME Inv, StandInv, Noted, NEW h \in Handlers, Commit(h)
  PROVE  StandInv'
<1> DEFINE x == handler[h]
           did == [readback |-> x.used, kind |-> x.kind, details |-> x.details, life |-> restarts]
<1>1. /\ UNCHANGED <<readbacks, stopped, restarts, memory, row>> /\ x.pc = "commit"
      /\ \/ /\ booking' = IF x.kind = "cancel" THEN [booking EXCEPT !.status = "cancelled"]
                          ELSE [booking EXCEPT !.details = x.details]
           /\ done' = Append(done, did) /\ GoTo(h, "patch")
         \/ booking' = booking /\ done' = done /\ Finish(h)
  BY DEF Commit, talk, At
<1>2. CASE booking' = booking /\ done' = done /\ Finish(h)
  BY <1>1, <1>2, StandHere, FinishStands
<1>3. CASE /\ booking' = IF x.kind = "cancel" THEN [booking EXCEPT !.status = "cancelled"]
                          ELSE [booking EXCEPT !.details = x.details]
           /\ done' = Append(done, did) /\ GoTo(h, "patch")
  <2>1. /\ booking \in [status : {"confirmed", "cancelled"}, details : Details \cup {Original, None}]
        /\ x.details \in Details \cup {None}
    BY StandHere DEF StandInv, Request
  <2>2. /\ booking' \in [status : {"confirmed", "cancelled"}, details : Details \cup {Original, None}]
        /\ x.kind = "cancel" => booking'.status = "cancelled"
        /\ booking.status = "cancelled" => booking'.status = "cancelled"
    BY <1>3, <2>1
  <2>3. /\ did.readback = x.used /\ did.kind = x.kind /\ did.life = restarts
    OBVIOUS
  <2> HIDE DEF did
  <2>4. \A i \in DOMAIN done' : (i \in DOMAIN done /\ done'[i] = done[i]) \/ done'[i] = did
    BY <1>3 DEF Inv, Done
  <2>5. x.kind = "cancel" => Current(x.used, readbacks, restarts, Told)
    BY <1>1, StandHere DEF Holds, Past
  <2>6. Told' \subseteq Told
    BY <1>1 DEF Told, Noted
  <2>7. DoneStands(done', booking', readbacks', Told')
    <3>1. DoneStands(done, booking, readbacks, Told)
      BY DEF StandInv
    <3> QED BY <1>1, <2>2, <2>3, <2>4, <2>5, <2>6, <3>1 DEF DoneStands, Current
  <2> DEFINE y == [handler[h] EXCEPT !.pc = "patch"]
  <2>8. handler' = [handler EXCEPT ![h] = y] /\ y.pc = "patch" /\ y.seen = x.seen /\ y.patch = x.patch
    BY <1>3, StandHere DEF GoTo, Become, Request
  <2> HIDE DEF y
  <2>9. Holds(y, memory', readbacks', restarts, Told', overlapped')
    BY <2>8, StandHere DEF Holds, Past
  <2>10. Standing(memory', readbacks', restarts, Told')
    BY <1>1, <2>6, StandHere, HoldsLess
  <2>11. /\ stopped' \subseteq DOMAIN readbacks' /\ Durable(row')
         /\ \A i \in DOMAIN readbacks : i \in DOMAIN readbacks' /\ readbacks'[i] = readbacks[i]
    BY <1>1 DEF StandInv
  <2> QED BY <1>1, <2>2, <2>7, <2>8, <2>9, <2>10, <2>11, StandStep
<1> QED BY <1>1, <1>2, <1>3

LEMMA TakePatchStands ==
  ASSUME Inv, StandInv, Noted, NEW h \in Handlers, TakePatch(h)
  PROVE  StandInv'
<1>1. /\ UNCHANGED <<restarts, readbacks, stopped, done, booking, memory, row>>
      /\ handler[h].pc # "idle"
      /\ Become(h, [handler[h] EXCEPT !.pc = "persist", !.patch = StatePatch(memory)])
  BY DEF TakePatch, talk, At
<1>2. Durable(StatePatch(memory))
  BY StandHere, CopiesStand
<1> QED BY <1>1, <1>2, StandHere, SaveStands

\* A new process has no record of a cancellation.
LEMMA CrashStands ==
  ASSUME Inv, StandInv, Noted, Crash
  PROVE  StandInv'
<1>1. /\ memory' = None /\ handler' = [h \in Handlers |-> Idle]
      /\ UNCHANGED <<row, booking, readbacks, stopped, done>>
  BY DEF Crash, talk
<1>2. /\ Told' \subseteq Told /\ (~overlapped' => ~Overlap')
  BY <1>1 DEF Told, Noted
<1>3. Standing(memory', readbacks', restarts', Told')
  BY <1>1 DEF Standing
<1>4. \A h \in Handlers : Holds(handler'[h], memory', readbacks', restarts', Told', overlapped')
  BY <1>1, IdleHolds
<1>5. DoneStands(done', booking', readbacks', Told')
  BY <1>1, <1>2, HoldsLess DEF StandInv
<1> QED BY <1>1, <1>2, <1>3, <1>4, <1>5 DEF StandInv

LEMMA StandKept == Inv /\ StandInv /\ [Next]_vars => StandInv'
<1> SUFFICES ASSUME Inv, StandInv, [Next]_vars PROVE StandInv'
  OBVIOUS
<1>1. CASE UNCHANGED vars
  BY <1>1 DEF vars, StandInv, Told, Overlap
<1>2. ASSUME Noted, NEW h \in Handlers, NEW s \in Starts, NEW k \in Kinds,
             NEW d \in Details \cup {None}, Arrive(h, s, k, d)
      PROVE  StandInv'
  BY <1>2, ArriveStands
<1>3. ASSUME Noted, NEW h \in Handlers, Step(h) PROVE StandInv'
  <2>1. ASSUME CheckFirst(h) \/ CheckAgain(h) PROVE StandInv'
    <3>1. handler[h].pc \in {"confirm", "begin"} /\ \E p \in {"begin", "lock"} : CheckGate(h, p)
      BY <2>1 DEF CheckFirst, CheckAgain, At
    <3>2. handler[h].kind \in Kinds
      BY <3>1, Known DEF RequestFits
    <3> QED BY <1>3, <3>1, <3>2, GateCheckedStands
  <2> QED BY <1>3, <2>1, ReadRowStands, CallerTurnStands, StopStands, InvalidateStands,
             LookUpStands, AgainStands, ReadBackStands, PersistStands, LockedStands,
             CommitStands, TakePatchStands
          DEF Step
<1>4. CASE Noted /\ Crash
  BY <1>4, CrashStands
<1> QED BY <1>1, <1>2, <1>3, <1>4 DEF Next, Noted

\* As long as no two requests of a call overlap, no cancellation is carried out
\* of which the caller was told that it was stopped, or that was read back
\* before the process died.
THEOREM StoppedIsStopped == Spec => []CancellationStoodIfSerial
<1>1. Init => StandInv
  <2> SUFFICES ASSUME Init PROVE StandInv
    OBVIOUS
  <2>1. booking \in [status : {"confirmed", "cancelled"}, details : Details \cup {Original, None}]
    BY DEF Init
  <2>2. DoneStands(done, booking, readbacks, Told) /\ ~Overlap /\ stopped \subseteq DOMAIN readbacks
    BY DEF Init, DoneStands, Overlap, Idle
  <2>3. Durable(row) /\ Standing(memory, readbacks, restarts, Told)
    BY DEF Init, Durable, Standing
  <2>4. \A h \in Handlers : Holds(handler[h], memory, readbacks, restarts, Told, overlapped)
    BY IdleHolds DEF Init
  <2> QED BY <2>1, <2>2, <2>3, <2>4 DEF StandInv
<1>2. StandInv => CancellationStoodIfSerial
  BY DEF StandInv, DoneStands, Current, Told, CancellationStoodIfSerial, CancellationStood
<1> QED BY <1>1, <1>2, StandKept, AlwaysFits, PTL DEF Spec
=============================================================================
