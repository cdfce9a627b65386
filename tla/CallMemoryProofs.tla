-------------------------- MODULE CallMemoryProofs --------------------------
(***************************************************************************)
(* Proofs about CallMemory, for every number of overlapping requests,      *)
(* turns, readbacks, crashes and bookings.                                 *)
(*                                                                         *)
(* A copy of the gate's fields may be restored long after it was taken, so *)
(* the invariant says the same of every copy: of memory, of the row, and   *)
(* of the patches and rows that requests hold.  rs, n and k stand for      *)
(* readbacks, agreed and the number of bookings; what is said of a copy    *)
(* only gets weaker as they grow.                                          *)
(***************************************************************************)
EXTENDS CallMemory, TLAPS

\* A record in a copy of the gate names a readback, is not ahead of the turn,
\* and is accepted only if the readback came before a yes.
GateOk(g, rs, n) ==
  /\ g \in Gate
  /\ g.pending # None =>
       /\ g.pending.id \in 1..Len(rs)
       /\ g.pending.details = rs[g.pending.id]
       /\ g.pending.turn <= g.turn
       /\ g.yes /\ g.turn > g.pending.turn => g.pending.id <= n

DraftOk(d, k) == d \in Draft /\ d.booking <= k

PatchOk(p, rs, n, k) ==
  /\ p \in Patch
  /\ p.gate # None => GateOk(p.gate, rs, n)
  /\ p.draft # None => DraftOk(p.draft, k)

RecordOk(m, rs, n, k) ==
  /\ m \in Memory
  /\ GateOk(m.gate, rs, n)
  /\ DraftOk(m.draft, k)

HandlerOk(x, rs, n, k) ==
  /\ x \in HandlerType
  /\ PatchOk(x.seen, rs, n, k)
  /\ PatchOk(x.patch, rs, n, k)
  /\ x.pc \in {"insert", "commit"} => x.used \in 1..n /\ x.details = rs[x.used]
  /\ x.pc \in {"lookup", "remember"} => x.found \in 1..k

Counts ==
  /\ restarts \in Nat /\ said \in BOOLEAN
  /\ readbacks \in Seq(Details)
  /\ agreed \in 0..Len(readbacks)
  /\ booked \in Seq([details : Details, readback : Nat])

MemoryOk == memory # None => RecordOk(memory, readbacks, agreed, Len(booked))
RowOk    == PatchOk(row, readbacks, agreed, Len(booked))
HandlersOk ==
  /\ handler \in [Handlers -> HandlerType]
  /\ \A h \in Handlers : HandlerOk(handler[h], readbacks, agreed, Len(booked))

Inv == Counts /\ MemoryOk /\ RowOk /\ HandlersOk

-----------------------------------------------------------------------------
(* The parts of the invariant *)

\* Nothing has been said yet: the empty values are fine.
LEMMA EmptyOk ==
  ASSUME NEW rs \in Seq(Details), NEW n \in Nat, NEW k \in Nat
  PROVE  /\ RecordOk(Fresh, rs, n, k)
         /\ PatchOk(NoKeys, rs, n, k)
         /\ HandlerOk(Idle, rs, n, k)
<1>1. RecordOk(Fresh, rs, n, k)
  BY DEF RecordOk, GateOk, DraftOk, Memory, Gate, Draft, Fresh
<1>2. PatchOk(NoKeys, rs, n, k)
  BY DEF PatchOk, Patch, NoKeys
<1>3. HandlerOk(Idle, rs, n, k)
  BY <1>2 DEF HandlerOk, HandlerType, Idle, PatchOk
<1> QED
  BY <1>1, <1>2, <1>3

\* What holds of a copy still holds after more readbacks, yeses and bookings.
LEMMA Later ==
  ASSUME NEW rs \in Seq(Details), NEW rt \in Seq(Details),
         NEW n \in 0..Len(rs), NEW m \in 0..Len(rt), NEW k \in Nat, NEW l \in Nat,
         n <= m, k <= l, Len(rs) <= Len(rt),
         \A i \in 1..Len(rs) : rt[i] = rs[i]
  PROVE  /\ \A x : RecordOk(x, rs, n, k) => RecordOk(x, rt, m, l)
         /\ \A x : PatchOk(x, rs, n, k) => PatchOk(x, rt, m, l)
         /\ \A x : HandlerOk(x, rs, n, k) => HandlerOk(x, rt, m, l)
<1>0. Len(rs) \in Nat /\ Len(rt) \in Nat
  OBVIOUS
<1>1. ASSUME NEW g, GateOk(g, rs, n) PROVE GateOk(g, rt, m)
  BY <1>0, <1>1 DEF GateOk, Gate, Pending
<1>2. ASSUME NEW d, DraftOk(d, k) PROVE DraftOk(d, l)
  BY <1>2 DEF DraftOk, Draft
<1>3. ASSUME NEW p, PatchOk(p, rs, n, k) PROVE PatchOk(p, rt, m, l)
  BY <1>1, <1>2, <1>3 DEF PatchOk
<1>4. ASSUME NEW x, RecordOk(x, rs, n, k) PROVE RecordOk(x, rt, m, l)
  BY <1>1, <1>2, <1>4 DEF RecordOk
<1>5. ASSUME NEW x, HandlerOk(x, rs, n, k) PROVE HandlerOk(x, rt, m, l)
  <2>1. /\ x \in HandlerType
        /\ PatchOk(x.seen, rt, m, l) /\ PatchOk(x.patch, rt, m, l)
    BY <1>3, <1>5 DEF HandlerOk
  <2>2. x.pc \in {"insert", "commit"} => x.used \in 1..m /\ x.details = rt[x.used]
    BY <1>0, <1>5 DEF HandlerOk
  <2>3. x.pc \in {"lookup", "remember"} => x.found \in 1..l
    BY <1>5 DEF HandlerOk
  <2> QED
    BY <2>1, <2>2, <2>3 DEF HandlerOk
<1> QED
  BY <1>3, <1>4, <1>5

\* Restoring, merging and clearing keep a copy as it should be.
LEMMA CopiesOk ==
  ASSUME NEW rs \in Seq(Details), NEW n \in Nat, NEW k \in Nat,
         NEW m, m # None => RecordOk(m, rs, n, k),
         NEW s, PatchOk(s, rs, n, k),
         NEW p, PatchOk(p, rs, n, k)
  PROVE  /\ RecordOk(OrFresh(m), rs, n, k)
         /\ Hydrated(m, s) # None => RecordOk(Hydrated(m, s), rs, n, k)
         /\ RecordOk(OrFresh(Hydrated(m, s)), rs, n, k)
         /\ PatchOk(Merged(s, p), rs, n, k)
         /\ RecordOk(Cleared(m), rs, n, k)
<1>1. RecordOk(Fresh, rs, n, k)
  BY EmptyOk
<1>2. RecordOk(OrFresh(m), rs, n, k)
  BY <1>1 DEF OrFresh
<1>3. Hydrated(m, s) # None => RecordOk(Hydrated(m, s), rs, n, k)
  <2>1. CASE s = NoKeys
    BY <2>1 DEF Hydrated
  <2>2. CASE s # NoKeys
    <3> DEFINE g == IF s.gate = None THEN OrFresh(m).gate ELSE s.gate
               d == IF s.draft = None THEN Fresh.draft ELSE s.draft
    <3>1. Hydrated(m, s) = [gate |-> g, draft |-> d]
      BY <2>2 DEF Hydrated
    <3>2. GateOk(g, rs, n) /\ DraftOk(d, k)
      BY <1>1, <1>2 DEF RecordOk, PatchOk
    <3>3. g \in Gate /\ d \in Draft
      BY <3>2 DEF GateOk, DraftOk
    <3> HIDE DEF g, d
    <3> QED
      BY <3>1, <3>2, <3>3 DEF RecordOk, Memory
  <2> QED
    BY <2>1, <2>2
<1>4. RecordOk(OrFresh(Hydrated(m, s)), rs, n, k)
  BY <1>1, <1>3 DEF OrFresh
<1>5. PatchOk(Merged(s, p), rs, n, k)
  <2> DEFINE g == IF p.gate = None THEN s.gate ELSE p.gate
             d == IF p.draft = None THEN s.draft ELSE p.draft
  <2>1. g \in Gate \cup {None} /\ (g # None => GateOk(g, rs, n))
    BY DEF PatchOk, Patch
  <2>2. d \in Draft \cup {None} /\ (d # None => DraftOk(d, k))
    BY DEF PatchOk, Patch
  <2>3. Merged(s, p) = [gate |-> g, draft |-> d]
    BY DEF Merged
  <2> HIDE DEF g, d
  <2> QED
    BY <2>1, <2>2, <2>3 DEF PatchOk, Patch
<1>6. RecordOk(Cleared(m), rs, n, k)
  <2> DEFINE f == OrFresh(m)
             g == [f.gate EXCEPT !.pending = None]
  <2>1. f \in Memory /\ f.gate \in Gate /\ f.draft \in Draft /\ DraftOk(f.draft, k)
    BY <1>2 DEF RecordOk, Memory
  <2>2. g \in Gate /\ GateOk(g, rs, n)
    BY <2>1 DEF Gate, GateOk
  <2>3. Cleared(m) = [gate |-> g, draft |-> f.draft]
    BY <2>1 DEF Cleared, Memory
  <2> HIDE DEF f, g
  <2> QED
    BY <2>1, <2>2, <2>3 DEF RecordOk, Memory
<1> QED
  BY <1>2, <1>3, <1>4, <1>5, <1>6

-----------------------------------------------------------------------------
(* The invariant is kept *)

LEMMA InitOk == Init => Inv
<1> SUFFICES ASSUME Init PROVE Inv
  OBVIOUS
<1>2. Len(readbacks) = 0 /\ Len(booked) = 0 /\ agreed = 0
  BY DEF Init
<1>1. Counts
  <2>1. said \in BOOLEAN
    BY DEF Init
  <2>2. readbacks \in Seq(Details) /\ booked \in Seq([details : Details, readback : Nat])
    BY DEF Init
  <2> QED
    BY <1>2, <2>1, <2>2 DEF Init, Counts
<1>3. /\ PatchOk(NoKeys, readbacks, agreed, Len(booked))
      /\ HandlerOk(Idle, readbacks, agreed, Len(booked))
  BY <1>1, <1>2, EmptyOk DEF Counts
<1>4. MemoryOk /\ RowOk
  BY <1>3 DEF Init, MemoryOk, RowOk
<1>5. HandlersOk
  <2>1. Idle \in HandlerType
    BY <1>3 DEF HandlerOk
  <2> QED
    BY <1>3, <2>1 DEF Init, HandlersOk
<1> QED
  BY <1>1, <1>4, <1>5 DEF Inv

\* A step of one request needs to look only at what it writes.
LEMMA Grow ==
  ASSUME Inv, NEW h \in Handlers, NEW x, Become(h, x), Counts',
         HandlerOk(x, readbacks', agreed', Len(booked')),
         memory' # None => RecordOk(memory', readbacks', agreed', Len(booked')),
         PatchOk(row', readbacks', agreed', Len(booked')),
         agreed <= agreed', Len(booked) <= Len(booked'),
         Len(readbacks) <= Len(readbacks'),
         \A i \in 1..Len(readbacks) : readbacks'[i] = readbacks[i]
  PROVE  Inv'
<1>1. MemoryOk' /\ RowOk'
  BY DEF MemoryOk, RowOk
<1>2. ASSUME NEW y, HandlerOk(y, readbacks, agreed, Len(booked))
      PROVE  HandlerOk(y, readbacks', agreed', Len(booked'))
  <2>1. /\ readbacks \in Seq(Details) /\ readbacks' \in Seq(Details)
        /\ agreed \in 0..Len(readbacks) /\ agreed' \in 0..Len(readbacks')
        /\ Len(booked) \in Nat /\ Len(booked') \in Nat
    BY DEF Inv, Counts
  <2> QED
    BY <1>2, <2>1, Later
<1>3. handler' = [handler EXCEPT ![h] = x] /\ x \in HandlerType
  BY DEF Become, HandlerOk
<1>4. handler \in [Handlers -> HandlerType]
  BY DEF Inv, HandlersOk
<1>5. handler' \in [Handlers -> HandlerType]
  BY <1>3, <1>4
<1>6. ASSUME NEW o \in Handlers
      PROVE  HandlerOk(handler'[o], readbacks', agreed', Len(booked'))
  <2>1. CASE o = h
    BY <1>3, <1>4, <2>1
  <2>2. CASE o # h
    <3>1. handler'[o] = handler[o]
      BY <1>3, <1>4, <2>2
    <3> QED
      BY <3>1, <1>2 DEF Inv, HandlersOk
  <2> QED
    BY <2>1, <2>2
<1> QED
  BY <1>1, <1>5, <1>6 DEF Inv, HandlersOk

\* The same, when nothing is said and no booking is made.
LEMMA Quiet ==
  ASSUME Inv, NEW h \in Handlers, NEW x, Become(h, x),
         UNCHANGED <<restarts, talk, booked>>,
         HandlerOk(x, readbacks, agreed, Len(booked)),
         memory' # None => RecordOk(memory', readbacks, agreed, Len(booked)),
         PatchOk(row', readbacks, agreed, Len(booked))
  PROVE  Inv'
<1>1. /\ readbacks' = readbacks /\ agreed' = agreed /\ booked' = booked
      /\ said' = said /\ restarts' = restarts
  BY DEF talk
<1>2. Counts /\ Counts'
  BY <1>1 DEF Inv, Counts
<1>3. agreed <= agreed' /\ Len(booked) <= Len(booked')
      /\ Len(readbacks) <= Len(readbacks')
  BY <1>1, <1>2 DEF Counts
<1>4. /\ HandlerOk(x, readbacks', agreed', Len(booked'))
      /\ memory' # None => RecordOk(memory', readbacks', agreed', Len(booked'))
      /\ PatchOk(row', readbacks', agreed', Len(booked'))
  BY <1>1
<1> QED
  BY <1>1, <1>2, <1>3, <1>4, Grow

\* What the invariant says of the request that takes a step.
LEMMA Here ==
  ASSUME Inv, NEW h \in Handlers
  PROVE  /\ Counts
         /\ Len(booked) \in Nat /\ Len(readbacks) \in Nat
         /\ handler[h] \in HandlerType
         /\ HandlerOk(handler[h], readbacks, agreed, Len(booked))
         /\ HandlerOk(Idle, readbacks, agreed, Len(booked))
         /\ memory # None => RecordOk(memory, readbacks, agreed, Len(booked))
         /\ PatchOk(row, readbacks, agreed, Len(booked))
         /\ PatchOk(NoKeys, readbacks, agreed, Len(booked))
         /\ RecordOk(OrFresh(memory), readbacks, agreed, Len(booked))
         /\ RecordOk(Cleared(memory), readbacks, agreed, Len(booked))
         /\ RecordOk(OrFresh(Recalled(h)), readbacks, agreed, Len(booked))
         /\ Recalled(h) # None =>
              RecordOk(Recalled(h), readbacks, agreed, Len(booked))
<1>1. /\ Counts /\ Len(booked) \in Nat /\ Len(readbacks) \in Nat /\ agreed \in Nat
      /\ readbacks \in Seq(Details)
  BY DEF Inv, Counts
<1>2. /\ handler[h] \in HandlerType
      /\ HandlerOk(handler[h], readbacks, agreed, Len(booked))
  BY DEF Inv, HandlersOk
<1>3. PatchOk(handler[h].seen, readbacks, agreed, Len(booked))
  BY <1>2 DEF HandlerOk
<1>4. /\ memory # None => RecordOk(memory, readbacks, agreed, Len(booked))
      /\ PatchOk(row, readbacks, agreed, Len(booked))
  BY DEF Inv, MemoryOk, RowOk
<1>5. /\ HandlerOk(Idle, readbacks, agreed, Len(booked))
      /\ PatchOk(NoKeys, readbacks, agreed, Len(booked))
  BY <1>1, EmptyOk
<1>6. /\ RecordOk(OrFresh(memory), readbacks, agreed, Len(booked))
      /\ RecordOk(Cleared(memory), readbacks, agreed, Len(booked))
      /\ Hydrated(memory, handler[h].seen) # None =>
           RecordOk(Hydrated(memory, handler[h].seen), readbacks, agreed, Len(booked))
      /\ RecordOk(OrFresh(Hydrated(memory, handler[h].seen)),
                  readbacks, agreed, Len(booked))
  BY <1>1, <1>3, <1>4, CopiesOk
<1> QED
  BY <1>1, <1>2, <1>4, <1>5, <1>6 DEF Recalled

\* A request that moves on to persist a patch, or one that only moves on.
LEMMA Moves ==
  ASSUME Inv, NEW h \in Handlers, NEW p,
         PatchOk(p, readbacks, agreed, Len(booked))
  PROVE  /\ HandlerOk([handler[h] EXCEPT !.pc = "persist", !.patch = p],
                      readbacks, agreed, Len(booked))
         /\ HandlerOk([handler[h] EXCEPT !.pc = "body", !.seen = p],
                      readbacks, agreed, Len(booked))
         /\ HandlerOk([handler[h] EXCEPT !.pc = "gate", !.seen = p],
                      readbacks, agreed, Len(booked))
<1>1. handler[h] \in HandlerType /\ HandlerOk(handler[h], readbacks, agreed, Len(booked))
  BY Here
<1>2. p \in Patch
  BY DEF PatchOk
<1> QED
  BY <1>1, <1>2 DEF HandlerOk, HandlerType

\* Steps that leave what was said, what was read back and the bookings alone.
LEMMA ArriveOk ==
  ASSUME Inv, NEW h \in Handlers, Arrive(h) PROVE Inv'
<1>0. PICK op \in Operations :
        \E d \in IF op \in {"draft", "create"} THEN Details ELSE {None} :
          Become(h, [Idle EXCEPT
            !.op = op, !.details = d,
            !.pc = IF op = "create" THEN "session"
                   ELSE IF Hydrates(op) /\ memory = None THEN "read" ELSE "body"])
  BY DEF Arrive
<1>1. PICK d \in IF op \in {"draft", "create"} THEN Details ELSE {None} :
        Become(h, [Idle EXCEPT
          !.op = op, !.details = d,
          !.pc = IF op = "create" THEN "session"
                 ELSE IF Hydrates(op) /\ memory = None THEN "read" ELSE "body"])
  BY <1>0
<1> DEFINE q == IF op = "create" THEN "session"
                ELSE IF Hydrates(op) /\ memory = None THEN "read" ELSE "body"
           x == [Idle EXCEPT !.op = op, !.details = d, !.pc = q]
<1>2. q \in {"session", "read", "body"} /\ d \in Details \cup {None}
  OBVIOUS
<1>3. HandlerOk(x, readbacks, agreed, Len(booked))
  <2> HIDE DEF q
  <2>1. HandlerOk(Idle, readbacks, agreed, Len(booked))
    BY Here
  <2> QED
    BY <1>2, <2>1 DEF HandlerOk, HandlerType, Idle
<1>4. UNCHANGED <<memory, row, restarts, talk, booked>>
  BY DEF Arrive
<1>5. Become(h, x)
  BY <1>1
<1> HIDE DEF x
<1> QED
  BY <1>3, <1>4, <1>5, Here, Quiet

LEMMA ReadRowOk ==
  ASSUME Inv, NEW h \in Handlers, ReadRow(h) PROVE Inv'
<1>1. PICK s \in {row, NoKeys} :
        Become(h, [handler[h] EXCEPT !.pc = "body", !.seen = s])
  BY DEF ReadRow
<1>2. PatchOk(s, readbacks, agreed, Len(booked))
  BY Here
<1>3. UNCHANGED <<memory, row, restarts, talk, booked>>
  BY DEF ReadRow
<1> QED
  BY <1>1, <1>2, <1>3, Here, Moves, Quiet

LEMMA SaveDraftOk ==
  ASSUME Inv, NEW h \in Handlers, SaveDraft(h) PROVE Inv'
<1> DEFINE m == OrFresh(Recalled(h))
           d == [m.draft EXCEPT !.details = handler[h].details]
           p == [gate |-> None, draft |-> d]
           x == [handler[h] EXCEPT !.pc = "persist", !.patch = p]
<1>1. RecordOk(m, readbacks, agreed, Len(booked))
  BY Here
<1>2. /\ m \in Memory /\ m.draft \in Draft /\ m.gate \in Gate
      /\ handler[h].details \in Details \cup {None}
  BY <1>1, Here DEF RecordOk, Memory, HandlerType
<1>3. UNCHANGED <<row, restarts, talk, booked>>
  BY DEF SaveDraft
<1>4. CASE m.draft.booking # 0 /\ memory' = m /\ Finish(h)
  BY <1>1, <1>3, <1>4, Here, Quiet DEF Finish
<1>5. CASE memory' = [m EXCEPT !.draft = d] /\ Become(h, x)
  <2>1. DraftOk(d, Len(booked))
    BY <1>1, <1>2 DEF RecordOk, DraftOk, Draft
  <2>2. d \in Draft
    BY <2>1 DEF DraftOk
  <2>3. RecordOk([m EXCEPT !.draft = d], readbacks, agreed, Len(booked))
    <3> HIDE DEF m, d
    <3> QED
      BY <1>1, <1>2, <2>1, <2>2 DEF RecordOk, Memory
  <2>4. PatchOk(p, readbacks, agreed, Len(booked))
    <3> HIDE DEF m, d
    <3> QED
      BY <2>1, <2>2 DEF PatchOk, Patch
  <2>5. HandlerOk(x, readbacks, agreed, Len(booked))
    BY <2>4, Moves
  <2> HIDE DEF m, d, x
  <2> QED
    BY <1>3, <1>5, <2>3, <2>5, Here, Quiet
<1> QED
  BY <1>4, <1>5 DEF SaveDraft

LEMMA ShowDraftOk ==
  ASSUME Inv, NEW h \in Handlers, ShowDraft(h) PROVE Inv'
<1> DEFINE m == OrFresh(Recalled(h))
           x == [handler[h] EXCEPT !.pc = "lookup", !.found = m.draft.booking]
<1>1. /\ UNCHANGED <<row, restarts, talk, booked>>
      /\ memory' = Recalled(h)
  BY DEF ShowDraft
<1>2. CASE m.draft.booking # 0 /\ Become(h, x)
  <2>1. m.draft.booking \in 1..Len(booked)
    BY <1>2, Here DEF RecordOk, DraftOk, Draft
  <2>2. HandlerOk(x, readbacks, agreed, Len(booked))
    <3> DEFINE b == m.draft.booking
    <3>1. b \in 1..Len(booked) /\ b \in Nat /\ handler[h] \in HandlerType
      BY <2>1, Here
    <3> HIDE DEF b
    <3> DEFINE y == [handler[h] EXCEPT !.pc = "lookup", !.found = b]
    <3>2. /\ y \in HandlerType /\ y.pc = "lookup" /\ y.found = b
          /\ y.seen = handler[h].seen /\ y.patch = handler[h].patch
      BY <3>1 DEF HandlerType
    <3> HIDE DEF y
    <3>3. HandlerOk(y, readbacks, agreed, Len(booked))
      BY <3>1, <3>2, Here DEF HandlerOk
    <3> QED
      BY <3>3 DEF y, b
  <2> HIDE DEF m, x
  <2> QED
    BY <1>1, <1>2, <2>2, Here, Quiet
<1>3. CASE Finish(h)
  BY <1>1, <1>3, Here, Quiet DEF Finish
<1> QED
  BY <1>2, <1>3 DEF ShowDraft

LEMMA ElementOf ==
  ASSUME NEW R, NEW s \in Seq(R), NEW i \in 1..Len(s) PROVE s[i] \in R
OBVIOUS

LEMMA ApplyBookingOk ==
  ASSUME Inv, NEW h \in Handlers, ApplyBooking(h) PROVE Inv'
<1> DEFINE m == OrFresh(memory)
           b == handler[h].found
           d == [details |-> booked[b].details, booking |-> b]
           p == [gate |-> None, draft |-> d]
           x == [handler[h] EXCEPT !.pc = "persist", !.patch = p]
<1>1. /\ UNCHANGED <<row, restarts, talk, booked>>
      /\ memory' = [m EXCEPT !.draft = d] /\ Become(h, x)
  BY DEF ApplyBooking
<1>2. b \in 1..Len(booked) /\ booked \in Seq([details : Details, readback : Nat])
  BY Here DEF HandlerOk, ApplyBooking, Counts
<1>3. d \in Draft /\ DraftOk(d, Len(booked))
  <2>0. Len(booked) \in Nat
    BY Here
  <2>1. booked[b] \in [details : Details, readback : Nat]
    BY <1>2, ElementOf
  <2>2. booked[b].details \in Details
    BY <2>1
  <2>3. d \in Draft /\ d.booking = b
    BY <1>2, <2>0, <2>2 DEF Draft
  <2> QED
    BY <1>2, <2>0, <2>3 DEF DraftOk
<1>4. RecordOk(m, readbacks, agreed, Len(booked)) /\ m \in Memory
  BY Here DEF RecordOk
<1>5. RecordOk([m EXCEPT !.draft = d], readbacks, agreed, Len(booked))
  <2> HIDE DEF m, d
  <2> QED
    BY <1>3, <1>4 DEF RecordOk, Memory
<1>6. PatchOk(p, readbacks, agreed, Len(booked))
  <2> HIDE DEF d
  <2> QED
    BY <1>3 DEF PatchOk, Patch
<1>7. HandlerOk(x, readbacks, agreed, Len(booked))
  BY <1>6, Moves
<1> HIDE DEF m, d, x
<1> QED
  BY <1>1, <1>5, <1>7, Here, Quiet

LEMMA GatePatchOk ==
  ASSUME NEW g, NEW rs, NEW n, NEW k, GateOk(g, rs, n)
  PROVE  PatchOk(GatePatch(g), rs, n, k)
BY DEF PatchOk, Patch, GatePatch, GateOk

LEMMA OtherReadbackOk ==
  ASSUME Inv, NEW h \in Handlers, OtherReadback(h) PROVE Inv'
<1> DEFINE m == OrFresh(memory)
           x == [handler[h] EXCEPT !.pc = "persist", !.patch = GatePatch(m.gate)]
<1>1. /\ UNCHANGED <<row, restarts, talk, booked>>
      /\ memory' = m /\ Become(h, x)
  BY DEF OtherReadback
<1>2. RecordOk(m, readbacks, agreed, Len(booked))
  BY Here
<1>3. PatchOk(GatePatch(m.gate), readbacks, agreed, Len(booked))
  BY <1>2, GatePatchOk DEF RecordOk
<1>4. HandlerOk(x, readbacks, agreed, Len(booked))
  BY <1>3, Moves
<1> HIDE DEF m, x
<1> QED
  BY <1>1, <1>2, <1>4, Here, Quiet

LEMMA PersistOk ==
  ASSUME Inv, NEW h \in Handlers, Persist(h) PROVE Inv'
<1>1. /\ UNCHANGED <<memory, restarts, talk, booked>>
      /\ row' = Merged(row, handler[h].patch) /\ Become(h, Idle)
  BY DEF Persist, Finish
<1>2. PatchOk(Merged(row, handler[h].patch), readbacks, agreed, Len(booked))
  BY Here, CopiesOk DEF HandlerOk, Counts
<1> QED
  BY <1>1, <1>2, Here, Quiet

LEMMA ReadSessionOk ==
  ASSUME Inv, NEW h \in Handlers, ReadSession(h) PROVE Inv'
<1>1. /\ UNCHANGED <<memory, row, restarts, talk, booked>>
      /\ Become(h, [handler[h] EXCEPT !.pc = "gate", !.seen = row])
  BY DEF ReadSession
<1> QED
  BY <1>1, Here, Moves, Quiet

\* The gate opens only for a readback that came before a yes.
LEMMA CheckGateOk ==
  ASSUME Inv, NEW h \in Handlers, CheckGate(h) PROVE Inv'
<1> DEFINE g == OrFresh(memory).gate
           x == [handler[h] EXCEPT !.pc = "insert", !.used = g.pending.id]
<1>1. UNCHANGED <<row, restarts, talk, booked>>
  BY DEF CheckGate
<1>2. CASE Finish(h) /\ UNCHANGED memory
  BY <1>1, <1>2, Here, Quiet DEF Finish
<1>3. CASE Finish(h) /\ memory' = Cleared(memory)
  BY <1>1, <1>3, Here, Quiet DEF Finish
<1>4. CASE Accepts(g, handler[h].details) /\ Become(h, x) /\ UNCHANGED memory
  <2>1. GateOk(g, readbacks, agreed) /\ Len(readbacks) \in Nat
    BY Here DEF RecordOk
  <2>2. /\ g.pending # None /\ g.pending.details = handler[h].details
        /\ g.yes /\ g.turn > g.pending.turn
    BY <1>4 DEF Accepts
  <2>3. agreed \in Nat
    BY Here DEF Counts
  <2>4. /\ g.pending.id \in 1..agreed
        /\ handler[h].details = readbacks[g.pending.id]
    BY <2>1, <2>2, <2>3 DEF GateOk
  <2>5. HandlerOk(x, readbacks, agreed, Len(booked))
    <3> DEFINE i == g.pending.id
    <3>1. /\ i \in 1..agreed /\ i \in Nat /\ handler[h].details = readbacks[i]
          /\ handler[h] \in HandlerType
      BY <2>4, Here
    <3> HIDE DEF i
    <3> DEFINE y == [handler[h] EXCEPT !.pc = "insert", !.used = i]
    <3>2. /\ y \in HandlerType /\ y.pc = "insert" /\ y.used = i
          /\ y.seen = handler[h].seen /\ y.patch = handler[h].patch
          /\ y.details = handler[h].details
      BY <3>1 DEF HandlerType
    <3> HIDE DEF y
    <3>3. HandlerOk(y, readbacks, agreed, Len(booked))
      BY <3>1, <3>2, Here DEF HandlerOk
    <3> QED
      BY <3>3 DEF y, i
  <2> HIDE DEF g, x
  <2> QED
    BY <1>1, <1>4, <2>5, Here, Quiet
<1> QED
  BY <1>2, <1>3, <1>4 DEF CheckGate

LEMMA InsertOk ==
  ASSUME Inv, NEW h \in Handlers, Insert(h) PROVE Inv'
<1> DEFINE p == GatePatch(Cleared(memory).gate)
           x == [handler[h] EXCEPT !.pc = "commit", !.patch = p]
<1>1. /\ UNCHANGED <<row, restarts, talk, booked>>
      /\ memory' = Cleared(memory) /\ Become(h, x)
      /\ handler[h].pc = "insert"
  BY DEF Insert
<1>2. PatchOk(p, readbacks, agreed, Len(booked)) /\ p \in Patch
  <2>1. PatchOk(p, readbacks, agreed, Len(booked))
    BY Here, GatePatchOk DEF RecordOk
  <2> QED
    BY <2>1 DEF PatchOk
<1>3. HandlerOk(x, readbacks, agreed, Len(booked))
  <2> HIDE DEF p
  <2>1. handler[h] \in HandlerType
    BY Here
  <2>2. /\ x \in HandlerType /\ x.pc = "commit" /\ x.used = handler[h].used
        /\ x.seen = handler[h].seen /\ x.patch = p
        /\ x.details = handler[h].details
    BY <1>2, <2>1 DEF HandlerType
  <2> HIDE DEF x
  <2> QED
    BY <1>1, <1>2, <2>2, Here DEF HandlerOk
<1> HIDE DEF p, x
<1> QED
  BY <1>1, <1>3, Here, Quiet

LEMMA RememberOk ==
  ASSUME Inv, NEW h \in Handlers, Remember(h) PROVE Inv'
<1> DEFINE m == OrFresh(memory)
           d == [details |-> handler[h].details, booking |-> handler[h].found]
<1>1. /\ UNCHANGED <<row, restarts, talk, booked>>
      /\ memory' = [m EXCEPT !.draft = d] /\ Become(h, Idle)
      /\ handler[h].pc = "remember"
  BY DEF Remember, Finish
<1>2. handler[h].found \in 1..Len(booked) /\ handler[h].details \in Details \cup {None}
  BY <1>1, Here DEF HandlerOk, HandlerType
<1>3. d \in Draft /\ DraftOk(d, Len(booked))
  BY <1>2, Here DEF Draft, DraftOk
<1>4. RecordOk(m, readbacks, agreed, Len(booked)) /\ m \in Memory
  BY Here DEF RecordOk
<1>5. RecordOk([m EXCEPT !.draft = d], readbacks, agreed, Len(booked))
  <2> HIDE DEF m, d
  <2> QED
    BY <1>3, <1>4 DEF RecordOk, Memory
<1> HIDE DEF m, d
<1> QED
  BY <1>1, <1>5, Here, Quiet

LEMMA FailOk ==
  ASSUME Inv, NEW h \in Handlers, Fail(h) PROVE Inv'
<1>1. /\ UNCHANGED <<memory, row, restarts, talk, booked>>
      /\ Become(h, Idle)
  BY DEF Fail, Finish
<1> QED
  BY <1>1, Here, Quiet

\* A crash keeps the row; everything else starts from nothing.
LEMMA RestartOk ==
  ASSUME Inv, Restart PROVE Inv'
<1>1. Counts /\ Len(booked) \in Nat /\ agreed \in Nat /\ restarts \in Nat
  BY DEF Inv, Counts
<1>2. /\ memory' = None /\ row' = row /\ restarts' = restarts + 1
      /\ handler' = [h \in Handlers |-> Idle]
      /\ said' = said /\ readbacks' = readbacks /\ agreed' = agreed /\ booked' = booked
  BY DEF Restart, talk
<1>3. Counts' /\ MemoryOk' /\ RowOk'
  BY <1>1, <1>2 DEF Counts, MemoryOk, RowOk, Inv
<1>4. HandlerOk(Idle, readbacks, agreed, Len(booked)) /\ Idle \in HandlerType
  <2>1. HandlerOk(Idle, readbacks, agreed, Len(booked))
    BY <1>1, EmptyOk DEF Counts
  <2> QED
    BY <2>1 DEF HandlerOk
<1>5. HandlersOk'
  BY <1>2, <1>4 DEF HandlersOk
<1> QED
  BY <1>3, <1>5 DEF Inv

-----------------------------------------------------------------------------
(* Steps in which something is said, read back or booked *)

\* The gate's fields after a caller turn.
LEMMA NextTurn ==
  ASSUME NEW T, NEW Y, NEW P, NEW f \in [turn : T, yes : Y, pending : P],
         NEW t \in T, NEW y \in Y
  PROVE  LET g == [f EXCEPT !.turn = t, !.yes = y] IN
         /\ g \in [turn : T, yes : Y, pending : P]
         /\ g.turn = t /\ g.yes = y /\ g.pending = f.pending
OBVIOUS

\* A yes covers every readback made so far.
LEMMA CallerTurnOk ==
  ASSUME Inv, NEW h \in Handlers, CallerTurn(h) PROVE Inv'
<1> DEFINE m == OrFresh(Recalled(h))
<1>1. PICK y \in BOOLEAN :
        /\ memory' = [m EXCEPT !.gate.turn = @ + 1, !.gate.yes = y]
        /\ said' = y
        /\ agreed' = IF y THEN Len(readbacks) ELSE agreed
  BY DEF CallerTurn
<1>2. /\ row' = row /\ restarts' = restarts /\ readbacks' = readbacks
      /\ booked' = booked /\ Become(h, Idle)
  BY DEF CallerTurn, Finish
<1>3. /\ Counts /\ Len(readbacks) \in Nat /\ Len(booked) \in Nat
      /\ readbacks \in Seq(Details) /\ agreed \in 0..Len(readbacks)
  BY Here DEF Counts
<1>4. agreed' \in 0..Len(readbacks) /\ agreed <= agreed'
  BY <1>1, <1>3
<1>5. Counts'
  BY <1>1, <1>2, <1>3, <1>4 DEF Counts
<1>6. /\ HandlerOk(Idle, readbacks', agreed', Len(booked'))
      /\ PatchOk(row', readbacks', agreed', Len(booked'))
  BY <1>2, <1>3, <1>4, Here, Later
<1>7. RecordOk(memory', readbacks', agreed', Len(booked'))
  <2>1. /\ m \in Memory /\ m.gate \in Gate /\ GateOk(m.gate, readbacks, agreed)
        /\ DraftOk(m.draft, Len(booked)) /\ m.draft \in Draft
    BY Here DEF RecordOk, Memory
  <2> DEFINE g == [m.gate EXCEPT !.turn = @ + 1, !.yes = y]
  <2>2. memory' = [m EXCEPT !.gate = g]
    <3> HIDE DEF m
    <3> QED
      BY <1>1, <2>1 DEF Memory, Gate
  <2>3. g \in Gate /\ g.pending = m.gate.pending /\ g.turn = m.gate.turn + 1 /\ g.yes = y
    <3> DEFINE f == m.gate
    <3>1. /\ f \in [turn : Nat, yes : BOOLEAN, pending : Pending \cup {None}]
          /\ f.turn + 1 \in Nat
      BY <2>1 DEF Gate
    <3> HIDE DEF f
    <3>2. LET e == [f EXCEPT !.turn = f.turn + 1, !.yes = y] IN
          /\ e \in [turn : Nat, yes : BOOLEAN, pending : Pending \cup {None}]
          /\ e.turn = f.turn + 1 /\ e.yes = y /\ e.pending = f.pending
      BY <3>1, NextTurn
    <3> QED
      BY <3>2 DEF f, Gate
  <2>4. ASSUME g.pending # None
        PROVE  /\ g.pending.id \in 1..Len(readbacks)
               /\ g.pending.details = readbacks[g.pending.id]
               /\ g.pending.turn <= g.turn
               /\ g.yes /\ g.turn > g.pending.turn => g.pending.id <= agreed'
    <3>0. m.gate.pending \in Pending /\ m.gate.turn \in Nat
      BY <2>1, <2>3, <2>4 DEF Gate
    <3>1. /\ m.gate.pending.id \in 1..Len(readbacks)
          /\ m.gate.pending.details = readbacks[m.gate.pending.id]
          /\ m.gate.pending.turn <= m.gate.turn
          /\ m.gate.pending.turn \in Nat
      BY <2>1, <2>3, <2>4, <3>0 DEF GateOk, Pending
    <3> HIDE DEF m, g
    <3> QED
      BY <1>1, <1>3, <2>3, <3>0, <3>1
  <2>5. GateOk(g, readbacks', agreed')
    <3> HIDE DEF g
    <3> QED
      BY <1>2, <2>3, <2>4 DEF GateOk
  <2> HIDE DEF m, g
  <2> QED
    BY <1>2, <2>1, <2>2, <2>3, <2>5 DEF RecordOk, Memory
<1> QED
  BY <1>2, <1>3, <1>4, <1>5, <1>6, <1>7, Grow

\* A new readback is not covered by any yes yet: the turn has to advance.
LEMMA ReadBackOk ==
  ASSUME Inv, NEW h \in Handlers, ReadBack(h) PROVE Inv'
<1> DEFINE m == OrFresh(Recalled(h))
           n == Len(readbacks) + 1
           q == [details |-> m.draft.details, turn |-> m.gate.turn, id |-> n]
           g == [m.gate EXCEPT !.pending = q]
           x == [handler[h] EXCEPT !.pc = "persist", !.patch = GatePatch(g)]
<1>1. /\ readbacks' = Append(readbacks, m.draft.details)
      /\ memory' = [m EXCEPT !.gate = g] /\ Become(h, x)
      /\ row' = row /\ restarts' = restarts /\ said' = said /\ agreed' = agreed
      /\ booked' = booked /\ m.draft.details # None
  BY DEF ReadBack
<1>2. /\ Counts /\ Len(readbacks) \in Nat /\ Len(booked) \in Nat
      /\ readbacks \in Seq(Details) /\ agreed \in 0..Len(readbacks)
  BY Here DEF Counts
<1>3. /\ m \in Memory /\ m.gate \in Gate /\ m.draft \in Draft
      /\ RecordOk(m, readbacks, agreed, Len(booked))
      /\ m.draft.details \in Details
  BY <1>1, Here DEF RecordOk, Memory, Draft
<1>4. /\ readbacks' \in Seq(Details) /\ Len(readbacks') = n
      /\ readbacks'[n] = m.draft.details
      /\ \A i \in 1..Len(readbacks) : readbacks'[i] = readbacks[i]
  <2> HIDE DEF m
  <2> QED
    BY <1>1, <1>2, <1>3
<1>5. Counts'
  BY <1>1, <1>2, <1>4 DEF Counts
<1>6. Inv /\ agreed' \in 0..Len(readbacks')
  BY <1>5 DEF Counts
<1>7. /\ RecordOk(m, readbacks', agreed', Len(booked'))
      /\ PatchOk(row', readbacks', agreed', Len(booked'))
      /\ HandlerOk(handler[h], readbacks', agreed', Len(booked'))
  <2> HIDE DEF m, n
  <2>1. /\ readbacks' \in Seq(Details) /\ Len(readbacks) <= Len(readbacks')
        /\ agreed \in 0..Len(readbacks')
    BY <1>1, <1>2, <1>4, <1>6 DEF n
  <2>2. /\ \A y : RecordOk(y, readbacks, agreed, Len(booked))
                  => RecordOk(y, readbacks', agreed, Len(booked))
        /\ \A y : PatchOk(y, readbacks, agreed, Len(booked))
                  => PatchOk(y, readbacks', agreed, Len(booked))
        /\ \A y : HandlerOk(y, readbacks, agreed, Len(booked))
                  => HandlerOk(y, readbacks', agreed, Len(booked))
    BY <1>2, <1>4, <2>1, Later
  <2>3. /\ PatchOk(row, readbacks, agreed, Len(booked))
        /\ HandlerOk(handler[h], readbacks, agreed, Len(booked))
    BY Here
  <2> QED
    BY <1>1, <1>3, <2>2, <2>3
<1>8. g \in Gate /\ GateOk(g, readbacks', agreed')
  <2>1. q \in Pending
    <3> HIDE DEF m
    <3> QED
      BY <1>2, <1>3 DEF Pending, Gate
  <2>2. /\ q.id = n /\ q.details = readbacks'[n] /\ q.turn = m.gate.turn
        /\ n \in 1..Len(readbacks') /\ m.gate.turn \in Nat
    BY <1>2, <1>3, <1>4 DEF Gate
  <2> HIDE DEF q, n, m
  <2>3. g \in Gate /\ g.pending = q /\ g.turn = m.gate.turn
    BY <1>3, <2>1 DEF Gate
  <2> HIDE DEF g
  <2> QED
    BY <2>2, <2>3 DEF GateOk
<1>9. RecordOk(memory', readbacks', agreed', Len(booked'))
  <2> HIDE DEF m, g
  <2> QED
    BY <1>1, <1>3, <1>7, <1>8 DEF RecordOk, Memory
<1>10. HandlerOk(x, readbacks', agreed', Len(booked'))
  <2>1. PatchOk(GatePatch(g), readbacks', agreed', Len(booked'))
    BY <1>8, GatePatchOk
  <2>2. GatePatch(g) \in Patch
    BY <2>1 DEF PatchOk
  <2> HIDE DEF g
  <2> QED
    BY <1>7, <2>1, <2>2 DEF HandlerOk, HandlerType
<1> HIDE DEF m, g, x
<1> QED
  BY <1>1, <1>2, <1>4, <1>5, <1>7, <1>9, <1>10, Grow

LEMMA CommitOk ==
  ASSUME Inv, NEW h \in Handlers, Commit(h) PROVE Inv'
<1> DEFINE b == Len(booked) + 1
           d == [details |-> handler[h].details, booking |-> b]
           p == [handler[h].patch EXCEPT !.draft = d]
           x == [handler[h] EXCEPT !.pc = "remember", !.found = b]
           w == [details |-> handler[h].details, readback |-> handler[h].used]
<1>1. /\ handler[h].pc = "commit"
      /\ booked' = Append(booked, w) /\ row' = Merged(row, p) /\ Become(h, x)
      /\ memory' = memory /\ restarts' = restarts
      /\ said' = said /\ readbacks' = readbacks /\ agreed' = agreed
  BY DEF Commit, talk
<1>2. /\ Counts /\ Len(readbacks) \in Nat /\ Len(booked) \in Nat
      /\ readbacks \in Seq(Details) /\ agreed \in 0..Len(readbacks)
      /\ booked \in Seq([details : Details, readback : Nat])
  BY Here DEF Counts
<1>3. /\ handler[h].used \in 1..agreed
      /\ handler[h].details = readbacks[handler[h].used]
  BY <1>1, Here DEF HandlerOk
<1>4. handler[h].used \in Nat /\ handler[h].details \in Details
  BY <1>2, <1>3, ElementOf
<1>5. w \in [details : Details, readback : Nat]
  BY <1>4
<1>6. booked' \in Seq([details : Details, readback : Nat]) /\ Len(booked') = b
  <2> HIDE DEF w
  <2> QED
    BY <1>1, <1>2, <1>5
<1>7. Counts'
  BY <1>1, <1>2, <1>6 DEF Counts
<1>8. /\ \A y : RecordOk(y, readbacks, agreed, Len(booked)) => RecordOk(y, readbacks, agreed, b)
      /\ \A y : PatchOk(y, readbacks, agreed, Len(booked)) => PatchOk(y, readbacks, agreed, b)
      /\ \A y : HandlerOk(y, readbacks, agreed, Len(booked)) => HandlerOk(y, readbacks, agreed, b)
  BY <1>2, Later
<1>9. /\ memory # None => RecordOk(memory, readbacks, agreed, b)
      /\ PatchOk(row, readbacks, agreed, b)
      /\ HandlerOk(handler[h], readbacks, agreed, b)
  BY <1>8, Here
<1>10. PatchOk(p, readbacks, agreed, b)
  <2>1. d \in Draft /\ DraftOk(d, b)
    BY <1>2, <1>4 DEF Draft, DraftOk
  <2>2. PatchOk(handler[h].patch, readbacks, agreed, b)
    BY <1>9 DEF HandlerOk
  <2> HIDE DEF d, b
  <2> QED
    BY <2>1, <2>2 DEF PatchOk, Patch
<1>11. PatchOk(row', readbacks', agreed', Len(booked'))
  <2>1. b \in Nat /\ agreed \in Nat
    BY <1>2
  <2> HIDE DEF p, b
  <2>2. PatchOk(Merged(row, p), readbacks, agreed, b)
    BY <1>2, <1>9, <1>10, <2>1, CopiesOk, EmptyOk
  <2> QED
    BY <1>1, <1>6, <2>2
<1>12. HandlerOk(x, readbacks', agreed', Len(booked'))
  <2>1. handler[h] \in HandlerType /\ b \in Nat /\ b \in 1..b
    BY <1>2, Here
  <2> HIDE DEF b
  <2>2. /\ x \in HandlerType /\ x.pc = "remember" /\ x.found = b
        /\ x.seen = handler[h].seen /\ x.patch = handler[h].patch
    BY <2>1 DEF HandlerType
  <2> HIDE DEF x
  <2> QED
    BY <1>1, <1>6, <1>9, <2>1, <2>2 DEF HandlerOk
<1>13. memory' # None => RecordOk(memory', readbacks', agreed', Len(booked'))
  BY <1>1, <1>6, <1>9
<1> HIDE DEF x, p, w
<1> QED
  BY <1>1, <1>2, <1>6, <1>7, <1>11, <1>12, <1>13, Grow

-----------------------------------------------------------------------------
(* Theorems *)

LEMMA NextOk == Inv /\ [Next]_vars => Inv'
<1> SUFFICES ASSUME Inv, [Next]_vars PROVE Inv'
  OBVIOUS
<1>1. ASSUME NEW h \in Handlers, Step(h) PROVE Inv'
  BY <1>1, ArriveOk, ReadRowOk, CallerTurnOk, SaveDraftOk, ReadBackOk, ShowDraftOk,
     ApplyBookingOk, OtherReadbackOk, PersistOk, ReadSessionOk, CheckGateOk,
     InsertOk, CommitOk, RememberOk, FailOk DEF Step
<1>2. CASE UNCHANGED vars
  BY <1>2 DEF vars, talk, Inv, Counts, MemoryOk, RowOk, HandlersOk
<1> QED
  BY <1>1, <1>2, RestartOk DEF Next

Flagged == overlapped \in BOOLEAN

LEMMA OverlapIsFlag == Spec => []Flagged
<1>1. Init => Flagged
  BY DEF Init, Flagged
<1>2. Flagged /\ [Next]_vars => Flagged'
  BY Zenon DEF Next, vars, Flagged
<1> QED
  BY <1>1, <1>2, PTL DEF Spec

LEMMA InvGives ==
  Inv /\ Flagged => TypeOK /\ NextYesConfirms
<1> SUFFICES ASSUME Inv, Flagged PROVE TypeOK /\ NextYesConfirms
  OBVIOUS
<1>1. memory \in Memory \cup {None}
  BY DEF Inv, MemoryOk, RecordOk
<1>2. row \in Patch
  BY DEF Inv, RowOk, PatchOk
<1>3. TypeOK
  BY <1>1, <1>2 DEF Inv, Counts, MemoryOk, RowOk, HandlersOk, TypeOK,
    Flagged, RecordOk, PatchOk, DraftOk
<1>4. ASSUME memory # None, memory.gate.pending # None
      PROVE  ~(memory.gate.pending.turn > memory.gate.turn)
  <2>1. memory.gate \in Gate /\ memory.gate.pending.turn <= memory.gate.turn
    BY <1>4 DEF Inv, MemoryOk, RecordOk, GateOk
  <2>2. memory.gate.turn \in Nat /\ memory.gate.pending.turn \in Nat
    BY <1>4, <2>1 DEF Gate, Pending
  <2> QED
    BY <2>1, <2>2
<1> QED
  BY <1>3, <1>4 DEF NextYesConfirms, Ahead

\* In every execution each variable holds a value of its kind, and a draft in
\* memory or in the row names no booking that was not committed.
THEOREM TypeCorrect == Spec => []TypeOK
BY InitOk, NextOk, OverlapIsFlag, InvGives, PTL DEF Spec

\* However turns, readbacks, hydrations, late writes of the row and crashes
\* interleave, the pending readback in memory is never ahead of the turn
\* counter (begin_caller_turn and register_pending_confirmation).
THEOREM NextYesSuffices == Spec => []NextYesConfirms
BY InitOk, NextOk, OverlapIsFlag, InvGives, PTL DEF Spec

\* A step of the promise: only CallerTurn, ReadBack and Commit take one.
LEMMA StepsPromise ==
  ASSUME Inv, [Next]_vars PROVE [Promise!Next]_(Promise!vars)
<1>1. ASSUME NEW h \in Handlers, CallerTurn(h) PROVE [Promise!Next]_(Promise!vars)
  <2>1. /\ readbacks' = readbacks /\ booked' = booked
        /\ agreed' = Len(readbacks) \/ agreed' = agreed
    BY <1>1 DEF CallerTurn
  <2> QED
    BY <2>1 DEF Promise!Next, Promise!Yes, Promise!vars
<1>2. ASSUME NEW h \in Handlers, ReadBack(h) PROVE [Promise!Next]_(Promise!vars)
  <2> DEFINE m == OrFresh(Recalled(h))
  <2>1. /\ readbacks' = Append(readbacks, m.draft.details)
        /\ agreed' = agreed /\ booked' = booked /\ m.draft.details # None
    BY <1>2 DEF ReadBack
  <2>2. m.draft.details \in Details
    BY <2>1, Here DEF RecordOk, Memory, Draft
  <2> HIDE DEF m
  <2> QED
    BY <2>1, <2>2 DEF Promise!Next, Promise!ReadBack
<1>3. ASSUME NEW h \in Handlers, Commit(h) PROVE [Promise!Next]_(Promise!vars)
  <2>1. /\ handler[h].used \in 1..agreed
        /\ handler[h].details = readbacks[handler[h].used]
    BY <1>3, Here DEF Commit, HandlerOk
  <2>2. /\ readbacks' = readbacks /\ agreed' = agreed
        /\ booked' = Append(booked, [details |-> handler[h].details,
                                     readback |-> handler[h].used])
    BY <1>3 DEF Commit, talk
  <2>3. Promise!Book(handler[h].used)
    BY <2>1, <2>2 DEF Promise!Book
  <2> QED
    BY <2>1, <2>3 DEF Promise!Next
<1>4. ASSUME UNCHANGED <<talk, booked>> PROVE [Promise!Next]_(Promise!vars)
  BY <1>4 DEF talk, Promise!vars
<1>5. ASSUME NEW h \in Handlers,
             Arrive(h) \/ ReadRow(h) \/ SaveDraft(h) \/ ShowDraft(h) \/ ApplyBooking(h)
             \/ OtherReadback(h) \/ Persist(h) \/ ReadSession(h) \/ CheckGate(h)
             \/ Insert(h) \/ Remember(h) \/ Fail(h)
      PROVE  UNCHANGED <<talk, booked>>
  BY <1>5 DEF Arrive, ReadRow, SaveDraft, ShowDraft, ApplyBooking, OtherReadback,
    Persist, ReadSession, CheckGate, Insert, Remember, Fail, talk
<1>6. CASE Restart
  BY <1>4, <1>6 DEF Restart
<1>7. CASE UNCHANGED vars
  BY <1>4, <1>7 DEF vars, talk
<1>8. ASSUME NEW h \in Handlers, Step(h) PROVE [Promise!Next]_(Promise!vars)
  <2>1. CASE CallerTurn(h)
    BY <2>1, <1>1
  <2>2. CASE ReadBack(h)
    BY <2>2, <1>2
  <2>3. CASE Commit(h)
    BY <2>3, <1>3
  <2>4. CASE ~CallerTurn(h) /\ ~ReadBack(h) /\ ~Commit(h)
    <3>1. UNCHANGED <<talk, booked>>
      BY <2>4, <1>5, <1>8 DEF Step
    <3> QED
      BY <3>1, <1>4
  <2> QED
    BY <2>1, <2>2, <2>3, <2>4
<1> QED
  BY <1>6, <1>7, <1>8 DEF Next

\* The memory, the row and the gate of a call implement the promise of
\* Confirmation: create_booking commits only details that were read back
\* before a yes, whatever was restored, overwritten or lost in between.
THEOREM KeepsThePromise == Spec => ImplementsConfirmation
<1>1. Init => Promise!Init
  BY DEF Init, Promise!Init
<1> QED
  BY <1>1, InitOk, NextOk, StepsPromise, PTL
     DEF Spec, ImplementsConfirmation, Promise!Spec

-----------------------------------------------------------------------------
(* Single use.  While requests come one at a time, no copy of the gate that  *)
(* can still be restored or consulted holds a record that was used: memory   *)
(* is cleared before the commit, and the row with it.                        *)

Unspent(id, bk) == \A i \in 1..Len(bk) : bk[i].readback # id
GateUnspent(g, bk) == g.pending # None => Unspent(g.pending.id, bk)
CopyUnspent(m, bk) == m # None => GateUnspent(m.gate, bk)
KeysUnspent(p, bk) == p.gate # None => GateUnspent(p.gate, bk)

\* What a request holds; a request about to commit has cleared the record.
Holds(x, m, bk) ==
  /\ x.pc = "body" => KeysUnspent(x.seen, bk)
  /\ x.pc = "persist" => KeysUnspent(x.patch, bk)
  /\ x.pc \in {"insert", "commit"} => Unspent(x.used, bk)
  /\ x.pc = "commit" =>
       /\ m # None => m.gate.pending = None
       /\ x.patch.gate # None /\ x.patch.gate.pending = None

Numbered == \A i \in 1..Len(booked) : booked[i].readback \in 1..Len(readbacks)

Once == \A i, j \in 1..Len(booked) : i # j => booked[i].readback # booked[j].readback

SerialInv ==
  ~overlapped =>
    /\ ~Overlap
    /\ CopyUnspent(memory, booked)
    /\ KeysUnspent(row, booked)
    /\ \A h \in Handlers : Holds(handler[h], memory, booked)
    /\ Once

LEMMA IdleHolds == \A m, bk : Holds(Idle, m, bk)
BY DEF Holds, Idle

\* Restoring, clearing and merging bring no used record back.
LEMMA CopiesUnspent ==
  ASSUME NEW m, NEW s, NEW p, NEW bk, CopyUnspent(m, bk), KeysUnspent(s, bk),
         KeysUnspent(p, bk)
  PROVE  /\ GateUnspent(OrFresh(m).gate, bk)
         /\ CopyUnspent(Hydrated(m, s), bk)
         /\ GateUnspent(OrFresh(Hydrated(m, s)).gate, bk)
         /\ KeysUnspent(Merged(s, p), bk)
<1>1. GateUnspent(Fresh.gate, bk)
  BY DEF GateUnspent, Fresh
<1>2. GateUnspent(OrFresh(m).gate, bk)
  BY <1>1 DEF OrFresh, CopyUnspent
<1>3. CopyUnspent(Hydrated(m, s), bk)
  <2>1. CASE s = NoKeys
    BY <2>1 DEF Hydrated
  <2>2. CASE s # NoKeys
    <3>1. Hydrated(m, s).gate = IF s.gate = None THEN OrFresh(m).gate ELSE s.gate
      BY <2>2 DEF Hydrated
    <3> QED
      BY <1>2, <3>1 DEF CopyUnspent, KeysUnspent
  <2> QED
    BY <2>1, <2>2
<1>4. GateUnspent(OrFresh(Hydrated(m, s)).gate, bk)
  BY <1>1, <1>3 DEF OrFresh, CopyUnspent
<1>5. Merged(s, p).gate = IF p.gate = None THEN s.gate ELSE p.gate
  BY DEF Merged
<1>6. KeysUnspent(Merged(s, p), bk)
  BY <1>5 DEF KeysUnspent
<1> QED
  BY <1>2, <1>3, <1>4, <1>6

\* Memory without its pending record.
LEMMA ClearedHas ==
  ASSUME Inv, NEW h \in Handlers
  PROVE  Cleared(memory).gate \in Gate /\ Cleared(memory).gate.pending = None
<1>1. OrFresh(memory) \in Memory /\ OrFresh(memory).gate \in Gate
  BY Here DEF RecordOk, Memory
<1> DEFINE f == OrFresh(memory)
           g == [f.gate EXCEPT !.pending = None]
<1>2. g \in Gate /\ g.pending = None
  BY <1>1 DEF Gate
<1>3. Cleared(memory) = [gate |-> g, draft |-> f.draft]
  BY <1>1 DEF Cleared, Memory
<1> HIDE DEF f, g
<1> QED
  BY <1>2, <1>3

\* A step of the only request keeps the invariant if what it writes does.
LEMMA AloneStep ==
  ASSUME SerialInv, NEW h \in Handlers, NEW x, Become(h, x),
         handler \in [Handlers -> HandlerType],
         ~overlapped, ~Overlap', handler[h] # Idle \/ x # Idle,
         Holds(x, memory', booked'), CopyUnspent(memory', booked'),
         KeysUnspent(row', booked'), Once'
  PROVE  SerialInv'
<1>1. handler' = [handler EXCEPT ![h] = x]
  BY DEF Become
<1>2. ASSUME NEW g \in Handlers, g # h PROVE handler'[g] = Idle
  <2>1. handler'[g] = handler[g] /\ handler'[h] = x
    BY <1>1, <1>2
  <2>2. CASE handler[h] # Idle
    BY <1>2, <2>1, <2>2 DEF SerialInv, Overlap
  <2>3. CASE x # Idle
    BY <1>2, <2>1, <2>3 DEF Overlap
  <2> QED
    BY <2>2, <2>3
<1>3. ASSUME NEW g \in Handlers PROVE Holds(handler'[g], memory', booked')
  <2>1. CASE g = h
    BY <1>1, <2>1
  <2>2. CASE g # h
    BY <1>2, <2>2, IdleHolds
  <2> QED
    BY <2>1, <2>2
<1> QED
  BY <1>3 DEF SerialInv

\* The same for a step that makes no readback and no booking.
LEMMA QuietAlone ==
  ASSUME SerialInv, NEW h \in Handlers, NEW x, Become(h, x),
         handler \in [Handlers -> HandlerType],
         ~overlapped, ~Overlap', handler[h] # Idle \/ x # Idle,
         readbacks' = readbacks, booked' = booked,
         Holds(x, memory', booked), CopyUnspent(memory', booked), KeysUnspent(row', booked)
  PROVE  SerialInv'
<1>1. Once'
  BY DEF SerialInv, Once
<1>2. Holds(x, memory', booked') /\ CopyUnspent(memory', booked') /\ KeysUnspent(row', booked')
  OBVIOUS
<1> QED
  BY <1>1, <1>2, AloneStep

\* What is known where a request takes a step alone.
LEMMA HereAlone ==
  ASSUME Inv, SerialInv, ~overlapped, NEW h \in Handlers
  PROVE  /\ handler[h] \in HandlerType /\ handler \in [Handlers -> HandlerType]
         /\ Holds(handler[h], memory, booked)
         /\ CopyUnspent(memory, booked) /\ KeysUnspent(row, booked)
         /\ GateUnspent(OrFresh(memory).gate, booked)
         /\ KeysUnspent(NoKeys, booked)
         /\ handler[h].pc = "body" =>
              /\ CopyUnspent(Recalled(h), booked)
              /\ GateUnspent(OrFresh(Recalled(h)).gate, booked)
<1>1. /\ handler[h] \in HandlerType /\ handler \in [Handlers -> HandlerType]
      /\ Holds(handler[h], memory, booked)
      /\ CopyUnspent(memory, booked) /\ KeysUnspent(row, booked)
  BY Here DEF SerialInv, Inv, HandlersOk
<1>2. KeysUnspent(NoKeys, booked)
  BY DEF KeysUnspent, NoKeys
<1>3. GateUnspent(OrFresh(memory).gate, booked)
  BY <1>1, <1>2, CopiesUnspent
<1>4. ASSUME handler[h].pc = "body"
      PROVE  /\ CopyUnspent(Recalled(h), booked)
             /\ GateUnspent(OrFresh(Recalled(h)).gate, booked)
  <2>1. KeysUnspent(handler[h].seen, booked)
    BY <1>1, <1>4 DEF Holds
  <2> QED
    BY <1>1, <1>2, <2>1, CopiesUnspent DEF Recalled
<1> QED
  BY <1>1, <1>2, <1>3, <1>4

\* A request that stops.
LEMMA StopsAlone ==
  ASSUME Inv, SerialInv, ~overlapped, ~Overlap', NEW h \in Handlers, Finish(h),
         handler[h].pc # "idle", readbacks' = readbacks, booked' = booked,
         CopyUnspent(memory', booked), KeysUnspent(row', booked)
  PROVE  SerialInv'
<1>1. handler[h] # Idle
  BY DEF Idle
<1> QED
  BY <1>1, HereAlone, IdleHolds, QuietAlone DEF Finish

\* A request that goes on, to a place and with what it holds there.
LEMMA GoesOnAlone ==
  ASSUME Inv, SerialInv, ~overlapped, ~Overlap', NEW h \in Handlers, NEW x,
         Become(h, x), x.pc # "idle", readbacks' = readbacks, booked' = booked,
         Holds(x, memory', booked), CopyUnspent(memory', booked), KeysUnspent(row', booked)
  PROVE  SerialInv'
<1>1. x # Idle
  BY DEF Idle
<1> QED
  BY <1>1, HereAlone, QuietAlone

\* A request that goes on to save a patch.
LEMMA SavesAlone ==
  ASSUME Inv, SerialInv, ~overlapped, ~Overlap', NEW h \in Handlers, NEW p,
         Become(h, [handler[h] EXCEPT !.pc = "persist", !.patch = p]),
         readbacks' = readbacks, booked' = booked,
         KeysUnspent(p, booked), CopyUnspent(memory', booked), KeysUnspent(row', booked)
  PROVE  SerialInv'
<1> DEFINE x == [handler[h] EXCEPT !.pc = "persist", !.patch = p]
<1>1. x.pc = "persist" /\ x.patch = p
  BY HereAlone DEF HandlerType
<1> HIDE DEF x
<1>2. Holds(x, memory', booked)
  BY <1>1 DEF Holds
<1>3. Become(h, x)
  BY DEF x
<1> QED
  BY <1>1, <1>2, <1>3, GoesOnAlone

LEMMA ArriveAlone ==
  ASSUME Inv, SerialInv, ~overlapped, ~Overlap', NEW h \in Handlers, Arrive(h)
  PROVE  SerialInv'
<1>1. PICK op \in Operations :
        \E d \in IF op \in {"draft", "create"} THEN Details ELSE {None} :
          Become(h, [Idle EXCEPT
            !.op = op, !.details = d,
            !.pc = IF op = "create" THEN "session"
                   ELSE IF Hydrates(op) /\ memory = None THEN "read" ELSE "body"])
  BY DEF Arrive
<1> DEFINE q == IF op = "create" THEN "session"
                ELSE IF Hydrates(op) /\ memory = None THEN "read" ELSE "body"
<1>2. PICK d : Become(h, [Idle EXCEPT !.op = op, !.details = d, !.pc = q])
  BY <1>1
<1> DEFINE x == [Idle EXCEPT !.op = op, !.details = d, !.pc = q]
<1>3. q \in {"session", "read", "body"}
  OBVIOUS
<1> HIDE DEF q
<1>4. x.pc = q /\ x.seen = NoKeys
  BY DEF Idle
<1> HIDE DEF x
<1>5. Holds(x, memory, booked)
  BY <1>3, <1>4, HereAlone DEF Holds
<1>6. memory' = memory /\ row' = row /\ readbacks' = readbacks /\ booked' = booked
  BY DEF Arrive, talk
<1> QED
  BY <1>2, <1>3, <1>4, <1>5, <1>6, HereAlone, GoesOnAlone DEF x

LEMMA ReadAlone ==
  ASSUME Inv, SerialInv, ~overlapped, ~Overlap', NEW h \in Handlers,
         ReadRow(h) \/ ReadSession(h)
  PROVE  SerialInv'
<1>1. PICK p \in {"body", "gate"}, s \in {row, NoKeys} :
        Become(h, [handler[h] EXCEPT !.pc = p, !.seen = s])
  BY DEF ReadRow, ReadSession
<1> DEFINE x == [handler[h] EXCEPT !.pc = p, !.seen = s]
<1>2. x.pc = p /\ x.seen = s
  BY HereAlone DEF HandlerType
<1>3. Become(h, x)
  BY <1>1
<1> HIDE DEF x
<1>4. Holds(x, memory, booked)
  BY <1>2, HereAlone DEF Holds
<1>5. memory' = memory /\ row' = row /\ readbacks' = readbacks /\ booked' = booked
  BY DEF ReadRow, ReadSession, talk
<1> QED
  BY <1>2, <1>3, <1>4, <1>5, HereAlone, GoesOnAlone

LEMMA CallerTurnAlone ==
  ASSUME Inv, SerialInv, ~overlapped, ~Overlap', NEW h \in Handlers, CallerTurn(h)
  PROVE  SerialInv'
<1> DEFINE m == OrFresh(Recalled(h))
<1>1. PICK y \in BOOLEAN : memory' = [m EXCEPT !.gate.turn = @ + 1, !.gate.yes = y]
  BY DEF CallerTurn
<1>2. m \in Memory /\ m.gate \in Gate
  BY Here DEF RecordOk, Memory
<1>3. GateUnspent(m.gate, booked) /\ handler[h].pc = "body"
  BY HereAlone DEF CallerTurn, Body
<1>4. Finish(h) /\ row' = row /\ readbacks' = readbacks /\ booked' = booked
  BY DEF CallerTurn
<1> HIDE DEF m
<1>5. memory'.gate.pending = m.gate.pending
  BY <1>1, <1>2 DEF Memory, Gate
<1>6. CopyUnspent(memory', booked)
  BY <1>3, <1>5 DEF CopyUnspent, GateUnspent
<1> QED
  BY <1>3, <1>4, <1>6, HereAlone, StopsAlone

\* Steps that change the draft and not the gate.
LEMMA DraftAlone ==
  ASSUME Inv, SerialInv, ~overlapped, ~Overlap', NEW h \in Handlers,
         SaveDraft(h) \/ ShowDraft(h) \/ ApplyBooking(h) \/ Remember(h)
  PROVE  SerialInv'
<1>1. row' = row /\ readbacks' = readbacks /\ booked' = booked
  BY DEF SaveDraft, ShowDraft, ApplyBooking, Remember, talk
<1>2. ASSUME NEW d PROVE KeysUnspent([gate |-> None, draft |-> d], booked)
  BY DEF KeysUnspent
<1>3. ASSUME NEW m \in Memory, NEW d, GateUnspent(m.gate, booked)
      PROVE  CopyUnspent([m EXCEPT !.draft = d], booked)
  <2>1. [m EXCEPT !.draft = d].gate = m.gate
    BY DEF Memory
  <2> QED
    BY <1>3, <2>1 DEF CopyUnspent
<1>4. OrFresh(memory) \in Memory /\ OrFresh(Recalled(h)) \in Memory
  BY Here DEF RecordOk
<1>5. CASE SaveDraft(h)
  <2> DEFINE m == OrFresh(Recalled(h))
             d == [m.draft EXCEPT !.details = handler[h].details]
  <2>1. \/ memory' = m /\ Finish(h)
        \/ /\ memory' = [m EXCEPT !.draft = d]
           /\ Become(h, [handler[h] EXCEPT !.pc = "persist",
                                           !.patch = [gate |-> None, draft |-> d]])
    BY <1>5 DEF SaveDraft
  <2>2. handler[h].pc = "body" /\ GateUnspent(m.gate, booked) /\ m \in Memory
    BY <1>4, <1>5, HereAlone DEF SaveDraft, Body
  <2> HIDE DEF m, d
  <2>3. CASE memory' = m /\ Finish(h)
    BY <1>1, <2>2, <2>3, HereAlone, StopsAlone DEF CopyUnspent
  <2> DEFINE p == [gate |-> None, draft |-> d]
  <2>4. CASE /\ memory' = [m EXCEPT !.draft = d]
             /\ Become(h, [handler[h] EXCEPT !.pc = "persist", !.patch = p])
    <3>1. KeysUnspent(p, booked) /\ CopyUnspent(memory', booked)
      BY <1>2, <1>3, <2>2, <2>4
    <3>2. KeysUnspent(row', booked)
      BY <1>1, HereAlone
    <3> HIDE DEF p
    <3> QED
      BY <1>1, <2>4, <3>1, <3>2, SavesAlone
  <2> QED
    BY <2>1, <2>3, <2>4
<1>6. CASE ShowDraft(h)
  <2>1. memory' = Recalled(h) /\ handler[h].pc = "body"
    BY <1>6 DEF ShowDraft, Body
  <2>2. PICK b : Finish(h) \/ Become(h, [handler[h] EXCEPT !.pc = "lookup", !.found = b])
    BY <1>6 DEF ShowDraft
  <2> DEFINE x == [handler[h] EXCEPT !.pc = "lookup", !.found = b]
  <2>3. x.pc = "lookup"
    BY HereAlone DEF HandlerType
  <2>4. Finish(h) \/ Become(h, x)
    BY <2>2
  <2> HIDE DEF x
  <2>5. Holds(x, memory', booked)
    BY <2>3 DEF Holds
  <2> QED
    BY <1>1, <2>1, <2>3, <2>4, <2>5, HereAlone, StopsAlone, GoesOnAlone
<1>7. CASE ApplyBooking(h)
  BY <1>1, <1>2, <1>3, <1>4, <1>7, HereAlone, SavesAlone DEF ApplyBooking
<1>8. CASE Remember(h)
  BY <1>1, <1>3, <1>4, <1>8, HereAlone, StopsAlone DEF Remember
<1> QED
  BY <1>5, <1>6, <1>7, <1>8

\* A new readback has a number of its own.
LEMMA ReadBackAlone ==
  ASSUME Inv, Numbered, SerialInv, ~overlapped, ~Overlap', NEW h \in Handlers, ReadBack(h)
  PROVE  SerialInv'
<1> DEFINE m == OrFresh(Recalled(h))
           n == Len(readbacks) + 1
           q == [details |-> m.draft.details, turn |-> m.gate.turn, id |-> n]
           g == [m.gate EXCEPT !.pending = q]
           x == [handler[h] EXCEPT !.pc = "persist", !.patch = GatePatch(g)]
<1>1. /\ readbacks' = Append(readbacks, m.draft.details)
      /\ memory' = [m EXCEPT !.gate = g] /\ Become(h, x)
      /\ row' = row /\ booked' = booked
  BY DEF ReadBack
<1>2. /\ readbacks \in Seq(Details) /\ Len(readbacks) \in Nat /\ m \in Memory /\ m.gate \in Gate
  BY Here DEF Counts, RecordOk, Memory
<1>3. Len(readbacks') = n
  <2> HIDE DEF m
  <2> QED
    BY <1>1, <1>2
<1>4. Unspent(n, booked)
  BY <1>2 DEF Numbered, Unspent
<1>5. q.id = n
  OBVIOUS
<1> HIDE DEF m, q
<1>6. g.pending = q
  BY <1>2 DEF Gate
<1> HIDE DEF g
<1>7. GateUnspent(g, booked) /\ memory'.gate = g
  BY <1>1, <1>2, <1>4, <1>5, <1>6 DEF GateUnspent, Memory
<1>8. x.pc = "persist" /\ x.patch = GatePatch(g)
  BY HereAlone DEF HandlerType
<1> HIDE DEF x
<1>9. Holds(x, memory', booked') /\ CopyUnspent(memory', booked') /\ KeysUnspent(row', booked')
  BY <1>1, <1>7, <1>8, HereAlone DEF Holds, CopyUnspent, KeysUnspent, GatePatch
<1>10. Once'
  BY <1>1 DEF SerialInv, Once
<1>11. x # Idle
  BY <1>8 DEF Idle
<1> QED
  BY <1>1, <1>9, <1>10, <1>11, HereAlone, AloneStep

LEMMA OtherAlone ==
  ASSUME Inv, SerialInv, ~overlapped, ~Overlap', NEW h \in Handlers, OtherReadback(h)
  PROVE  SerialInv'
<1> DEFINE m == OrFresh(memory)
<1>1. /\ memory' = m /\ row' = row /\ readbacks' = readbacks /\ booked' = booked
      /\ Become(h, [handler[h] EXCEPT !.pc = "persist", !.patch = GatePatch(m.gate)])
  BY DEF OtherReadback, talk
<1>2. GateUnspent(m.gate, booked)
  BY HereAlone
<1> HIDE DEF m
<1>3. KeysUnspent(GatePatch(m.gate), booked) /\ CopyUnspent(memory', booked)
  BY <1>1, <1>2 DEF CopyUnspent, KeysUnspent, GatePatch
<1>4. KeysUnspent(row', booked)
  BY <1>1, HereAlone
<1> QED
  BY <1>1, <1>3, <1>4, SavesAlone

LEMMA PersistAlone ==
  ASSUME Inv, SerialInv, ~overlapped, ~Overlap', NEW h \in Handlers, Persist(h) \/ Fail(h)
  PROVE  SerialInv'
<1>1. memory' = memory /\ readbacks' = readbacks /\ booked' = booked /\ Finish(h)
  BY DEF Persist, Fail, talk
<1>2. CASE Persist(h)
  <2>1. row' = Merged(row, handler[h].patch) /\ handler[h].pc = "persist"
    BY <1>2 DEF Persist
  <2>2. KeysUnspent(handler[h].patch, booked)
    BY <2>1, HereAlone DEF Holds
  <2>3. KeysUnspent(row', booked)
    BY <2>1, <2>2, HereAlone, CopiesUnspent
  <2> QED
    BY <1>1, <2>1, <2>3, HereAlone, StopsAlone
<1>3. CASE Fail(h)
  BY <1>1, <1>3, HereAlone, IdleHolds, QuietAlone DEF Fail, Finish
<1> QED
  BY <1>2, <1>3

LEMMA GateAlone ==
  ASSUME Inv, SerialInv, ~overlapped, ~Overlap', NEW h \in Handlers, CheckGate(h)
  PROVE  SerialInv'
<1> DEFINE g == OrFresh(memory).gate
           x == [handler[h] EXCEPT !.pc = "insert", !.used = g.pending.id]
<1>1. /\ row' = row /\ readbacks' = readbacks /\ booked' = booked /\ handler[h].pc = "gate"
      /\ \/ memory' = memory /\ Finish(h)
         \/ memory' = Cleared(memory) /\ Finish(h)
         \/ g.pending # None /\ memory' = memory /\ Become(h, x)
  BY DEF CheckGate, talk, Accepts
<1>2. GateUnspent(g, booked)
  BY HereAlone
<1> HIDE DEF g
<1>3. x.pc = "insert" /\ x.used = g.pending.id
  BY HereAlone DEF HandlerType
<1> HIDE DEF x
<1>4. g.pending # None => Holds(x, memory, booked)
  BY <1>2, <1>3 DEF Holds, GateUnspent
<1>5. CopyUnspent(Cleared(memory), booked)
  BY ClearedHas DEF CopyUnspent, GateUnspent
<1> QED
  BY <1>1, <1>3, <1>4, <1>5, HereAlone, StopsAlone, GoesOnAlone

\* The record is cleared in memory, and in the patch that the commit carries.
LEMMA InsertAlone ==
  ASSUME Inv, SerialInv, ~overlapped, ~Overlap', NEW h \in Handlers, Insert(h)
  PROVE  SerialInv'
<1> DEFINE p == GatePatch(Cleared(memory).gate)
           x == [handler[h] EXCEPT !.pc = "commit", !.patch = p]
<1>1. /\ row' = row /\ readbacks' = readbacks /\ booked' = booked /\ handler[h].pc = "insert"
      /\ memory' = Cleared(memory) /\ Become(h, x)
  BY DEF Insert, talk
<1>2. p.gate # None /\ p.gate.pending = None
  BY ClearedHas, NoneAssumption DEF GatePatch
<1> HIDE DEF p
<1>3. x.pc = "commit" /\ x.patch = p /\ x.used = handler[h].used
  BY HereAlone DEF HandlerType
<1> HIDE DEF x
<1>4. Unspent(handler[h].used, booked)
  BY <1>1, HereAlone DEF Holds
<1>5. Holds(x, memory', booked)
  BY <1>1, <1>2, <1>3, <1>4, ClearedHas DEF Holds
<1>6. CopyUnspent(memory', booked)
  BY <1>1, ClearedHas DEF CopyUnspent, GateUnspent
<1> QED
  BY <1>1, <1>3, <1>5, <1>6, HereAlone, GoesOnAlone

\* With the booking the row loses the record that was used for it.
LEMMA CommitAlone ==
  ASSUME Inv, SerialInv, ~overlapped, ~Overlap', NEW h \in Handlers, Commit(h)
  PROVE  SerialInv'
<1> DEFINE b == Len(booked) + 1
           d == [details |-> handler[h].details, booking |-> b]
           p == [handler[h].patch EXCEPT !.draft = d]
           x == [handler[h] EXCEPT !.pc = "remember", !.found = b]
           w == [details |-> handler[h].details, readback |-> handler[h].used]
<1>1. /\ handler[h].pc = "commit"
      /\ booked' = Append(booked, w) /\ row' = Merged(row, p) /\ Become(h, x)
      /\ memory' = memory /\ readbacks' = readbacks
  BY DEF Commit, talk
<1>2. /\ Unspent(handler[h].used, booked)
      /\ memory # None => memory.gate.pending = None
      /\ handler[h].patch.gate # None /\ handler[h].patch.gate.pending = None
  BY <1>1, HereAlone DEF Holds
<1>3. /\ handler[h].patch \in Patch /\ Len(booked) \in Nat
      /\ booked \in Seq([details : Details, readback : Nat])
  BY Here DEF Counts, HandlerType
<1>4. w.readback = handler[h].used
  OBVIOUS
<1> HIDE DEF w
<1>5. /\ Len(booked') = Len(booked) + 1
      /\ booked'[Len(booked) + 1].readback = handler[h].used
      /\ \A i \in 1..Len(booked) : booked'[i] = booked[i]
  BY <1>1, <1>3, <1>4
<1>7. Once'
  BY <1>2, <1>3, <1>5 DEF SerialInv, Once, Unspent
<1>8. p.gate = handler[h].patch.gate
  <2> HIDE DEF d
  <2> QED
    BY <1>3 DEF Patch
<1> HIDE DEF p
<1>9. row'.gate = handler[h].patch.gate
  BY <1>1, <1>2, <1>8 DEF Merged
<1>10. KeysUnspent(row', booked') /\ CopyUnspent(memory', booked')
  BY <1>1, <1>2, <1>9 DEF KeysUnspent, CopyUnspent, GateUnspent
<1>11. x.pc = "remember"
  <2> HIDE DEF b
  <2> QED
    BY HereAlone DEF HandlerType
<1> HIDE DEF x
<1>12. Holds(x, memory', booked') /\ x # Idle
  BY <1>11 DEF Holds, Idle
<1> QED
  BY <1>1, <1>7, <1>10, <1>12, HereAlone, AloneStep

\* The bookings name readbacks that were made, whether or not requests overlap.
LEMMA NumberedKept ==
  ASSUME Inv, Numbered, [Next]_vars PROVE Numbered'
<1>1. Counts /\ Len(readbacks) \in Nat /\ Len(booked) \in Nat
  BY DEF Inv, Counts
<1>2. CASE readbacks' = readbacks /\ booked' = booked
  BY <1>2 DEF Numbered
<1>3. ASSUME NEW h \in Handlers, ReadBack(h) PROVE Numbered'
  <2> DEFINE d == OrFresh(Recalled(h)).draft.details
  <2>1. readbacks' = Append(readbacks, d) /\ booked' = booked
    BY <1>3 DEF ReadBack
  <2> HIDE DEF d
  <2>2. Len(readbacks') = Len(readbacks) + 1
    BY <1>1, <2>1 DEF Counts
  <2> QED
    BY <1>1, <2>1, <2>2 DEF Numbered
<1>4. ASSUME NEW h \in Handlers, Commit(h) PROVE Numbered'
  <2> DEFINE w == [details |-> handler[h].details, readback |-> handler[h].used]
  <2>1. booked' = Append(booked, w) /\ readbacks' = readbacks /\ handler[h].pc = "commit"
    BY <1>4 DEF Commit, talk
  <2>2. w.readback \in 1..Len(readbacks)
    BY <1>1, <2>1, Here DEF HandlerOk, Counts
  <2> HIDE DEF w
  <2>3. \A i \in 1..Len(booked') : \/ /\ i \in 1..Len(booked)
                                     /\ booked'[i] = booked[i]
                                  \/ booked'[i] = w
    BY <1>1, <2>1 DEF Counts
  <2> QED
    BY <2>1, <2>2, <2>3 DEF Numbered
<1>5. ASSUME NEW h \in Handlers, Step(h), ~ReadBack(h), ~Commit(h)
      PROVE  readbacks' = readbacks /\ booked' = booked
  BY <1>5 DEF Step, Arrive, ReadRow, CallerTurn, SaveDraft, ShowDraft, ApplyBooking,
    OtherReadback, Persist, ReadSession, CheckGate, Insert, Remember, Fail, talk
<1>6. CASE Restart \/ UNCHANGED vars
  BY <1>2, <1>6 DEF Restart, vars, talk
<1> QED
  BY <1>2, <1>3, <1>4, <1>5, <1>6 DEF Next

LEMMA NextAlone ==
  ASSUME Inv, Numbered, SerialInv, Flagged, [Next]_vars PROVE SerialInv'
<1>1. CASE overlapped'
  BY <1>1 DEF SerialInv
<1>2. CASE UNCHANGED vars
  BY <1>2 DEF vars, SerialInv, Overlap, Once
<1>3. ASSUME ~overlapped', Next PROVE SerialInv'
  <2>1. ~overlapped /\ ~Overlap' /\ (Restart \/ \E h \in Handlers : Step(h))
    BY <1>3 DEF Next
  <2>2. CASE Restart
    <3>1. /\ memory' = None /\ row' = row /\ booked' = booked
          /\ handler' = [h \in Handlers |-> Idle]
      BY <2>2 DEF Restart, talk
    <3>2. KeysUnspent(row, booked) /\ Once
      BY <2>1 DEF SerialInv
    <3>3. \A h \in Handlers : Holds(handler'[h], memory', booked')
      BY <3>1, IdleHolds
    <3>4. CopyUnspent(memory', booked')
      BY <3>1 DEF CopyUnspent
    <3>5. KeysUnspent(row', booked') /\ Once'
      BY <3>1, <3>2 DEF Once
    <3> QED
      BY <2>1, <3>3, <3>4, <3>5 DEF SerialInv
  <2>3. ASSUME NEW h \in Handlers, Step(h) PROVE SerialInv'
    BY <2>1, <2>3, ArriveAlone, ReadAlone, CallerTurnAlone, DraftAlone, ReadBackAlone,
      OtherAlone, PersistAlone, GateAlone, InsertAlone, CommitAlone DEF Step
  <2> QED
    BY <2>1, <2>2, <2>3
<1> QED
  BY <1>1, <1>2, <1>3

\* As long as no two requests of a call overlap, one readback is used for one
\* booking at most (clear_pending_confirmation inside create_booking), however
\* often requests fail and the process restarts with what the row has.
THEOREM UsedOnce == Spec => []SpentOnceIfSerial
<1>1. Init => Numbered /\ SerialInv
  <2> SUFFICES ASSUME Init PROVE Numbered /\ SerialInv
    OBVIOUS
  <2>1. Len(booked) = 0
    BY DEF Init
  <2>2. /\ CopyUnspent(memory, booked) /\ KeysUnspent(row, booked)
        /\ \A h \in Handlers : Holds(handler[h], memory, booked)
    BY IdleHolds DEF Init, CopyUnspent, KeysUnspent, NoKeys
  <2>3. ~Overlap
    BY DEF Init, Overlap
  <2> QED
    BY <2>1, <2>2, <2>3 DEF Numbered, SerialInv, Once
<1>2. SerialInv => SpentOnceIfSerial
  BY DEF SerialInv, SpentOnceIfSerial, Once
<1> QED
  BY <1>1, <1>2, InitOk, NextOk, NumberedKept, NextAlone, OverlapIsFlag, PTL DEF Spec
=============================================================================
