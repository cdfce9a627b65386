--------------------------- MODULE BookingsProofs ---------------------------
(***************************************************************************)
(* Proofs about Bookings, for every set of attempts, calls, keys, tables,  *)
(* start times and requests.                                               *)
(***************************************************************************)
EXTENDS Bookings, FiniteSetTheorems, TLAPS

Payloads == {Payload(r) : r \in Requests}

\* What the assumptions say of one request.
LEMMA RequestFacts ==
  ASSUME NEW r \in Requests
  PROVE  /\ r \in Request /\ r.action \in Actions /\ r.call \in Calls
         /\ r.booking \in 0..MaxBookings /\ r.wants \subseteq Tables
         /\ Entry(r) \in Entries /\ Payload(r) \in Payloads
         /\ ~Creates(r) => r.booking \in BookingIds
         /\ Creates(r) => r.booking = 0 /\ r.slot \in Slots
         /\ Cancels(r) => r.slot = NoSlot /\ r.wants = {}
<1>1. r \in Request
  BY RequestsAssumption
<1>2. /\ r.action \in Actions /\ r.call \in Calls /\ r.key \in Keys
      /\ r.booking \in 0..MaxBookings /\ r.wants \subseteq Tables
  BY <1>1 DEF Request
<1>3. Entry(r) \in Entries
  BY <1>2 DEF Entry, Entries
<1>4. Payload(r) \in Payloads
  BY DEF Payloads
<1>5. IF Creates(r) THEN r.booking = 0 /\ r.slot \in Slots ELSE r.booking \in BookingIds
  BY RequestsAssumption
<1>6. Cancels(r) => r.slot = NoSlot /\ r.wants = {}
  BY RequestsAssumption
<1> QED
  BY <1>1, <1>2, <1>3, <1>4, <1>5, <1>6

\* The place a change looks for is a start, or it looks for none.
LEMMA NewSlotFacts ==
  ASSUME NEW r \in Requests, NEW row, row.slot \in Slots
  PROVE  /\ NewSlot(r, row) \in Slots \cup {NoSlot}
         /\ Cancels(r) => NewSlot(r, row) = NoSlot
<1>1. CASE r.slot \in Slots
  BY <1>1, NumbersAssumption, RequestFacts DEF NewSlot
<1>2. CASE r.slot \notin Slots
  BY <1>2, NumbersAssumption, RequestFacts DEF NewSlot
<1> QED
  BY <1>1, <1>2

\* The first state is well typed.
LEMMA InitTypes == Init => TypeOK
<1> SUFFICES ASSUME Init PROVE TypeOK
  OBVIOUS
<1>1. ASSUME NEW b \in BookingIds
      PROVE  /\ bookings[b] \in [status : {"absent", "confirmed", "cancelled", "completed"},
                                 table : Tables \cup {None}, slot : Slots \cup {NoSlot},
                                 missed : SUBSET BookingIds]
             /\ IsPlaced(bookings[b])
  <2>1. CASE b <= Len(Seeded)
    <3>1. Seeded[b] \in SeededRow
      BY <2>1, SeededAssumption DEF BookingIds
    <3>2. bookings[b] = Row(Seeded[b].status, Seeded[b].table, Seeded[b].slot, {})
      BY <2>1 DEF Init
    <3> QED
      BY <3>1, <3>2 DEF SeededRow, Row, IsPlaced
  <2>2. CASE ~(b <= Len(Seeded))
    BY <2>2 DEF Init, NoRow, IsPlaced
  <2> QED
    BY <2>1, <2>2
<1>2. bookings \in [BookingIds ->
        [status : {"absent", "confirmed", "cancelled", "completed"},
         table : Tables \cup {None}, slot : Slots \cup {NoSlot},
         missed : SUBSET BookingIds]]
  BY <1>1 DEF Init
<1>3. nextId \in 1..(MaxBookings + 1)
  BY SeededAssumption, NumbersAssumption DEF Init
<1>4. Types
  BY <1>2, <1>3, NumbersAssumption
  DEF Init, Types, Told, Answer, Actions, InTransaction
<1>5. \A a \in Attempts : Ready(a)
  BY DEF Init, Ready, Places
<1> QED
  BY <1>1, <1>4, <1>5 DEF TypeOK

PcType == [Attempts -> InTransaction \cup {"idle", "claim", "done"}]

\* The answers of the module are answers.
LEMMA ToldIsAnswer ==
  ASSUME NEW b \in 0..MaxBookings,
         NEW k \in {"created", "already_confirmed", "updated", "slot_unavailable",
                    "cancelled", "already_cancelled",
                    "none", "refused", "conflict", "failed"}
  PROVE  Told(k, b) \in Answer
BY DEF Told, Answer

\* Ending an attempt with an error keeps the types.
LEMMA FailTypes ==
  ASSUME TypeOK, NEW a \in Attempts, NEW k \in {"refused", "conflict", "failed"},
         Fail(a, k)
  PROVE  pc' \in PcType /\ answer' \in [Attempts -> Answer] /\ pc'[a] = "done"
<1>1. Told(k, 0) \in Answer
  BY NumbersAssumption DEF Told, Answer
<1> QED
  BY <1>1 DEF TypeOK, Types, Fail, PcType

\* So does going on to the next statement.
LEMMA GoToTypes ==
  ASSUME TypeOK, NEW a \in Attempts, NEW l \in InTransaction \cup {"claim"},
         GoTo(a, l)
  PROVE  pc' \in PcType /\ answer' \in [Attempts -> Answer] /\ pc'[a] = l
BY DEF TypeOK, Types, GoTo, PcType

\* And closing the gate for a request.
LEMMA ClearGateTypes ==
  ASSUME TypeOK, NEW r \in Requests, ClearGate(r)
  PROVE  approved' \in [Calls -> [Actions -> {Payload(q) : q \in Requests} \cup {None}]]
BY RequestFacts DEF TypeOK, Types, ClearGate

\* Every step keeps the types.
LEMMA NextTypes == TypeOK /\ [Next]_vars => TypeOK'
<1> SUFFICES ASSUME TypeOK, [Next]_vars PROVE TypeOK'
  OBVIOUS
<1> USE DEF TypeOK, Places
<1>1. ASSUME NEW a \in Attempts, Submit(a) PROVE TypeOK'
  <2>1. PICK r \in Requests :
          /\ req' = [req EXCEPT ![a] = r]
          /\ IF Creates(r) \/ GateOpen(r) THEN GoTo(a, "claim")
                                          ELSE Fail(a, "refused")
    BY <1>1 DEF Submit
  <2>2. pc' \in PcType /\ answer' \in [Attempts -> Answer] /\ pc'[a] \in {"claim", "done"}
    BY <2>1, FailTypes, GoToTypes
  <2>3. Types'
    BY <1>1, <2>1, <2>2 DEF Types, Submit, dbVars, rowVars, PcType
  <2>4. \A o \in Attempts : Ready(o)'
    BY <1>1, <2>1, <2>2 DEF Types, Ready, Submit, GoTo, Fail, rowVars
  <2> QED
    BY <2>3, <2>4, <1>1 DEF Submit, dbVars
<1>2. ASSUME NEW a \in Attempts, ClaimKey(a) PROVE TypeOK'
  <2>1. Types'
    BY <1>2 DEF Types, ClaimKey, GoTo, dbVars, rowVars, InTransaction
  <2>2. \A o \in Attempts : Ready(o)'
    BY <1>2 DEF Types, Ready, ClaimKey, GoTo, rowVars
  <2> QED
    BY <2>1, <2>2, <1>2 DEF ClaimKey, dbVars
<1>3. ASSUME NEW a \in Attempts, ReplayKey(a) PROVE TypeOK'
  <2>0. req[a] \in Requests /\ Entry(req[a]) \in Entries
    BY <1>3, RequestFacts DEF Ready, ReplayKey
  <2>1. Types'
    BY <1>3, <2>0, NumbersAssumption, ToldIsAnswer DEF Types, ReplayKey, dbVars, rowVars
  <2>2. \A o \in Attempts : Ready(o)'
    BY <1>3 DEF Types, Ready, ReplayKey, rowVars
  <2> QED
    BY <2>1, <2>2, <1>3 DEF ReplayKey, dbVars
<1>4. ASSUME NEW a \in Attempts, CheckCreate(a) PROVE TypeOK'
  <2>0. req[a] \in Requests /\ Creates(req[a]) /\ req[a].call \in Calls
    BY <1>4, RequestFacts DEF Ready, CheckCreate
  <2>1. CASE HasBooked(req[a].call)
    <3>1. Told("already_confirmed", session[req[a].call]) \in Answer
      BY <2>0, ToldIsAnswer DEF Types
    <3>2. Types'
      <4>1. /\ pc' = [pc EXCEPT ![a] = "settle"]
            /\ answer' = [answer EXCEPT ![a] = Told("already_confirmed", session[req[a].call])]
        BY <1>4, <2>1 DEF CheckCreate
      <4>2. pc' \in PcType /\ answer' \in [Attempts -> Answer]
        BY <4>1, <3>1 DEF Types, PcType, InTransaction
      <4> QED
        BY <1>4, <2>1, <4>2 DEF Types, CheckCreate, dbVars, PcType
    <3>3. \A o \in Attempts : Ready(o)'
      BY <1>4, <2>1 DEF Types, Ready, CheckCreate
    <3> QED
      BY <3>2, <3>3, <1>4 DEF CheckCreate, dbVars
  <2>2. CASE ~HasBooked(req[a].call)
    <3>1. \/ GoTo(a, "select") /\ slot' = [slot EXCEPT ![a] = req[a].slot]
          \/ Fail(a, "refused") /\ UNCHANGED slot
      BY <1>4, <2>2 DEF CheckCreate
    <3>2. pc' \in PcType /\ answer' \in [Attempts -> Answer] /\ pc'[a] \in {"select", "done"}
      BY <3>1, FailTypes, GoToTypes DEF InTransaction
    <3>3. req[a].slot \in Slots /\ ~Cancels(req[a])
      BY <2>0, RequestFacts DEF Creates, Cancels
    <3>4. Types'
      BY <1>4, <3>1, <3>2, <3>3 DEF Types, CheckCreate, dbVars, PcType
    <3>5. \A o \in Attempts : Ready(o)'
      BY <1>4, <2>0, <3>1, <3>2, <3>3, NumbersAssumption
      DEF Types, Ready, CheckCreate, GoTo, Fail
    <3> QED
      BY <3>4, <3>5, <1>4 DEF CheckCreate, dbVars
  <2> QED
    BY <2>1, <2>2
<1>5. ASSUME NEW a \in Attempts, Recheck(a) PROVE TypeOK'
  <2>1. GoTo(a, "row") \/ Fail(a, "refused")
    BY <1>5 DEF Recheck
  <2>2. pc' \in PcType /\ answer' \in [Attempts -> Answer] /\ pc'[a] \in {"row", "done"}
    BY <2>1, FailTypes, GoToTypes DEF InTransaction
  <2>3. Types'
    BY <1>5, <2>2 DEF Types, Recheck, dbVars, rowVars, PcType
  <2>4. \A o \in Attempts : Ready(o)'
    BY <1>5, <2>1, <2>2 DEF Types, Ready, Recheck, GoTo, Fail, rowVars
  <2> QED
    BY <2>3, <2>4, <1>5 DEF Recheck, dbVars
<1>6. ASSUME NEW a \in Attempts, LockRow(a) PROVE TypeOK'
  <2> DEFINE r == req[a]
             w == NewSlot(r, bookings[r.booking])
  <2>0. r \in Requests /\ ~Creates(r) /\ r.booking \in BookingIds
    BY <1>6, RequestFacts DEF Ready, LockRow
  <2>1. CASE /\ bookings[r.booking].status = "confirmed"
             /\ slot' = [slot EXCEPT ![a] = w]
             /\ GoTo(a, IF w # NoSlot THEN "select" ELSE "write")
             /\ UNCHANGED approved
    <3>1. w \in Slots \cup {NoSlot} /\ (Cancels(r) => w = NoSlot)
      BY <2>0, <2>1, NewSlotFacts DEF IsPlaced
    <3>2. slot' \in [Attempts -> Slots \cup {NoSlot}] /\ slot'[a] = w
          /\ \A o \in Attempts \ {a} : slot'[o] = slot[o]
      <4> HIDE DEF w
      <4> QED
        BY <2>1, <3>1 DEF Types
    <3> HIDE DEF w
    <3>3. /\ pc' \in PcType /\ answer' \in [Attempts -> Answer]
          /\ pc'[a] = IF w # NoSlot THEN "select" ELSE "write"
          /\ \A o \in Attempts \ {a} : pc'[o] = pc[o]
      BY <2>1, GoToTypes DEF GoTo, InTransaction, Types
    <3>4. Types'
      BY <1>6, <2>1, <3>2, <3>3 DEF Types, LockRow, dbVars, PcType
    <3>5. \A o \in Attempts : Ready(o)'
      BY <1>6, <2>0, <3>1, <3>2, <3>3 DEF Types, Ready, LockRow
    <3> QED
      BY <3>4, <3>5, <1>6 DEF LockRow, dbVars
  <2>2. CASE /\ UNCHANGED slot
             /\ \/ /\ pc' = [pc EXCEPT ![a] = "settle"]
                   /\ answer' = [answer EXCEPT ![a] = Told("already_cancelled", r.booking)]
                   /\ ClearGate(r)
                \/ Fail(a, "failed") /\ UNCHANGED approved
    <3>1. Told("already_cancelled", r.booking) \in Answer
      BY <2>0, RequestFacts, ToldIsAnswer
    <3>2. /\ pc' \in PcType /\ answer' \in [Attempts -> Answer]
          /\ pc'[a] \in {"settle", "done"}
          /\ \A o \in Attempts \ {a} : pc'[o] = pc[o]
      <4>1. CASE Fail(a, "failed")
        BY <4>1, FailTypes DEF Fail, Types
      <4>2. CASE /\ pc' = [pc EXCEPT ![a] = "settle"]
                 /\ answer' = [answer EXCEPT ![a] = Told("already_cancelled", r.booking)]
        BY <4>2, <3>1 DEF Types, PcType, InTransaction
      <4> QED
        BY <2>2, <4>1, <4>2
    <3>3. approved' \in [Calls -> [Actions -> {Payload(q) : q \in Requests} \cup {None}]]
      BY <2>0, <2>2, ClearGateTypes DEF Types
    <3>4. Types'
      BY <1>6, <2>2, <3>2, <3>3 DEF Types, LockRow, dbVars, PcType
    <3>5. \A o \in Attempts : Ready(o)'
      BY <1>6, <2>2, <3>2 DEF Types, Ready, LockRow
    <3> QED
      BY <3>4, <3>5, <1>6 DEF LockRow, dbVars
  <2> QED
    BY <1>6, <2>1, <2>2 DEF LockRow
<1>7. ASSUME NEW a \in Attempts, SelectTables(a) PROVE TypeOK'
  <2>1. req[a] \in Requests /\ req[a].wants \subseteq Tables /\ Places(a)
    BY <1>7, RequestFacts DEF Ready, SelectTables
  <2>2. pc' \in PcType /\ answer' \in [Attempts -> Answer] /\ pc'[a] = "lock"
    BY <1>7, GoToTypes DEF SelectTables, InTransaction
  <2>3. Types'
    BY <1>7, <2>1, <2>2 DEF Types, SelectTables, dbVars, PcType
  <2>4. \A o \in Attempts : Ready(o)'
    BY <1>7, <2>1, <2>2 DEF Types, Ready, SelectTables, GoTo
  <2> QED
    BY <2>3, <2>4, <1>7 DEF SelectTables, dbVars
<1>8. ASSUME NEW a \in Attempts, LockTable(a) PROVE TypeOK'
  <2>0. req[a] \in Requests /\ req[a].booking \in 0..MaxBookings
    BY <1>8, RequestFacts DEF Ready, LockTable
  <2>1. CASE \E t \in Unlocked(free[a]) : table' = [table EXCEPT ![a] = t] /\ GoTo(a, "write")
    <3>1. PICK t \in Unlocked(free[a]) : table' = [table EXCEPT ![a] = t] /\ GoTo(a, "write")
      BY <2>1
    <3>2. t \in Tables
      BY <3>1 DEF Unlocked, Types
    <3>3. pc' \in PcType /\ answer' \in [Attempts -> Answer] /\ pc'[a] = "write"
      BY <3>1, GoToTypes DEF InTransaction
    <3>4. Types'
      BY <1>8, <3>1, <3>2, <3>3 DEF Types, LockTable, dbVars, PcType
    <3>5. \A o \in Attempts : Ready(o)'
      BY <1>8, <3>1, <3>2 DEF Types, Ready, LockTable, GoTo
    <3> QED
      BY <3>4, <3>5, <1>8 DEF LockTable, dbVars
  <2>2. CASE ~(\E t \in Unlocked(free[a]) : table' = [table EXCEPT ![a] = t] /\ GoTo(a, "write"))
    <3>1. /\ UNCHANGED table
          /\ \/ Fail(a, "failed")
             \/ /\ pc' = [pc EXCEPT ![a] = "settle"]
                /\ answer' = [answer EXCEPT ![a] = Told("slot_unavailable", req[a].booking)]
      BY <1>8, <2>2 DEF LockTable
    <3>2. pc' \in PcType /\ answer' \in [Attempts -> Answer] /\ pc'[a] \in {"settle", "done"}
      <4>1. CASE Fail(a, "failed")
        BY <4>1, FailTypes
      <4>2. CASE /\ pc' = [pc EXCEPT ![a] = "settle"]
                 /\ answer' = [answer EXCEPT ![a] = Told("slot_unavailable", req[a].booking)]
        BY <4>2, <2>0, ToldIsAnswer DEF Types, PcType, InTransaction
      <4> QED
        BY <3>1, <4>1, <4>2
    <3>3. Types'
      BY <1>8, <3>1, <3>2 DEF Types, LockTable, dbVars, PcType
    <3>4. \A o \in Attempts : Ready(o)'
      BY <1>8, <3>1, <3>2 DEF Types, Ready, LockTable, Fail
    <3> QED
      BY <3>3, <3>4, <1>8 DEF LockTable, dbVars
  <2> QED
    BY <2>1, <2>2
<1>9. ASSUME NEW a \in Attempts, WriteBooking(a) PROVE TypeOK'
  <2>0. req[a] \in Requests
    BY <1>9 DEF Ready, WriteBooking
  <2>1. pc' \in PcType /\ answer' \in [Attempts -> Answer] /\ pc'[a] = "merge"
    BY <1>9, GoToTypes DEF WriteBooking, InTransaction
  <2>2. /\ approved' \in [Calls -> [Actions -> {Payload(q) : q \in Requests} \cup {None}]]
        /\ nextId' \in 1..(MaxBookings + 1)
        /\ newId' \in [Attempts -> 0..MaxBookings]
        /\ Creates(req[a]) => newId'[a] \in BookingIds
        /\ \A o \in Attempts \ {a} : newId'[o] = newId[o]
    <3>1. CASE Creates(req[a])
      <4>1. /\ nextId \in BookingIds
            /\ newId' = [newId EXCEPT ![a] = nextId]
            /\ nextId' = nextId + 1 /\ ClearGate(req[a])
        BY <1>9, <3>1, NumbersAssumption DEF WriteBooking, Types, BookingIds
      <4> QED
        BY <4>1, <2>0, ClearGateTypes, NumbersAssumption DEF Types, BookingIds
    <3>2. CASE ~Creates(req[a])
      BY <1>9, <3>2 DEF WriteBooking, Types
    <3> QED
      BY <3>1, <3>2
  <2>3. Types'
    BY <1>9, <2>1, <2>2 DEF Types, WriteBooking, PcType
  <2>4. \A o \in Attempts : Ready(o)'
    BY <1>9, <2>1, <2>2 DEF Types, Ready, WriteBooking, GoTo
  <2> QED
    BY <2>3, <2>4, <1>9 DEF WriteBooking
<1>10. ASSUME NEW a \in Attempts, MergeSession(a) PROVE TypeOK'
  <2>0. req[a] \in Requests
    BY <1>10 DEF Ready, MergeSession
  <2>1. pc' \in PcType /\ answer' \in [Attempts -> Answer] /\ pc'[a] = "commit"
    BY <1>10, GoToTypes DEF MergeSession, InTransaction
  <2>2. approved' \in [Calls -> [Actions -> {Payload(q) : q \in Requests} \cup {None}]]
    BY <1>10, <2>0, ClearGateTypes DEF MergeSession, Types
  <2>3. Types'
    BY <1>10, <2>1, <2>2 DEF Types, MergeSession, dbVars, rowVars, PcType
  <2>4. \A o \in Attempts : Ready(o)'
    BY <1>10, <2>1 DEF Types, Ready, MergeSession, GoTo, rowVars
  <2> QED
    BY <2>3, <2>4, <1>10 DEF MergeSession, dbVars
<1>11. ASSUME NEW a \in Attempts, Commit(a) PROVE TypeOK'
  <2> DEFINE r == req[a]
             b == Target(a)
  <2>0. r \in Requests /\ r.call \in Calls /\ Entry(r) \in Entries /\ b \in BookingIds
    BY <1>11, RequestFacts DEF Ready, Commit, Target
  <2>1. b \in 0..MaxBookings
    BY <2>0, NumbersAssumption DEF BookingIds
  <2>2. PICK x \in Answer : Record(a, x)
    BY <1>11, <2>1, ToldIsAnswer DEF Commit
  <2>3. /\ pc' \in PcType /\ answer' \in [Attempts -> Answer]
        /\ pc' = [pc EXCEPT ![a] = "done"]
        /\ ledger' \in [Entries -> [request : Requests, answer : Answer] \cup {None}]
    BY <2>0, <2>2 DEF Record, Types, PcType
  <2>4. /\ bookings' \in [BookingIds ->
              [status : {"absent", "confirmed", "cancelled", "completed"},
               table : Tables \cup {None}, slot : Slots \cup {NoSlot},
               missed : SUBSET BookingIds]]
        /\ \A i \in BookingIds : IsPlaced(bookings'[i])
    <3>1. CASE Places(a)
      <4>1. /\ table[a] \in Tables /\ slot[a] \in Slots /\ ~Cancels(r)
            /\ missed[a] \subseteq BookingIds
        BY <1>11, <2>0, <3>1 DEF Ready, Commit, Types
      <4>2. bookings' = [bookings EXCEPT ![b] = Row("confirmed", table[a], slot[a], missed[a])]
        BY <1>11, <3>1, <4>1 DEF Commit
      <4> QED
        BY <4>1, <4>2, <2>0 DEF Types, Row, IsPlaced
    <3>2. CASE ~Places(a) /\ Cancels(r)
      <4>1. bookings' = [bookings EXCEPT ![b].status = "cancelled"]
        BY <1>11, <3>2 DEF Commit
      <4> DEFINE Rows == [status : {"absent", "confirmed", "cancelled", "completed"},
                          table : Tables \cup {None}, slot : Slots \cup {NoSlot},
                          missed : SUBSET BookingIds]
      <4>2. bookings \in [BookingIds -> Rows] /\ \A i \in BookingIds : IsPlaced(bookings[i])
        BY DEF Types
      <4>3. [bookings[b] EXCEPT !.status = "cancelled"] \in Rows
        BY <4>2, <2>0
      <4>4. [bookings[b] EXCEPT !.status = "cancelled"].status = "cancelled"
        BY <4>2, <2>0
      <4> HIDE DEF Rows, b
      <4>5. bookings' = [bookings EXCEPT ![b] = [bookings[b] EXCEPT !.status = "cancelled"]]
        BY <4>1
      <4>6. bookings' \in [BookingIds -> Rows]
        BY <4>2, <4>3, <4>5, <2>0
      <4>7. \A i \in BookingIds : IsPlaced(bookings'[i])
        BY <4>2, <4>4, <4>5, <2>0 DEF IsPlaced
      <4> QED
        BY <4>6, <4>7 DEF Rows
    <3>3. CASE ~Places(a) /\ ~Cancels(r)
      BY <1>11, <3>3 DEF Commit, Types
    <3> QED
      BY <3>1, <3>2, <3>3
  <2>5. missed' \in [Attempts -> SUBSET BookingIds] /\ session' \in [Calls -> 0..MaxBookings]
    BY <1>11, <2>0, <2>1 DEF Commit, Types
  <2>6. Types'
    BY <1>11, <2>3, <2>4, <2>5 DEF Types, Commit, PcType
  <2>7. \A o \in Attempts : Ready(o)'
    BY <1>11, <2>3 DEF Types, Ready, Commit
  <2> QED
    BY <2>4, <2>6, <2>7
<1>12. ASSUME NEW a \in Attempts, Settle(a) PROVE TypeOK'
  <2>0. req[a] \in Requests /\ Entry(req[a]) \in Entries
    BY <1>12, RequestFacts DEF Ready, Settle
  <2>1. /\ pc' \in PcType /\ answer' \in [Attempts -> Answer]
        /\ pc' = [pc EXCEPT ![a] = "done"]
        /\ ledger' \in [Entries -> [request : Requests, answer : Answer] \cup {None}]
    BY <1>12, <2>0 DEF Settle, Record, Types, PcType
  <2>2. Types'
    BY <1>12, <2>1 DEF Types, Settle, rowVars, PcType
  <2>3. \A o \in Attempts : Ready(o)'
    BY <1>12, <2>1 DEF Types, Ready, Settle, rowVars
  <2> QED
    BY <2>2, <2>3, <1>12 DEF Settle
<1>13. ASSUME NEW a \in Attempts, Rollback(a) PROVE TypeOK'
  <2>1. pc' \in PcType /\ answer' \in [Attempts -> Answer]
    BY <1>13, FailTypes DEF Rollback
  <2>2. Types'
    BY <1>13, <2>1 DEF Types, Rollback, dbVars, rowVars, PcType
  <2>3. \A o \in Attempts : Ready(o)'
    BY <1>13 DEF Types, Ready, Rollback, Fail, rowVars, InTransaction
  <2> QED
    BY <2>2, <2>3, <1>13 DEF Rollback, dbVars
<1>14. ASSUME NEW c \in Calls, CallerTurn(c) PROVE TypeOK'
  <2>1. approved' \in [Calls -> [Actions -> {Payload(q) : q \in Requests} \cup {None}]]
    BY <1>14 DEF CallerTurn, PayloadsOf, Types
  <2>2. Types'
    BY <1>14, <2>1 DEF Types, CallerTurn, dbVars, rowVars
  <2>3. \A o \in Attempts : Ready(o)'
    BY <1>14 DEF Ready, CallerTurn, rowVars
  <2> QED
    BY <2>2, <2>3, <1>14 DEF CallerTurn, dbVars
<1>15. CASE Restart
  <2>1. pc' \in PcType /\ answer' \in [Attempts -> Answer]
    BY <1>15, NumbersAssumption, ToldIsAnswer DEF Restart, Types, PcType
  <2>2. Types'
    BY <1>15, <2>1 DEF Types, Restart, dbVars, rowVars, PcType
  <2>3. \A o \in Attempts : Ready(o)'
    BY <1>15 DEF Types, Ready, Restart, rowVars
  <2> QED
    BY <2>2, <2>3, <1>15 DEF Restart, dbVars
<1>16. CASE UNCHANGED vars
  BY <1>16 DEF Types, Ready, vars
<1> QED
  BY <1>1, <1>2, <1>3, <1>4, <1>5, <1>6, <1>7, <1>8, <1>9, <1>10, <1>11, <1>12,
     <1>13, <1>14, <1>15, <1>16
  DEF Next, Step

\* Type correctness of the booking transactions: every attempt carries what its
\* next statement needs, and every confirmed booking has a table and a start.
THEOREM TypeCorrect == Spec => []TypeOK
BY InitTypes, NextTypes, PTL DEF Spec

-----------------------------------------------------------------------------
(* NoUnseenOverlap *)

Holding == {"write", "merge", "commit"}

\* Two transactions past their table query hold different tables.
TableLocksExclude ==
  \A a, o \in Attempts :
    /\ a # o /\ pc[a] \in Holding /\ pc[o] \in Holding
    /\ Places(a) /\ Places(o)
    => table[a] # table[o]

\* Every booking in the way of a's request on table t is one a has missed.
Vacant(a, t) ==
  \A b \in BookingIds \ {req[a].booking} :
    /\ bookings[b].status = "confirmed" /\ bookings[b].table = t
    /\ Overlap(bookings[b].slot, slot[a])
    => b \in missed[a]

ChoiceIsVacant(a) ==
  /\ pc[a] = "lock" => \A t \in free[a] : Vacant(a, t)
  /\ pc[a] \in Holding /\ Places(a) => Vacant(a, table[a])

TableInv ==
  /\ TableLocksExclude
  /\ \A a \in Attempts : ChoiceIsVacant(a)
  /\ NoUnseenOverlap

\* The first state: the seeded bookings are disjoint and no query has run.
LEMMA InitTables == Init => TableInv
<1> SUFFICES ASSUME Init PROVE TableInv
  OBVIOUS
<1>1. TableLocksExclude /\ \A a \in Attempts : ChoiceIsVacant(a)
  BY DEF Init, TableLocksExclude, ChoiceIsVacant, Holding
<1>2. NoUnseenOverlap
  <2> SUFFICES ASSUME NEW b \in BookingIds, NEW o \in BookingIds, b # o,
                      bookings[b].status = "confirmed", bookings[o].status = "confirmed",
                      bookings[b].table = bookings[o].table,
                      Overlap(bookings[b].slot, bookings[o].slot)
               PROVE FALSE
    BY DEF NoUnseenOverlap
  <2>1. ASSUME NEW i \in BookingIds, bookings[i].status = "confirmed"
        PROVE  /\ i \in 1..Len(Seeded) /\ Seeded[i].status = "confirmed"
               /\ bookings[i].table = Seeded[i].table
               /\ bookings[i].slot = Seeded[i].slot
    <3>1. bookings[i] = IF i <= Len(Seeded)
                        THEN Row(Seeded[i].status, Seeded[i].table, Seeded[i].slot, {})
                        ELSE NoRow
      BY DEF Init
    <3>2. i <= Len(Seeded)
      BY <2>1, <3>1 DEF NoRow
    <3> QED
      BY <2>1, <3>1, <3>2, SeededAssumption DEF Row, BookingIds
  <2> QED
    BY <2>1, SeededAssumption
<1> QED
  BY <1>1, <1>2 DEF TableInv

\* A step that writes no booking, runs no table query and locks no table.
LEMMA QuietTables ==
  ASSUME TableInv, UNCHANGED <<bookings, free, missed, table>>,
         \A o \in Attempts :
           /\ pc'[o] = "lock" =>
                pc[o] = "lock" /\ req'[o] = req[o] /\ slot'[o] = slot[o]
           /\ pc'[o] \in Holding /\ Places(o)' =>
                pc[o] \in Holding /\ req'[o] = req[o] /\ slot'[o] = slot[o]
  PROVE  TableInv'
<1>1. TableLocksExclude'
  BY DEF TableInv, TableLocksExclude, Places
<1>2. ASSUME NEW a \in Attempts PROVE ChoiceIsVacant(a)'
  BY DEF TableInv, ChoiceIsVacant, Vacant, Places
<1>3. NoUnseenOverlap'
  BY DEF TableInv, NoUnseenOverlap
<1> QED
  BY <1>1, <1>2, <1>3 DEF TableInv

\* The window of the table query is at least the time a booking lasts.
LEMMA OverlapConflicts ==
  ASSUME NEW s \in Slots, NEW d \in Slots, Overlap(s, d)
  PROVE  Conflicts(s, d)
BY NumbersAssumption DEF Overlap, Conflicts

\* What the query sees free is vacant when it begins.
LEMMA SelectTables_Tables ==
  ASSUME TypeOK, TableInv, NEW a \in Attempts, SelectTables(a)
  PROVE  TableInv'
<1>1. /\ pc' = [pc EXCEPT ![a] = "lock"] /\ pc[a] = "select"
      /\ req[a] \in Requests /\ slot[a] \in Slots
      /\ UNCHANGED <<bookings, table, req, slot>>
      /\ free' = [free EXCEPT ![a] = {t \in req[a].wants : FreeAt(t, a)}]
      /\ missed' = [missed EXCEPT ![a] = {}]
  BY DEF SelectTables, GoTo, TypeOK, Types, Ready, Places, dbVars
<1>2. TableLocksExclude'
  BY <1>1 DEF TableInv, TableLocksExclude, Holding, TypeOK, Types, Places
<1>3. ASSUME NEW o \in Attempts PROVE ChoiceIsVacant(o)'
  <2>1. CASE o = a
    <3> SUFFICES ASSUME NEW t \in free'[a], NEW b \in BookingIds \ {req[a].booking},
                        bookings[b].status = "confirmed", bookings[b].table = t,
                        Overlap(bookings[b].slot, slot[a])
                 PROVE FALSE
      BY <1>1, <2>1 DEF ChoiceIsVacant, Vacant, Holding, TypeOK, Types
    <3>1. FreeAt(t, a)
      BY <1>1 DEF TypeOK, Types
    <3>2. bookings[b].slot \in Slots
      BY DEF TypeOK, IsPlaced
    <3> QED
      BY <1>1, <3>1, <3>2, OverlapConflicts DEF FreeAt
  <2>2. CASE o # a
    BY <1>1, <2>2 DEF TableInv, ChoiceIsVacant, Vacant, TypeOK, Types, Places
  <2> QED
    BY <2>1, <2>2
<1>4. NoUnseenOverlap'
  BY <1>1 DEF TableInv, NoUnseenOverlap
<1> QED
  BY <1>2, <1>3, <1>4 DEF TableInv

\* The table that is locked was free, and nobody else has it locked.
LEMMA LockTable_Tables ==
  ASSUME TypeOK, TableInv, NEW a \in Attempts, LockTable(a)
  PROVE  TableInv'
<1>1. pc[a] = "lock" /\ UNCHANGED <<bookings, free, missed, req, slot>>
  BY DEF LockTable, dbVars
<1>2. CASE \E t \in Unlocked(free[a]) : table' = [table EXCEPT ![a] = t] /\ GoTo(a, "write")
  <2>1. PICK t \in Unlocked(free[a]) : table' = [table EXCEPT ![a] = t] /\ GoTo(a, "write")
    BY <1>2
  <2>2. /\ t \in free[a]
        /\ \A o \in Attempts : pc[o] \in Holding => table[o] # t
    BY <2>1 DEF Unlocked, TableLocked, Holding
  <2>3. /\ table'[a] = t /\ pc'[a] = "write"
        /\ \A o \in Attempts \ {a} : table'[o] = table[o] /\ pc'[o] = pc[o]
    BY <2>1 DEF GoTo, TypeOK, Types
  <2>4. TableLocksExclude'
    BY <1>1, <2>2, <2>3 DEF TableInv, TableLocksExclude, Places
  <2>5. ASSUME NEW o \in Attempts PROVE ChoiceIsVacant(o)'
    <3>1. CASE o = a
      BY <1>1, <2>2, <2>3, <3>1 DEF TableInv, ChoiceIsVacant, Vacant
    <3>2. CASE o # a
      BY <1>1, <2>3, <3>2 DEF TableInv, ChoiceIsVacant, Vacant, Places
    <3> QED
      BY <3>1, <3>2
  <2> QED
    BY <1>1, <2>4, <2>5 DEF TableInv, NoUnseenOverlap
<1>3. CASE ~(\E t \in Unlocked(free[a]) : table' = [table EXCEPT ![a] = t] /\ GoTo(a, "write"))
  <2>1. UNCHANGED table /\ (Fail(a, "failed") \/ pc' = [pc EXCEPT ![a] = "settle"])
    BY <1>3 DEF LockTable
  <2>2. pc'[a] \in {"settle", "done"} /\ \A o \in Attempts \ {a} : pc'[o] = pc[o]
    BY <2>1 DEF Fail, TypeOK, Types
  <2> QED
    BY <1>1, <2>1, <2>2, QuietTables DEF Holding
<1> QED
  BY <1>2, <1>3

\* A commit publishes a booking that only transactions between their query and
\* their table lock have not seen; they are the ones that miss it.
LEMMA Commit_Tables ==
  ASSUME TypeOK, TableInv, NEW a \in Attempts, Commit(a)
  PROVE  TableInv'
<1> DEFINE r == req[a]
           b == Target(a)
<1>1. /\ pc[a] = "commit" /\ r \in Requests /\ b \in BookingIds
      /\ pc' = [pc EXCEPT ![a] = "done"]
      /\ UNCHANGED <<req, slot, free, table>>
      /\ \A i \in BookingIds \ {b} : bookings'[i] = bookings[i]
  BY RequestFacts DEF Commit, Record, Target, TypeOK, Ready, Types
<1>2. TableLocksExclude'
  BY <1>1 DEF TableInv, TableLocksExclude, Holding, TypeOK, Types, Places
<1>3. \A o \in Attempts \ {a} : pc'[o] = pc[o]
  BY <1>1 DEF TypeOK, Types
<1>4. CASE Places(a)
  <2>1. /\ table[a] \in Tables /\ slot[a] \in Slots /\ ~Cancels(r)
        /\ Creates(r) => r.booking = 0
    BY <1>1, <1>4, RequestFacts DEF TypeOK, Types, Ready, Places
  <2>2. bookings'[b] = Row("confirmed", table[a], slot[a], missed[a])
    BY <1>1, <1>4, <2>1 DEF Commit, TypeOK, Types
  <2>3. \A o \in Attempts :
          missed'[o] = IF pc[o] = "lock" THEN missed[o] \cup {b} ELSE missed[o]
    BY <1>4 DEF Commit
  <2>4. Vacant(a, table[a])
    BY <1>1, <1>4 DEF TableInv, ChoiceIsVacant, Holding
  <2>5. ASSUME NEW i \in BookingIds \ {b}, bookings[i].status = "confirmed",
               bookings[i].table = table[a], Overlap(bookings[i].slot, slot[a])
        PROVE  i \in missed[a]
    <3>1. i # r.booking
      BY <1>4, <2>1, NumbersAssumption DEF BookingIds, Target
    <3> QED
      BY <2>4, <2>5, <3>1 DEF Vacant
  <2>6. NoUnseenOverlap'
    <3> SUFFICES ASSUME NEW i \in BookingIds, NEW j \in BookingIds, i # j,
                        bookings'[i].status = "confirmed", bookings'[j].status = "confirmed",
                        bookings'[i].table = bookings'[j].table,
                        Overlap(bookings'[i].slot, bookings'[j].slot)
                 PROVE j \in bookings'[i].missed \/ i \in bookings'[j].missed
      BY DEF NoUnseenOverlap
    <3>1. CASE i = b
      BY <1>1, <2>2, <2>5, <3>1 DEF Row, Overlap
    <3>2. CASE j = b
      BY <1>1, <2>2, <2>5, <3>2 DEF Row, Overlap
    <3>3. CASE i # b /\ j # b
      BY <1>1, <3>3 DEF TableInv, NoUnseenOverlap
    <3> QED
      BY <3>1, <3>2, <3>3
  <2>7. ASSUME NEW o \in Attempts PROVE ChoiceIsVacant(o)'
    <3>1. CASE o = a
      BY <1>1, <3>1 DEF ChoiceIsVacant, Holding, TypeOK, Types
    <3>2. CASE o # a /\ pc[o] = "lock"
      <4>1. pc'[o] = "lock" /\ missed'[o] = missed[o] \cup {b} /\ free'[o] = free[o]
        BY <1>1, <1>3, <2>3, <3>2
      <4>2. ASSUME NEW t \in free[o] PROVE Vacant(o, t)'
        <5>1. Vacant(o, t)
          BY <3>2, <4>2 DEF TableInv, ChoiceIsVacant
        <5> QED
          BY <1>1, <4>1, <5>1 DEF Vacant
      <4> QED
        BY <4>1, <4>2 DEF ChoiceIsVacant, Holding
    <3>3. CASE o # a /\ pc[o] \in Holding /\ Places(o)
      <4>1. table[o] # table[a]
        BY <1>1, <1>4, <3>3 DEF TableInv, TableLocksExclude, Holding
      <4>2. Vacant(o, table[o])
        BY <3>3 DEF TableInv, ChoiceIsVacant
      <4>3. Vacant(o, table[o])'
        <5>1. missed'[o] = missed[o] /\ bookings'[b].table = table[a]
          <6>1. bookings'[b].table = table[a]
            BY <2>2 DEF Row
          <6>2. pc[o] # "lock"
            BY <3>3 DEF Holding
          <6> QED
            BY <2>3, <6>1, <6>2
        <5>2. table'[o] = table[o] /\ req'[o] = req[o] /\ slot'[o] = slot[o]
          BY <1>1
        <5> SUFFICES ASSUME NEW i \in BookingIds \ {req[o].booking},
                            bookings'[i].status = "confirmed", bookings'[i].table = table[o],
                            Overlap(bookings'[i].slot, slot[o])
                     PROVE i \in missed[o]
          BY <5>1, <5>2 DEF Vacant
        <5>3. bookings'[i] = bookings[i]
          BY <1>1, <4>1, <5>1
        <5> QED
          BY <4>2, <5>3 DEF Vacant
      <4> QED
        BY <1>3, <3>3, <4>3 DEF ChoiceIsVacant, Holding
    <3>4. CASE o # a /\ pc[o] # "lock" /\ ~(pc[o] \in Holding /\ Places(o))
      BY <1>1, <1>3, <3>4 DEF ChoiceIsVacant, Places
    <3> QED
      BY <3>1, <3>2, <3>3, <3>4
  <2> QED
    BY <1>2, <2>6, <2>7 DEF TableInv
<1>5. CASE ~Places(a)
  <2>1. /\ \A i \in BookingIds : /\ bookings'[i].table = bookings[i].table
                                 /\ bookings'[i].slot = bookings[i].slot
                                 /\ bookings'[i].missed = bookings[i].missed
                                 /\ bookings'[i].status = "confirmed" =>
                                      bookings[i].status = "confirmed"
    <3>1. CASE Cancels(r)
      <4>1. bookings' = [bookings EXCEPT ![b].status = "cancelled"]
        BY <1>5, <3>1 DEF Commit
      <4> QED
        BY <1>1, <4>1 DEF TypeOK, Types
    <3>2. CASE ~Cancels(r)
      <4>1. bookings' = [bookings EXCEPT ![b] = bookings[b]]
        BY <1>5, <3>2 DEF Commit
      <4> QED
        BY <1>1, <4>1 DEF TypeOK, Types
    <3> QED
      BY <3>1, <3>2
  <2>2. \A o \in Attempts : missed'[o] = missed[o]
    BY <1>5 DEF Commit
  <2>3. NoUnseenOverlap'
    BY <2>1 DEF TableInv, NoUnseenOverlap
  <2>4. ASSUME NEW o \in Attempts PROVE ChoiceIsVacant(o)'
    <3>1. CASE o = a
      BY <1>1, <3>1 DEF ChoiceIsVacant, Holding, TypeOK, Types
    <3>2. CASE o # a
      BY <1>1, <1>3, <2>1, <2>2, <3>2 DEF TableInv, ChoiceIsVacant, Vacant, Holding, Places
    <3> QED
      BY <3>1, <3>2
  <2> QED
    BY <1>2, <2>3, <2>4 DEF TableInv
<1> QED
  BY <1>4, <1>5

\* Every step keeps the invariant of the table locks.
LEMMA NextTables == TypeOK /\ TableInv /\ [Next]_vars => TableInv'
<1> SUFFICES ASSUME TypeOK, TableInv, [Next]_vars PROVE TableInv'
  OBVIOUS
<1> DEFINE Quiet ==
      \A o \in Attempts :
        /\ pc'[o] = "lock" =>
             pc[o] = "lock" /\ req'[o] = req[o] /\ slot'[o] = slot[o]
        /\ pc'[o] \in Holding /\ Places(o)' =>
             pc[o] \in Holding /\ req'[o] = req[o] /\ slot'[o] = slot[o]
<1>0. ASSUME Quiet, UNCHANGED <<bookings, rowVars>> PROVE TableInv'
  BY <1>0, QuietTables DEF rowVars
<1>1. ASSUME NEW a \in Attempts, Submit(a) PROVE TableInv'
  <2>1. PICK q \in Requests : /\ req' = [req EXCEPT ![a] = q]
                              /\ GoTo(a, "claim") \/ Fail(a, "refused")
    BY <1>1 DEF Submit
  <2>2. UNCHANGED slot
    BY <1>1 DEF Submit, rowVars
  <2>3. Quiet
    BY <2>1, <2>2 DEF GoTo, Fail, Holding, TypeOK, Types, Places
  <2> QED
    BY <1>0, <1>1, <2>3 DEF Submit, dbVars
<1>2. ASSUME NEW a \in Attempts,
             ClaimKey(a) \/ ReplayKey(a) \/ Recheck(a) \/ Rollback(a)
      PROVE TableInv'
  <2>1. /\ GoTo(a, "gate") \/ GoTo(a, "row") \/ pc' = [pc EXCEPT ![a] = "done"]
        /\ UNCHANGED <<req, dbVars, rowVars>>
    BY <1>2 DEF ClaimKey, ReplayKey, Recheck, Rollback, Fail
  <2>2. Quiet
    BY <2>1 DEF GoTo, Holding, TypeOK, Types, Places, rowVars
  <2> QED
    BY <1>0, <2>1, <2>2 DEF dbVars
<1>3. ASSUME NEW a \in Attempts, CheckCreate(a) PROVE TableInv'
  <2>1. /\ pc' = [pc EXCEPT ![a] = "settle"] \/ GoTo(a, "select") \/ Fail(a, "refused")
        /\ UNCHANGED <<req, bookings, free, missed, table>>
        /\ \A o \in Attempts \ {a} : slot'[o] = slot[o]
    BY <1>3 DEF CheckCreate, dbVars, TypeOK, Types
  <2>2. Quiet
    BY <2>1 DEF GoTo, Fail, Holding, TypeOK, Types
  <2> QED
    BY <2>1, <2>2, QuietTables
<1>4. ASSUME NEW a \in Attempts, LockRow(a) PROVE TableInv'
  <2> DEFINE w == NewSlot(req[a], bookings[req[a].booking])
  <2>1. UNCHANGED <<req, bookings, free, missed, table>>
    BY <1>4 DEF LockRow, dbVars
  <2>2. \/ /\ slot' = [slot EXCEPT ![a] = w]
           /\ GoTo(a, IF w # NoSlot THEN "select" ELSE "write")
        \/ /\ UNCHANGED slot
           /\ pc' = [pc EXCEPT ![a] = "settle"] \/ Fail(a, "failed")
    BY <1>4 DEF LockRow
  <2> HIDE DEF w
  <2>3. Quiet
    BY <2>1, <2>2 DEF GoTo, Fail, Holding, Places, TypeOK, Types
  <2> QED
    BY <2>1, <2>3, QuietTables
<1>5. ASSUME NEW a \in Attempts,
             WriteBooking(a) \/ MergeSession(a) \/ Settle(a)
      PROVE TableInv'
  <2>1. /\ \/ pc' = [pc EXCEPT ![a] = "done"]
           \/ GoTo(a, "merge") /\ pc[a] = "write"
           \/ GoTo(a, "commit") /\ pc[a] = "merge"
        /\ UNCHANGED <<req, slot, bookings, free, missed, table>>
    BY <1>5 DEF WriteBooking, MergeSession, Settle, Record, dbVars, rowVars
  <2>2. Quiet
    BY <2>1 DEF GoTo, Holding, TypeOK, Types
  <2> QED
    BY <2>1, <2>2, QuietTables
<1>6. ASSUME NEW c \in Calls, CallerTurn(c) PROVE TableInv'
  <2>1. UNCHANGED <<pc, req, dbVars, rowVars>>
    BY <1>6 DEF CallerTurn
  <2> QED
    BY <1>0, <2>1 DEF dbVars, rowVars, Places
<1>7. CASE Restart
  <2>1. UNCHANGED <<req, dbVars, rowVars>>
    BY <1>7 DEF Restart
  <2>2. Quiet
    BY <1>7 DEF Restart, Holding
  <2> QED
    BY <1>0, <2>1, <2>2 DEF dbVars
<1>8. CASE UNCHANGED vars
  BY <1>0, <1>8 DEF vars, rowVars
<1> QED
  BY <1>1, <1>2, <1>3, <1>4, <1>5, <1>6, <1>7, <1>8, SelectTables_Tables,
     LockTable_Tables, Commit_Tables
  DEF Next, Step

\* Confirmed bookings of one table overlap only when the query of one began
\* before the other was committed: for every number of concurrent attempts, the
\* table locks close every other interleaving.
THEOREM OverlapsAreUnseen == Spec => []NoUnseenOverlap
<1>1. TypeOK /\ TableInv /\ [Next]_vars => TableInv'
  BY NextTables
<1>2. TableInv => NoUnseenOverlap
  BY DEF TableInv
<1> QED
  BY <1>1, <1>2, InitTables, TypeCorrect, PTL DEF Spec

-----------------------------------------------------------------------------
(* CancelledIsFinal *)

OnRow == {"select", "lock", "write", "merge", "commit"}

\* Two transactions never hold the same booking row.
RowLocksExclude ==
  \A a, o \in Attempts :
    /\ a # o
    /\ pc[a] \in OnRow \cup {"settle"} /\ pc[o] \in OnRow \cup {"settle"}
    /\ ~Creates(req[a]) /\ ~Creates(req[o])
    => req[a].booking # req[o].booking

\* The row a change or a cancellation works on is confirmed until it commits.
HeldIsConfirmed(a) ==
  pc[a] \in OnRow /\ ~Creates(req[a]) =>
    bookings[req[a].booking].status = "confirmed"

\* An inserted row is absent until its transaction commits.
Inserting(a) == pc[a] \in {"merge", "commit"} /\ Creates(req[a])

InsertIsNew(a) ==
  Inserting(a) => newId[a] < nextId /\ bookings[newId[a]].status = "absent"

InsertsDiffer ==
  \A a, o \in Attempts : a # o /\ Inserting(a) /\ Inserting(o) => newId[a] # newId[o]

RowInv ==
  /\ RowLocksExclude
  /\ \A a \in Attempts : HeldIsConfirmed(a) /\ InsertIsNew(a)
  /\ InsertsDiffer
  /\ \A b \in BookingIds : b >= nextId => bookings[b].status = "absent"

\* The first state.
LEMMA InitRows == Init => RowInv
<1> SUFFICES ASSUME Init PROVE RowInv
  OBVIOUS
<1>1. \A a \in Attempts : pc[a] = "idle"
  BY DEF Init
<1>2. ASSUME NEW b \in BookingIds, b >= nextId PROVE bookings[b].status = "absent"
  BY <1>2, SeededAssumption DEF Init, NoRow, BookingIds
<1> QED
  BY <1>1, <1>2
  DEF RowInv, RowLocksExclude, HeldIsConfirmed, InsertIsNew, InsertsDiffer, Inserting, OnRow

\* A step that writes and inserts no booking and locks no booking row.
LEMMA QuietRows ==
  ASSUME RowInv, UNCHANGED <<bookings, nextId, newId>>,
         \A o \in Attempts :
           /\ pc'[o] \in OnRow \cup {"settle"} /\ ~Creates(req'[o]) =>
                /\ pc[o] \in OnRow \cup {"settle"} /\ req'[o] = req[o]
                /\ pc'[o] \in OnRow => pc[o] \in OnRow
           /\ pc'[o] \in {"merge", "commit"} /\ Creates(req'[o]) =>
                pc[o] \in {"merge", "commit"} /\ req'[o] = req[o]
  PROVE  RowInv'
<1>1. RowLocksExclude'
  BY DEF RowInv, RowLocksExclude
<1>2. ASSUME NEW a \in Attempts PROVE HeldIsConfirmed(a)' /\ InsertIsNew(a)'
  BY DEF RowInv, HeldIsConfirmed, InsertIsNew, Inserting
<1>3. InsertsDiffer'
  BY DEF RowInv, InsertsDiffer, Inserting
<1> QED
  BY <1>1, <1>2, <1>3 DEF RowInv

\* The lock is granted when nobody holds the row, and the row is read after that.
LEMMA LockRow_Rows ==
  ASSUME TypeOK, RowInv, NEW a \in Attempts, LockRow(a)
  PROVE  RowInv'
<1> DEFINE r == req[a]
<1>1. /\ pc[a] = "row" /\ ~Creates(r)
      /\ UNCHANGED <<bookings, nextId, newId, req>>
      /\ ~RowLocked(r.booking)
  BY DEF LockRow, TypeOK, Ready, dbVars
<1>2. /\ \A o \in Attempts \ {a} : pc'[o] = pc[o]
      /\ pc'[a] \in {"select", "write", "settle", "done"}
      /\ pc'[a] \in OnRow => bookings[r.booking].status = "confirmed"
  BY DEF LockRow, GoTo, Fail, TypeOK, Types, OnRow
<1>3. \A o \in Attempts :
        pc[o] \in OnRow \cup {"settle"} /\ ~Creates(req[o]) => req[o].booking # r.booking
  BY <1>1 DEF RowLocked, OnRow
<1>4. RowLocksExclude'
  <2> SUFFICES ASSUME NEW i \in Attempts, NEW o \in Attempts, i # o,
                      pc'[i] \in OnRow \cup {"settle"}, pc'[o] \in OnRow \cup {"settle"},
                      ~Creates(req[i]), ~Creates(req[o])
               PROVE req[i].booking # req[o].booking
    BY <1>1 DEF RowLocksExclude
  <2>1. CASE i = a
    BY <1>2, <1>3, <2>1
  <2>2. CASE o = a
    BY <1>2, <1>3, <2>2
  <2>3. CASE i # a /\ o # a
    BY <1>2, <2>3 DEF RowInv, RowLocksExclude
  <2> QED
    BY <2>1, <2>2, <2>3
<1>5. ASSUME NEW o \in Attempts PROVE HeldIsConfirmed(o)' /\ InsertIsNew(o)'
  BY <1>1, <1>2 DEF RowInv, HeldIsConfirmed, InsertIsNew, Inserting
<1>6. InsertsDiffer'
  BY <1>1, <1>2 DEF RowInv, InsertsDiffer, Inserting
<1> QED
  BY <1>1, <1>4, <1>5, <1>6 DEF RowInv

\* An insert takes an id that no row and no other insert has.
LEMMA WriteBooking_Rows ==
  ASSUME TypeOK, RowInv, NEW a \in Attempts, WriteBooking(a)
  PROVE  RowInv'
<1>1. /\ pc[a] = "write" /\ pc'[a] = "merge" /\ UNCHANGED <<bookings, req>>
      /\ \A o \in Attempts \ {a} : pc'[o] = pc[o]
  BY DEF WriteBooking, GoTo, TypeOK, Types
<1>2. nextId \in Int /\ \A o \in Attempts : newId[o] \in Int
  BY NumbersAssumption DEF TypeOK, Types
<1>3. RowLocksExclude'
  BY <1>1 DEF RowInv, RowLocksExclude, OnRow
<1>4. CASE Creates(req[a])
  <2>1. /\ nextId \in BookingIds /\ nextId' = nextId + 1 /\ newId'[a] = nextId
        /\ \A o \in Attempts \ {a} : newId'[o] = newId[o]
    BY <1>4, NumbersAssumption DEF WriteBooking, TypeOK, Types, BookingIds
  <2>2. bookings[nextId].status = "absent"
    BY <1>2, <2>1 DEF RowInv
  <2>3. ASSUME NEW o \in Attempts PROVE HeldIsConfirmed(o)' /\ InsertIsNew(o)'
    <3>1. HeldIsConfirmed(o)'
      BY <1>1 DEF RowInv, HeldIsConfirmed, OnRow
    <3>2. InsertIsNew(o)'
      BY <1>1, <1>2, <2>1, <2>2 DEF RowInv, InsertIsNew, Inserting
    <3> QED
      BY <3>1, <3>2
  <2>4. InsertsDiffer'
    <3>1. ASSUME NEW o \in Attempts \ {a}, Inserting(o)' PROVE newId[o] < nextId
      BY <1>1, <3>1 DEF RowInv, InsertIsNew, Inserting
    <3> QED
      BY <1>1, <1>2, <2>1, <3>1 DEF RowInv, InsertsDiffer, Inserting
  <2>5. \A b \in BookingIds : b >= nextId' => bookings'[b].status = "absent"
    BY <1>1, <1>2, <2>1 DEF RowInv, BookingIds
  <2> QED
    BY <1>3, <2>3, <2>4, <2>5 DEF RowInv
<1>5. CASE ~Creates(req[a])
  <2>1. UNCHANGED <<newId, nextId>>
    BY <1>5 DEF WriteBooking
  <2>2. ASSUME NEW o \in Attempts PROVE HeldIsConfirmed(o)' /\ InsertIsNew(o)'
    BY <1>1, <1>5, <2>1 DEF RowInv, HeldIsConfirmed, InsertIsNew, Inserting, OnRow
  <2>3. InsertsDiffer'
    BY <1>1, <1>5, <2>1 DEF RowInv, InsertsDiffer, Inserting
  <2> QED
    BY <1>1, <1>3, <2>1, <2>2, <2>3 DEF RowInv
<1> QED
  BY <1>4, <1>5

\* What a commit writes to: a row of its own that is confirmed or not there yet.
LEMMA CommitTarget ==
  ASSUME TypeOK, RowInv, NEW a \in Attempts, Commit(a)
  PROVE  /\ Target(a) \in BookingIds
         /\ bookings[Target(a)].status \in {"absent", "confirmed"}
         /\ \A i \in BookingIds \ {Target(a)} : bookings'[i] = bookings[i]
         /\ \A o \in Attempts \ {a} :
              /\ pc[o] \in OnRow /\ ~Creates(req[o]) => req[o].booking # Target(a)
              /\ Inserting(o) => newId[o] # Target(a)
         /\ Target(a) < nextId
<1>1. pc[a] = "commit" /\ req[a] \in Requests
  BY DEF Commit, TypeOK, Ready
<1>2. Target(a) \in BookingIds
  BY <1>1, RequestFacts DEF Target, TypeOK, Ready
<1>3. \A i \in BookingIds \ {Target(a)} : bookings'[i] = bookings[i]
  BY <1>2 DEF Commit, TypeOK, Types
<1>4. CASE Creates(req[a])
  <2>1. /\ Inserting(a) /\ Target(a) = newId[a] /\ newId[a] < nextId
        /\ bookings[newId[a]].status = "absent"
    BY <1>1, <1>4 DEF Inserting, Target, RowInv, InsertIsNew
  <2>2. ASSUME NEW o \in Attempts \ {a}
        PROVE  /\ pc[o] \in OnRow /\ ~Creates(req[o]) => req[o].booking # Target(a)
               /\ Inserting(o) => newId[o] # Target(a)
    BY <2>1 DEF RowInv, HeldIsConfirmed, InsertsDiffer
  <2> QED
    BY <1>2, <1>3, <2>1, <2>2
<1>5. CASE ~Creates(req[a])
  <2>1. Target(a) = req[a].booking /\ bookings[req[a].booking].status = "confirmed"
    BY <1>1, <1>5 DEF Target, RowInv, HeldIsConfirmed, OnRow
  <2>2. ASSUME NEW o \in Attempts \ {a}
        PROVE  /\ pc[o] \in OnRow /\ ~Creates(req[o]) => req[o].booking # Target(a)
               /\ Inserting(o) => newId[o] # Target(a)
    BY <1>1, <1>5, <2>1 DEF RowInv, RowLocksExclude, InsertIsNew, OnRow
  <2>3. Target(a) < nextId
    <3>1. nextId \in Int /\ Target(a) \in Int
      BY <1>2, NumbersAssumption DEF TypeOK, Types, BookingIds
    <3>2. ~(Target(a) >= nextId)
      BY <1>2, <2>1 DEF RowInv
    <3> QED
      BY <3>1, <3>2
  <2> QED
    BY <1>2, <1>3, <2>1, <2>2, <2>3
<1> QED
  BY <1>4, <1>5

\* A commit leaves the rows that others work on as they are.
LEMMA Commit_Rows ==
  ASSUME TypeOK, RowInv, NEW a \in Attempts, Commit(a)
  PROVE  RowInv'
<1> DEFINE b == Target(a)
<1>1. /\ UNCHANGED <<req, newId, nextId>> /\ pc'[a] = "done"
      /\ \A o \in Attempts \ {a} : pc'[o] = pc[o]
  BY DEF Commit, Record, TypeOK, Types
<1>2. RowLocksExclude'
  BY <1>1 DEF RowInv, RowLocksExclude, OnRow
<1>3. ASSUME NEW o \in Attempts PROVE HeldIsConfirmed(o)' /\ InsertIsNew(o)'
  <2>1. CASE o = a
    BY <1>1, <2>1 DEF HeldIsConfirmed, InsertIsNew, Inserting, OnRow
  <2>2. CASE o # a
    <3>1. HeldIsConfirmed(o)'
      <4> SUFFICES ASSUME pc[o] \in OnRow, ~Creates(req[o])
                   PROVE bookings'[req[o].booking].status = "confirmed"
        BY <1>1, <2>2 DEF HeldIsConfirmed
      <4>1. req[o] \in Requests
        BY DEF TypeOK, Ready, OnRow
      <4>2. req[o].booking \in BookingIds \ {b}
        BY <2>2, <4>1, CommitTarget, RequestFacts
      <4> QED
        BY <4>2, CommitTarget DEF RowInv, HeldIsConfirmed
    <3>2. InsertIsNew(o)'
      <4> SUFFICES ASSUME Inserting(o)
                   PROVE newId[o] < nextId /\ bookings'[newId[o]].status = "absent"
        BY <1>1, <2>2 DEF InsertIsNew, Inserting
      <4>1. newId[o] \in BookingIds \ {b}
        BY <2>2, CommitTarget DEF TypeOK, Ready, Inserting
      <4> QED
        BY <4>1, CommitTarget DEF RowInv, InsertIsNew
    <3> QED
      BY <3>1, <3>2
  <2> QED
    BY <2>1, <2>2
<1>4. InsertsDiffer'
  BY <1>1 DEF RowInv, InsertsDiffer, Inserting
<1>5. ASSUME NEW i \in BookingIds, i >= nextId PROVE bookings'[i].status = "absent"
  <2>1. i # b
    BY <1>5, CommitTarget, NumbersAssumption DEF BookingIds, TypeOK, Types
  <2> QED
    BY <1>5, <2>1, CommitTarget DEF RowInv
<1> QED
  BY <1>1, <1>2, <1>3, <1>4, <1>5 DEF RowInv

\* Every step keeps the invariant of the booking rows.
LEMMA NextRows == TypeOK /\ RowInv /\ [Next]_vars => RowInv'
<1> SUFFICES ASSUME TypeOK, RowInv, [Next]_vars PROVE RowInv'
  OBVIOUS
<1> DEFINE Quiet ==
      \A o \in Attempts :
        /\ pc'[o] \in OnRow \cup {"settle"} /\ ~Creates(req'[o]) =>
             /\ pc[o] \in OnRow \cup {"settle"} /\ req'[o] = req[o]
             /\ pc'[o] \in OnRow => pc[o] \in OnRow
        /\ pc'[o] \in {"merge", "commit"} /\ Creates(req'[o]) =>
             pc[o] \in {"merge", "commit"} /\ req'[o] = req[o]
<1>0. ASSUME Quiet, UNCHANGED <<bookings, nextId, newId>> PROVE RowInv'
  BY <1>0, QuietRows
<1>1. ASSUME NEW a \in Attempts, Submit(a) PROVE RowInv'
  <2>1. PICK q \in Requests : /\ req' = [req EXCEPT ![a] = q]
                              /\ GoTo(a, "claim") \/ Fail(a, "refused")
    BY <1>1 DEF Submit
  <2>2. Quiet
    BY <2>1 DEF GoTo, Fail, OnRow, TypeOK, Types
  <2> QED
    BY <1>0, <1>1, <2>2 DEF Submit, dbVars, rowVars
<1>2. ASSUME NEW a \in Attempts,
             ClaimKey(a) \/ ReplayKey(a) \/ Recheck(a) \/ Rollback(a)
      PROVE RowInv'
  <2>1. /\ GoTo(a, "gate") \/ GoTo(a, "row") \/ pc' = [pc EXCEPT ![a] = "done"]
        /\ UNCHANGED <<req, dbVars, rowVars>>
    BY <1>2 DEF ClaimKey, ReplayKey, Recheck, Rollback, Fail
  <2>2. Quiet
    BY <2>1 DEF GoTo, OnRow, TypeOK, Types
  <2> QED
    BY <1>0, <2>1, <2>2 DEF dbVars, rowVars
<1>3. ASSUME NEW a \in Attempts, CheckCreate(a) PROVE RowInv'
  <2>1. /\ pc' = [pc EXCEPT ![a] = "settle"] \/ GoTo(a, "select") \/ Fail(a, "refused")
        /\ Creates(req[a]) /\ UNCHANGED <<req, dbVars, newId>>
    BY <1>3 DEF CheckCreate
  <2>2. Quiet
    BY <2>1 DEF GoTo, Fail, OnRow, TypeOK, Types
  <2> QED
    BY <1>0, <2>1, <2>2 DEF dbVars, rowVars
<1>4. ASSUME NEW a \in Attempts, SelectTables(a) \/ LockTable(a) PROVE RowInv'
  <2>1. /\ pc[a] \in {"select", "lock"}
        /\ \/ GoTo(a, "lock") \/ GoTo(a, "write")
           \/ pc' = [pc EXCEPT ![a] = "settle"] \/ Fail(a, "failed")
        /\ UNCHANGED <<req, dbVars, newId>>
    BY <1>4 DEF SelectTables, LockTable
  <2>2. Quiet
    BY <2>1 DEF GoTo, Fail, OnRow, TypeOK, Types
  <2> QED
    BY <1>0, <2>1, <2>2 DEF dbVars
<1>5. ASSUME NEW a \in Attempts, MergeSession(a) PROVE RowInv'
  <2>1. pc[a] = "merge" /\ GoTo(a, "commit") /\ UNCHANGED <<req, dbVars, rowVars>>
    BY <1>5 DEF MergeSession
  <2>2. Quiet
    BY <2>1 DEF GoTo, OnRow, TypeOK, Types
  <2> QED
    BY <1>0, <2>1, <2>2 DEF dbVars, rowVars
<1>6. ASSUME NEW a \in Attempts, Settle(a) PROVE RowInv'
  <2>1. pc' = [pc EXCEPT ![a] = "done"] /\ UNCHANGED <<req, bookings, nextId, newId>>
    BY <1>6 DEF Settle, Record, rowVars
  <2>2. Quiet
    BY <2>1 DEF OnRow, TypeOK, Types
  <2> QED
    BY <1>0, <2>1, <2>2
<1>7. ASSUME NEW c \in Calls, CallerTurn(c) PROVE RowInv'
  <2>1. UNCHANGED <<pc, req, dbVars, rowVars>>
    BY <1>7 DEF CallerTurn
  <2> QED
    BY <1>0, <2>1 DEF dbVars, rowVars
<1>8. CASE Restart
  <2>1. UNCHANGED <<req, dbVars, rowVars>>
    BY <1>8 DEF Restart
  <2>2. Quiet
    BY <1>8 DEF Restart, OnRow
  <2> QED
    BY <1>0, <2>1, <2>2 DEF dbVars, rowVars
<1>9. CASE UNCHANGED vars
  BY <1>0, <1>9 DEF vars, rowVars, dbVars
<1> QED
  BY <1>1, <1>2, <1>3, <1>4, <1>5, <1>6, <1>7, <1>8, <1>9, LockRow_Rows,
     WriteBooking_Rows, Commit_Rows
  DEF Next, Step

\* A cancelled booking is never written again: a change or a cancellation reads
\* the row under its lock, and an insert never takes the id of a row.
THEOREM CancelledStaysCancelled == Spec => CancelledIsFinal
<1> DEFINE Final == \A b \in BookingIds :
                      bookings[b].status = "cancelled" => bookings'[b] = bookings[b]
<1>1. ASSUME TypeOK, RowInv, [Next]_vars PROVE [Final]_vars
  <2>1. ASSUME NEW a \in Attempts, Commit(a) PROVE Final
    BY <2>1, <1>1, CommitTarget
  <2>2. ASSUME NEW a \in Attempts, ~Commit(a),
               Submit(a) \/ Step(a) \/ Rollback(a)
        PROVE  UNCHANGED bookings
    BY <2>2 DEF Step, Submit, ClaimKey, ReplayKey, CheckCreate, Recheck, LockRow,
      SelectTables, LockTable, WriteBooking, MergeSession, Settle, Rollback, dbVars, rowVars
  <2>3. ASSUME NEW c \in Calls, CallerTurn(c) PROVE UNCHANGED bookings
    BY <2>3 DEF CallerTurn, dbVars
  <2>4. CASE Restart
    BY <2>4 DEF Restart, dbVars
  <2> QED
    BY <1>1, <2>1, <2>2, <2>3, <2>4 DEF Next
<1>2. TypeOK /\ RowInv /\ [Next]_vars => RowInv'
  BY NextRows
<1> QED
  BY <1>1, <1>2, InitRows, TypeCorrect, PTL DEF Spec, CancelledIsFinal

-----------------------------------------------------------------------------
(* SameKeySameAnswer *)

\* Two transactions never work under the same idempotency key.
KeysExclude ==
  \A a, o \in Attempts :
    a # o /\ pc[a] \in InTransaction /\ pc[o] \in InTransaction
    => Entry(req[a]) # Entry(req[o])

\* While a transaction works under a key, nothing is stored under it.
KeyIsUnused(a) == pc[a] \in InTransaction => ledger[Entry(req[a])] = None

\* Whoever has been told of a success has been told what is stored.
AnswerIsStored(a) ==
  pc[a] = "done" /\ Succeeded(answer[a]) =>
    ledger[Entry(req[a])] = [request |-> req[a], answer |-> answer[a]]

KeyInv ==
  /\ KeysExclude
  /\ \A a \in Attempts : KeyIsUnused(a) /\ AnswerIsStored(a)

\* A stored answer is not the missing row.
LEMMA StoredIsARow ==
  ASSUME NEW r \in Requests, NEW x \in Answer
  PROVE  /\ [request |-> r, answer |-> x] # None
         /\ [request |-> r, answer |-> x].request = r
         /\ [request |-> r, answer |-> x].answer = x
BY LedgerAssumption

\* Whoever has ended or works in a transaction has sent a request.
LEMMA SentARequest ==
  ASSUME TypeOK, NEW a \in Attempts, pc[a] # "idle"
  PROVE  req[a] \in Requests /\ Entry(req[a]) \in Entries /\ req[a].call \in Calls
BY RequestFacts DEF TypeOK, Ready

\* A step that stores nothing, takes no key and tells of no success.
LEMMA QuietKeys ==
  ASSUME KeyInv, UNCHANGED ledger,
         \A o \in Attempts :
           /\ pc'[o] \in InTransaction => pc[o] \in InTransaction /\ req'[o] = req[o]
           /\ pc'[o] = "done" /\ Succeeded(answer'[o]) =>
                pc[o] = "done" /\ req'[o] = req[o] /\ answer'[o] = answer[o]
  PROVE  KeyInv'
<1>1. KeysExclude'
  BY DEF KeyInv, KeysExclude
<1>2. ASSUME NEW a \in Attempts PROVE KeyIsUnused(a)'
  BY DEF KeyInv, KeyIsUnused
<1>3. ASSUME NEW a \in Attempts PROVE AnswerIsStored(a)'
  <2> SUFFICES ASSUME pc'[a] = "done", Succeeded(answer'[a]) PROVE AnswerIsStored(a)'
    BY DEF AnswerIsStored, Succeeded
  <2> QED
    BY DEF KeyInv, AnswerIsStored, Succeeded
<1> QED
  BY <1>1, <1>2, <1>3 DEF KeyInv

\* The key is claimed when nobody works under it and nothing is stored.
LEMMA ClaimKey_Keys ==
  ASSUME TypeOK, KeyInv, NEW a \in Attempts, ClaimKey(a)
  PROVE  KeyInv'
<1>1. /\ UNCHANGED <<ledger, req, answer>> /\ ledger[Entry(req[a])] = None
      /\ ~KeyHeld(Entry(req[a]))
      /\ pc'[a] = "gate" /\ \A o \in Attempts \ {a} : pc'[o] = pc[o]
  BY DEF ClaimKey, GoTo, dbVars, TypeOK, Types
<1>2. \A o \in Attempts : pc[o] \in InTransaction => Entry(req[o]) # Entry(req[a])
  BY <1>1 DEF KeyHeld
<1>3. KeysExclude'
  <2> SUFFICES ASSUME NEW i \in Attempts, NEW o \in Attempts, i # o,
                      pc'[i] \in InTransaction, pc'[o] \in InTransaction
               PROVE  Entry(req[i]) # Entry(req[o])
    BY <1>1 DEF KeysExclude, Entry
  <2>1. CASE i = a
    BY <1>1, <1>2, <2>1
  <2>2. CASE o = a
    BY <1>1, <1>2, <2>2
  <2>3. CASE i # a /\ o # a
    BY <1>1, <2>3 DEF KeyInv, KeysExclude
  <2> QED
    BY <2>1, <2>2, <2>3
<1>4. ASSUME NEW o \in Attempts PROVE KeyIsUnused(o)'
  BY <1>1 DEF KeyInv, KeyIsUnused, Entry
<1>5. ASSUME NEW o \in Attempts PROVE AnswerIsStored(o)'
  BY <1>1 DEF KeyInv, AnswerIsStored, Entry
<1> QED
  BY <1>3, <1>4, <1>5 DEF KeyInv

\* A retry is told what is stored, or of no success.
LEMMA ReplayKey_Keys ==
  ASSUME TypeOK, KeyInv, NEW a \in Attempts, ReplayKey(a)
  PROVE  KeyInv'
<1> DEFINE used == ledger[Entry(req[a])]
<1>1. /\ UNCHANGED <<ledger, req>> /\ used # None /\ pc[a] = "claim"
      /\ pc'[a] = "done" /\ \A o \in Attempts \ {a} : pc'[o] = pc[o]
      /\ answer'[a] = IF used.request = req[a] THEN used.answer ELSE Told("conflict", 0)
      /\ \A o \in Attempts \ {a} : answer'[o] = answer[o]
  BY DEF ReplayKey, dbVars, TypeOK, Types
<1>2. used \in [request : Requests, answer : Answer]
  BY <1>1, SentARequest DEF TypeOK, Types
<1>3. KeysExclude'
  BY <1>1 DEF KeyInv, KeysExclude, InTransaction, Entry
<1>4. ASSUME NEW o \in Attempts PROVE KeyIsUnused(o)'
  BY <1>1 DEF KeyInv, KeyIsUnused, InTransaction, Entry
<1>5. ASSUME NEW o \in Attempts PROVE AnswerIsStored(o)'
  <2>1. CASE o # a
    BY <1>1, <2>1 DEF KeyInv, AnswerIsStored, Entry, Succeeded
  <2>2. CASE o = a /\ used.request = req[a]
    <3>1. used = [request |-> req[a], answer |-> answer'[a]]
      BY <1>1, <1>2, <2>2
    <3> QED
      BY <1>1, <2>2, <3>1 DEF AnswerIsStored, Entry
  <2>3. CASE o = a /\ used.request # req[a]
    <3>1. answer'[a].kind = "conflict"
      BY <1>1, <2>3 DEF Told
    <3> QED
      BY <2>3, <3>1 DEF AnswerIsStored, Succeeded
  <2> QED
    BY <2>1, <2>2, <2>3
<1> QED
  BY <1>3, <1>4, <1>5 DEF KeyInv

\* A transaction stores its answer under the key it alone works under.
LEMMA Record_Keys ==
  ASSUME TypeOK, KeyInv, NEW a \in Attempts, pc[a] \in InTransaction,
         NEW x \in Answer, Record(a, x), UNCHANGED req
  PROVE  KeyInv'
<1> DEFINE e == Entry(req[a])
<1>1. req[a] \in Requests /\ e \in Entries
  BY SentARequest DEF InTransaction
<1>2. /\ ledger'[e] = [request |-> req[a], answer |-> x]
      /\ \A f \in Entries \ {e} : ledger'[f] = ledger[f]
      /\ pc'[a] = "done" /\ \A o \in Attempts \ {a} : pc'[o] = pc[o]
      /\ answer'[a] = x /\ \A o \in Attempts \ {a} : answer'[o] = answer[o]
  BY <1>1 DEF Record, TypeOK, Types
<1>3. ledger[e] = None
  BY DEF KeyInv, KeyIsUnused
<1>4. \A o \in Attempts \ {a} :
        pc[o] \in InTransaction => Entry(req[o]) \in Entries \ {e}
  BY SentARequest DEF KeyInv, KeysExclude, InTransaction
<1>5. KeysExclude'
  BY <1>2 DEF KeyInv, KeysExclude, InTransaction, Entry
<1>6. ASSUME NEW o \in Attempts PROVE KeyIsUnused(o)'
  <2>1. Entry(req[o])' = Entry(req[o])
    BY DEF Entry
  <2> QED
    BY <1>2, <1>4, <2>1 DEF KeyInv, KeyIsUnused, InTransaction
<1>7. ASSUME NEW o \in Attempts PROVE AnswerIsStored(o)'
  <2>1. Entry(req[o])' = Entry(req[o])
    BY DEF Entry
  <2>2. CASE o = a
    BY <1>2, <2>1, <2>2 DEF AnswerIsStored
  <2>3. CASE o # a
    <3> SUFFICES ASSUME pc[o] = "done", Succeeded(answer[o])
                 PROVE  ledger'[Entry(req[o])] = [request |-> req[o], answer |-> answer[o]]
      BY <1>2, <2>1, <2>3 DEF AnswerIsStored, Succeeded
    <3>1. req[o] \in Requests /\ Entry(req[o]) \in Entries /\ answer[o] \in Answer
      BY SentARequest DEF TypeOK, Types
    <3>2. ledger[Entry(req[o])] = [request |-> req[o], answer |-> answer[o]]
      BY DEF KeyInv, AnswerIsStored
    <3>3. Entry(req[o]) # e
      BY <1>3, <3>1, <3>2, StoredIsARow
    <3> QED
      BY <1>2, <3>1, <3>2, <3>3
  <2> QED
    BY <2>2, <2>3
<1> QED
  BY <1>5, <1>6, <1>7 DEF KeyInv

\* The answers that Commit and Settle store.
LEMMA Stores ==
  ASSUME TypeOK, NEW a \in Attempts, Commit(a) \/ Settle(a)
  PROVE  /\ \E x \in Answer : Record(a, x)
         /\ pc[a] \in {"commit", "settle"} /\ UNCHANGED <<req, nextId, newId>>
<1>1. CASE Commit(a)
  <2>1. Target(a) \in 0..MaxBookings
    BY <1>1, SentARequest, RequestFacts, NumbersAssumption DEF Commit, Target, TypeOK, Types
  <2> QED
    BY <1>1, <2>1, ToldIsAnswer DEF Commit
<1>2. CASE Settle(a)
  BY <1>2 DEF Settle, rowVars, TypeOK, Types
<1> QED
  BY <1>1, <1>2

\* Every step keeps the invariant of the keys.
LEMMA NextKeys == TypeOK /\ KeyInv /\ [Next]_vars => KeyInv'
<1> SUFFICES ASSUME TypeOK, KeyInv, [Next]_vars PROVE KeyInv'
  OBVIOUS
<1> DEFINE Quiet ==
      \A o \in Attempts :
        /\ pc'[o] \in InTransaction => pc[o] \in InTransaction /\ req'[o] = req[o]
        /\ pc'[o] = "done" /\ Succeeded(answer'[o]) =>
             pc[o] = "done" /\ req'[o] = req[o] /\ answer'[o] = answer[o]
<1>0. ASSUME Quiet, UNCHANGED ledger PROVE KeyInv'
  BY <1>0, QuietKeys
<1>1. ASSUME NEW a \in Attempts, NEW l \in InTransaction \cup {"claim"},
             NEW k \in {"refused", "conflict", "failed"},
             \/ GoTo(a, l) /\ (pc[a] \in InTransaction \/ l = "claim")
             \/ Fail(a, k)
             \/ pc' = [pc EXCEPT ![a] = "settle"] /\ pc[a] \in InTransaction
                  /\ \A o \in Attempts \ {a} : answer'[o] = answer[o],
             \A o \in Attempts : o # a \/ pc[a] \in InTransaction => req'[o] = req[o]
      PROVE  Quiet
  <2>1. CASE GoTo(a, l) /\ (pc[a] \in InTransaction \/ l = "claim")
    BY <1>1, <2>1 DEF GoTo, InTransaction, TypeOK, Types
  <2>2. CASE Fail(a, k)
    BY <1>1, <2>2 DEF Fail, Told, Succeeded, InTransaction, TypeOK, Types
  <2>3. CASE pc' = [pc EXCEPT ![a] = "settle"] /\ pc[a] \in InTransaction
               /\ \A o \in Attempts \ {a} : answer'[o] = answer[o]
    BY <1>1, <2>3 DEF InTransaction, TypeOK, Types
  <2> QED
    BY <1>1, <2>1, <2>2, <2>3
<1> HIDE DEF Quiet
<1>2. ASSUME NEW a \in Attempts, Submit(a) PROVE KeyInv'
  <2>1. /\ UNCHANGED ledger /\ \A o \in Attempts : o # a => req'[o] = req[o]
        /\ GoTo(a, "claim") \/ Fail(a, "refused")
        /\ pc[a] \notin InTransaction
    BY <1>2 DEF Submit, dbVars, InTransaction, TypeOK, Types
  <2> QED
    BY <1>0, <1>1, <2>1
<1>3. ASSUME NEW a \in Attempts,
             \/ CheckCreate(a) \/ Recheck(a) \/ LockRow(a) \/ SelectTables(a)
             \/ LockTable(a) \/ WriteBooking(a) \/ MergeSession(a) \/ Rollback(a)
      PROVE  KeyInv'
  <2>1. UNCHANGED <<ledger, req>> /\ pc[a] \in InTransaction
    BY <1>3 DEF CheckCreate, Recheck, LockRow, SelectTables, LockTable, WriteBooking,
      MergeSession, Rollback, dbVars, InTransaction
  <2>2. \/ \E l \in InTransaction : GoTo(a, l)
        \/ Fail(a, "failed") \/ Fail(a, "refused")
        \/ pc' = [pc EXCEPT ![a] = "settle"]
             /\ \A o \in Attempts \ {a} : answer'[o] = answer[o]
    <3>1. CASE CheckCreate(a) \/ LockRow(a)
      BY <3>1 DEF CheckCreate, LockRow, InTransaction, TypeOK, Types
    <3>2. CASE Recheck(a) \/ SelectTables(a) \/ LockTable(a)
      BY <3>2 DEF Recheck, SelectTables, LockTable, InTransaction, TypeOK, Types
    <3>3. CASE WriteBooking(a) \/ MergeSession(a) \/ Rollback(a)
      BY <3>3 DEF WriteBooking, MergeSession, Rollback, InTransaction
    <3> QED
      BY <1>3, <3>1, <3>2, <3>3
  <2> QED
    BY <1>0, <1>1, <2>1, <2>2
<1>4. ASSUME NEW a \in Attempts, Commit(a) \/ Settle(a) PROVE KeyInv'
  <2>1. PICK x \in Answer : Record(a, x)
    BY <1>4, Stores
  <2> QED
    BY <1>4, <2>1, Stores, Record_Keys DEF InTransaction
<1>5. ASSUME NEW c \in Calls, CallerTurn(c) PROVE KeyInv'
  BY <1>0, <1>5 DEF CallerTurn, dbVars, Quiet
<1>6. CASE Restart
  <2>1. Quiet
    BY <1>6 DEF Restart, Quiet, Told, Succeeded, InTransaction
  <2> QED
    BY <1>0, <1>6, <2>1 DEF Restart, dbVars
<1>7. CASE UNCHANGED vars
  BY <1>0, <1>7 DEF vars, Quiet
<1> QED
  BY <1>2, <1>3, <1>4, <1>5, <1>6, <1>7, ClaimKey_Keys, ReplayKey_Keys DEF Next, Step

\* Before the first request nothing is claimed or stored.
LEMMA InitKeys == Init => KeyInv
BY DEF Init, KeyInv, KeysExclude, KeyIsUnused, AnswerIsStored, InTransaction

\* Retries under one key get one answer, however they interleave with each
\* other, with failing statements and with a restart.
THEOREM OneAnswerPerKey == Spec => []SameKeySameAnswer
<1>1. Init => KeyInv
  BY InitKeys
<1>2. ASSUME TypeOK, KeyInv PROVE SameKeySameAnswer
  <2> SUFFICES ASSUME NEW a \in Attempts, NEW o \in Attempts,
                      pc[a] = "done", pc[o] = "done",
                      Succeeded(answer[a]), Succeeded(answer[o]),
                      Entry(req[a]) = Entry(req[o])
               PROVE  answer[a] = answer[o] /\ req[a] = req[o]
    BY DEF SameKeySameAnswer
  <2>1. [request |-> req[a], answer |-> answer[a]]
          = [request |-> req[o], answer |-> answer[o]]
    BY <1>2 DEF KeyInv, AnswerIsStored
  <2>2. /\ req[a] \in Requests /\ req[o] \in Requests
        /\ answer[a] \in Answer /\ answer[o] \in Answer
    BY <1>2, SentARequest DEF TypeOK, Types
  <2> QED
    BY <2>1, <2>2, StoredIsARow
<1> QED
  BY <1>1, <1>2, NextKeys, TypeCorrect, PTL DEF Spec

-----------------------------------------------------------------------------
(* LedgerMatchesBookings *)

\* The ledger says that booking b was created under entry e.
CreatedUnder(e, b) == ledger[e] # None /\ ledger[e].answer = Told("created", b)

\* What a stored or an about-to-be-stored answer says of its booking is so.
Holds(x) ==
  /\ x.kind = "created" =>
       x.booking \in BookingIds /\ bookings[x.booking].status # "absent"
  /\ x.kind \in {"cancelled", "already_cancelled"} =>
       x.booking \in BookingIds /\ bookings[x.booking].status = "cancelled"

\* An attempt that has only its answer left to store has a true one.
SettlesTheTruth(a) ==
  pc[a] = "settle" => answer[a].kind # "created" /\ Holds(answer[a])

LedgerInv ==
  /\ \A b \in BookingIds :
       b > Len(Seeded) /\ bookings[b].status # "absent" =>
         \E e \in Entries : CreatedUnder(e, b)
  /\ \A b \in BookingIds : \A e, f \in Entries :
       CreatedUnder(e, b) /\ CreatedUnder(f, b) => e = f
  /\ \A e \in Entries : ledger[e] # None => Holds(ledger[e].answer)
  /\ \A a \in Attempts : SettlesTheTruth(a)

\* No row disappears, and no cancelled row changes.
Lasting ==
  \A b \in BookingIds :
    /\ bookings[b].status # "absent" => bookings'[b].status # "absent"
    /\ bookings[b].status = "cancelled" => bookings'[b].status = "cancelled"

\* What is true of a booking stays true.
LEMMA HoldsLasts ==
  ASSUME Lasting, NEW x, Holds(x)
  PROVE  Holds(x)'
BY DEF Lasting, Holds

\* A step that stores nothing and writes no booking.
LEMMA QuietLedger ==
  ASSUME LedgerInv, UNCHANGED <<bookings, ledger>>,
         \A o \in Attempts : pc'[o] = "settle" =>
           \/ pc[o] = "settle" /\ answer'[o] = answer[o]
           \/ answer'[o].kind # "created" /\ Holds(answer'[o])
  PROVE  LedgerInv'
<1>1. ASSUME NEW o \in Attempts PROVE SettlesTheTruth(o)'
  BY DEF LedgerInv, SettlesTheTruth, Holds
<1>2. \A b \in BookingIds :
       b > Len(Seeded) /\ bookings'[b].status # "absent" =>
         \E e \in Entries : CreatedUnder(e, b)'
  BY DEF LedgerInv, CreatedUnder
<1>3. \A b \in BookingIds : \A e, f \in Entries :
       CreatedUnder(e, b)' /\ CreatedUnder(f, b)' => e = f
  BY DEF LedgerInv, CreatedUnder
<1>4. \A e \in Entries : ledger'[e] # None => Holds(ledger[e].answer)'
  BY DEF LedgerInv, Holds
<1> QED
  BY <1>1, <1>2, <1>3, <1>4 DEF LedgerInv

\* A commit changes one row, of a booking that is not there yet or confirmed.
LEMMA Commit_Lasts ==
  ASSUME TypeOK, RowInv, NEW a \in Attempts, Commit(a)
  PROVE  /\ Lasting
         /\ Creates(req[a]) => bookings[Target(a)].status = "absent"
         /\ ~Creates(req[a]) => bookings[Target(a)].status = "confirmed"
         /\ Creates(req[a]) => bookings'[Target(a)].status = "confirmed"
         /\ Cancels(req[a]) => bookings'[Target(a)].status = "cancelled"
<1> DEFINE b == Target(a)
<1>0. pc[a] = "commit" /\ Ready(a)
  BY DEF Commit, TypeOK
<1>1. /\ b \in BookingIds /\ bookings[b].status \in {"absent", "confirmed"}
      /\ \A i \in BookingIds \ {b} : bookings'[i] = bookings[i]
  BY CommitTarget
<1>2. Creates(req[a]) => bookings[b].status = "absent" /\ Places(a)
  BY <1>0 DEF Ready, Inserting, InsertIsNew, RowInv, Target
<1>3. ~Creates(req[a]) => bookings[b].status = "confirmed"
  BY <1>0 DEF HeldIsConfirmed, OnRow, RowInv, Target
<1>4. /\ Places(a) => bookings'[b].status = "confirmed"
      /\ ~Places(a) /\ Cancels(req[a]) => bookings'[b].status = "cancelled"
      /\ ~Places(a) /\ ~Cancels(req[a]) => bookings'[b] = bookings[b]
  <2>0. bookings' = [bookings EXCEPT ![b] =
          CASE Places(a)  -> Row("confirmed", table[a], slot[a], missed[a])
            [] Cancels(req[a]) -> [@ EXCEPT !.status = "cancelled"]
            [] OTHER      -> @]
    BY DEF Commit
  <2>t. bookings \in [BookingIds ->
          [status : {"absent", "confirmed", "cancelled", "completed"},
           table : Tables \cup {None}, slot : Slots \cup {NoSlot},
           missed : SUBSET BookingIds]]
    BY DEF TypeOK, Types
  <2>c. Places(a) => ~Cancels(req[a])
    BY <1>0 DEF Ready
  <2> HIDE DEF b
  <2>1. CASE Places(a)
    <3>1. bookings'[b] = Row("confirmed", table[a], slot[a], missed[a])
      BY <1>1, <2>0, <2>1, <2>c, <2>t
    <3> QED
      BY <2>1, <3>1 DEF Row
  <2>2. CASE ~Places(a) /\ Cancels(req[a])
    <3>1. bookings'[b] = [bookings[b] EXCEPT !.status = "cancelled"]
      BY <1>1, <2>0, <2>2, <2>t
    <3> QED
      BY <1>1, <2>2, <2>t, <3>1
  <2>3. CASE ~Places(a) /\ ~Cancels(req[a])
    BY <1>1, <2>0, <2>3, <2>t
  <2> QED
    BY <2>1, <2>2, <2>3
<1>5. Cancels(req[a]) => ~Places(a)
  BY <1>0 DEF Ready
<1>6. Lasting
  <2> HIDE DEF b
  <2> QED
    BY <1>1, <1>2, <1>3, <1>4 DEF Lasting
<1> QED
  BY <1>2, <1>3, <1>4, <1>5, <1>6

\* A stored answer is true when it is stored and stays true.
LEMMA Record_Ledger ==
  ASSUME TypeOK, KeyInv, LedgerInv, Lasting,
         NEW a \in Attempts, pc[a] \in InTransaction,
         NEW x \in Answer, Record(a, x), UNCHANGED req, Holds(x)',
         x.kind = "created" =>
           bookings[x.booking].status = "absent" /\ x = Told("created", x.booking),
         \A b \in BookingIds :
           bookings[b].status = "absent" /\ bookings'[b].status # "absent" =>
             x = Told("created", b)
  PROVE  LedgerInv'
<1> DEFINE e == Entry(req[a])
<1>1. req[a] \in Requests /\ e \in Entries
  BY SentARequest DEF InTransaction
<1>2. /\ ledger'[e] # None /\ ledger'[e].answer = x
      /\ \A f \in Entries \ {e} : ledger'[f] = ledger[f]
      /\ pc'[a] = "done" /\ \A o \in Attempts \ {a} : pc'[o] = pc[o]
      /\ \A o \in Attempts \ {a} : answer'[o] = answer[o]
  <2>1. ledger' = [ledger EXCEPT ![e] = [request |-> req[a], answer |-> x]]
    BY DEF Record
  <2>2. ledger'[e] = [request |-> req[a], answer |-> x]
    BY <1>1, <2>1 DEF TypeOK, Types
  <2>3. ledger'[e] # None /\ ledger'[e].answer = x
    BY <1>1, <2>2, StoredIsARow
  <2> QED
    BY <1>1, <2>1, <2>3 DEF Record, TypeOK, Types
<1>3. ledger[e] = None
  BY DEF KeyInv, KeyIsUnused
<1> HIDE DEF e
<1>4. \A f \in Entries : \A b \in BookingIds :
        CreatedUnder(f, b)' <=> (IF f = e THEN x = Told("created", b) ELSE CreatedUnder(f, b))
  BY <1>2 DEF CreatedUnder, Told
<1>5. \A f \in Entries : \A b \in BookingIds : CreatedUnder(f, b) => f # e
  BY <1>3 DEF CreatedUnder
<1>6. ASSUME NEW b \in BookingIds, b > Len(Seeded), bookings'[b].status # "absent"
      PROVE  \E f \in Entries : CreatedUnder(f, b)'
  <2>1. CASE bookings[b].status # "absent"
    BY <1>4, <1>5, <1>6, <2>1 DEF LedgerInv
  <2>2. CASE bookings[b].status = "absent"
    BY <1>1, <1>4, <1>6, <2>2
  <2> QED
    BY <2>1, <2>2
<1>7. ASSUME NEW b \in BookingIds, NEW f \in Entries, NEW g \in Entries,
             CreatedUnder(f, b)', CreatedUnder(g, b)'
      PROVE  f = g
  <2>1. ASSUME NEW h \in Entries, CreatedUnder(h, b), x = Told("created", b) PROVE FALSE
    <3>1. x.kind = "created" /\ x.booking = b
      BY <2>1 DEF Told
    <3>2. bookings[b].status = "absent"
      BY <3>1
    <3>3. Holds(ledger[h].answer) /\ ledger[h].answer.kind = "created"
          /\ ledger[h].answer.booking = b
      BY <2>1 DEF LedgerInv, CreatedUnder, Told
    <3> QED
      BY <3>2, <3>3 DEF Holds
  <2>2. CASE f = e \/ g = e
    BY <1>4, <1>7, <2>1, <2>2
  <2>3. CASE f # e /\ g # e
    BY <1>4, <1>7, <2>3 DEF LedgerInv
  <2> QED
    BY <2>2, <2>3
<1>8. ASSUME NEW f \in Entries, ledger'[f] # None PROVE Holds(ledger[f].answer)'
  <2>1. CASE f = e
    BY <1>2, <2>1 DEF Holds
  <2>2. CASE f # e
    <3>1. ledger'[f] = ledger[f] /\ Holds(ledger[f].answer)
      BY <1>2, <1>8, <2>2 DEF LedgerInv
    <3>2. Holds(ledger[f].answer) => 
            /\ ledger[f].answer.kind = "created" =>
                 /\ ledger[f].answer.booking \in BookingIds
                 /\ bookings'[ledger[f].answer.booking].status # "absent"
            /\ ledger[f].answer.kind \in {"cancelled", "already_cancelled"} =>
                 /\ ledger[f].answer.booking \in BookingIds
                 /\ bookings'[ledger[f].answer.booking].status = "cancelled"
      BY DEF Holds, Lasting
    <3> QED
      BY <3>1, <3>2 DEF Holds
  <2> QED
    BY <2>1, <2>2
<1>9. ASSUME NEW o \in Attempts PROVE SettlesTheTruth(o)'
  <2>1. CASE o = a
    BY <1>2, <2>1 DEF SettlesTheTruth
  <2>2. CASE o # a
    <3> SUFFICES ASSUME pc[o] = "settle"
                 PROVE  answer[o].kind # "created" /\ Holds(answer[o])'
      BY <1>2, <2>2 DEF SettlesTheTruth, Holds
    <3>1. answer[o].kind # "created" /\ Holds(answer[o])
      BY DEF LedgerInv, SettlesTheTruth
    <3>2. answer'[o] = answer[o]
      BY <1>2, <2>2
    <3> QED
      BY <3>1, <3>2 DEF Holds, Lasting
  <2> QED
    BY <2>1, <2>2
<1> QED
  BY <1>6, <1>7, <1>8, <1>9 DEF LedgerInv

\* A commit stores "created" for a new row and "cancelled" for a cancelled one.
LEMMA Commit_Ledger ==
  ASSUME TypeOK, RowInv, KeyInv, LedgerInv, NEW a \in Attempts, Commit(a)
  PROVE  LedgerInv'
<1> DEFINE b == Target(a)
           kind == CASE Creates(req[a]) -> "created"
                     [] Cancels(req[a]) -> "cancelled"
                     [] OTHER -> "updated"
<1>1. Record(a, Told(kind, b)) /\ pc[a] \in InTransaction /\ UNCHANGED req
  BY DEF Commit, InTransaction
<1>2. ~(Creates(req[a]) /\ Cancels(req[a]))
  BY DEF Creates, Cancels
<1>3. b \in BookingIds /\ \A i \in BookingIds \ {b} : bookings'[i] = bookings[i]
  BY CommitTarget
<1>4. /\ Creates(req[a]) => kind = "created"
      /\ Cancels(req[a]) => kind = "cancelled"
      /\ ~Creates(req[a]) /\ ~Cancels(req[a]) => kind = "updated"
  BY <1>2
<1>5. b \in 0..MaxBookings
  BY <1>3, NumbersAssumption DEF BookingIds
<1> DEFINE x == Told(kind, b)
<1>6. x \in Answer /\ x.kind = kind /\ x.booking = b
  <2>1. kind \in {"created", "cancelled", "updated"}
    BY <1>4
  <2> HIDE DEF kind, b
  <2>2. x \in Answer
    BY <1>5, <2>1, ToldIsAnswer
  <2> QED
    BY <2>2 DEF Told
<1>7. Lasting
  BY Commit_Lasts
<1>8. ASSUME NEW y, y = x PROVE Holds(y)'
  <2>1. kind = "created" => bookings'[b].status # "absent"
    BY <1>2, <1>4, Commit_Lasts
  <2>2. kind = "cancelled" => bookings'[b].status = "cancelled"
    BY <1>2, <1>4, Commit_Lasts
  <2>3. kind # "already_cancelled"
    BY <1>4
  <2>4. y.kind = kind /\ y.booking = b
    BY <1>6, <1>8
  <2> HIDE DEF kind, b
  <2> QED
    BY <1>3, <2>1, <2>2, <2>3, <2>4 DEF Holds
<1>9. x.kind = "created" => bookings[x.booking].status = "absent" /\ x = Told("created", x.booking)
  <2>1. kind = "created" => bookings[b].status = "absent"
    BY <1>2, <1>4, Commit_Lasts
  <2> HIDE DEF kind, b
  <2> QED
    BY <1>6, <2>1
<1>10. ASSUME NEW i \in BookingIds,
              bookings[i].status = "absent", bookings'[i].status # "absent"
       PROVE  x = Told("created", i)
  <2>1. i = b
    BY <1>3, <1>10
  <2>2. Creates(req[a])
    BY <1>10, <2>1, Commit_Lasts
  <2> QED
    BY <1>4, <2>1, <2>2
<1> HIDE DEF x
<1>11. Record(a, x)
  BY <1>1 DEF x
<1>12. PICK y \in Answer : y = x
  BY <1>6
<1> QED
  BY <1>1, <1>7, <1>8, <1>9, <1>10, <1>11, <1>12, Record_Ledger

\* Every step keeps the invariant of the ledger.
LEMMA NextLedger ==
  TypeOK /\ RowInv /\ KeyInv /\ LedgerInv /\ [Next]_vars => LedgerInv'
<1> SUFFICES ASSUME TypeOK, RowInv, KeyInv, LedgerInv, [Next]_vars PROVE LedgerInv'
  OBVIOUS
<1> DEFINE Quiet ==
      \A o \in Attempts : pc'[o] = "settle" =>
        \/ pc[o] = "settle" /\ answer'[o] = answer[o]
        \/ answer'[o].kind # "created" /\ Holds(answer'[o])
<1>0. ASSUME Quiet, UNCHANGED <<bookings, ledger>> PROVE LedgerInv'
  BY <1>0, QuietLedger
<1>1. ASSUME NEW a \in Attempts,
             \/ pc'[a] # "settle" /\ \A o \in Attempts \ {a} : answer'[o] = answer[o]
             \/ /\ \A o \in Attempts \ {a} : answer'[o] = answer[o]
                /\ answer'[a].kind # "created" /\ Holds(answer'[a]),
             \A o \in Attempts \ {a} : pc'[o] = pc[o]
      PROVE  Quiet
  BY <1>1
<1> HIDE DEF Quiet
<1>2. ASSUME NEW a \in Attempts,
             \/ Submit(a) \/ ClaimKey(a) \/ ReplayKey(a) \/ Recheck(a) \/ SelectTables(a)
             \/ WriteBooking(a) \/ MergeSession(a) \/ Rollback(a)
      PROVE  LedgerInv'
  <2>1. UNCHANGED <<bookings, ledger>>
    BY <1>2 DEF Submit, ClaimKey, ReplayKey, Recheck, SelectTables, WriteBooking, MergeSession,
      Rollback, dbVars
  <2>2. /\ pc'[a] # "settle" /\ \A o \in Attempts \ {a} : answer'[o] = answer[o]
        /\ \A o \in Attempts \ {a} : pc'[o] = pc[o]
    BY <1>2 DEF Submit, ClaimKey, ReplayKey, Recheck, SelectTables, WriteBooking, MergeSession,
      Rollback, GoTo, Fail, TypeOK, Types
  <2> QED
    BY <1>0, <1>1, <2>1, <2>2
<1>3. ASSUME NEW a \in Attempts, CheckCreate(a) PROVE LedgerInv'
  <2>1. /\ UNCHANGED <<bookings, ledger>>
        /\ \A o \in Attempts \ {a} : answer'[o] = answer[o] /\ pc'[o] = pc[o]
        /\ \/ answer'[a] = Told("already_confirmed", session[req[a].call])
           \/ pc'[a] # "settle"
    BY <1>3 DEF CheckCreate, GoTo, Fail, dbVars, TypeOK, Types
  <2>2. Told("already_confirmed", session[req[a].call]).kind = "already_confirmed"
    BY DEF Told
  <2> QED
    BY <1>0, <1>1, <2>1, <2>2 DEF Holds
<1>4. ASSUME NEW a \in Attempts, LockRow(a) PROVE LedgerInv'
  <2>1. /\ UNCHANGED <<bookings, ledger>>
        /\ \A o \in Attempts \ {a} : answer'[o] = answer[o] /\ pc'[o] = pc[o]
        /\ \/ /\ answer'[a] = Told("already_cancelled", req[a].booking)
              /\ bookings[req[a].booking].status = "cancelled"
           \/ pc'[a] # "settle"
    BY <1>4 DEF LockRow, GoTo, Fail, dbVars, TypeOK, Types
  <2>2. req[a].booking \in BookingIds
    BY <1>4, SentARequest, RequestFacts DEF LockRow, TypeOK, Ready
  <2>3. /\ Told("already_cancelled", req[a].booking).kind = "already_cancelled"
        /\ Told("already_cancelled", req[a].booking).booking = req[a].booking
    BY DEF Told
  <2> QED
    BY <1>0, <1>1, <2>1, <2>2, <2>3 DEF Holds
<1>5. ASSUME NEW a \in Attempts, LockTable(a) PROVE LedgerInv'
  <2>1. /\ UNCHANGED <<bookings, ledger>>
        /\ \A o \in Attempts \ {a} : answer'[o] = answer[o] /\ pc'[o] = pc[o]
        /\ \/ answer'[a] = Told("slot_unavailable", req[a].booking)
           \/ pc'[a] # "settle"
    BY <1>5 DEF LockTable, GoTo, Fail, dbVars, TypeOK, Types
  <2>2. Told("slot_unavailable", req[a].booking).kind = "slot_unavailable"
    BY DEF Told
  <2> QED
    BY <1>0, <1>1, <2>1, <2>2 DEF Holds
<1>6. ASSUME NEW a \in Attempts, Settle(a) PROVE LedgerInv'
  <2>1. /\ Record(a, answer[a]) /\ pc[a] = "settle" /\ pc[a] \in InTransaction
        /\ UNCHANGED <<bookings, req>>
    BY <1>6 DEF Settle, InTransaction
  <2>2. answer[a] \in Answer /\ answer[a].kind # "created" /\ Holds(answer[a])
    BY <2>1 DEF LedgerInv, SettlesTheTruth, TypeOK, Types
  <2> DEFINE x == answer[a]
  <2>3. Lasting
    BY <2>1 DEF Lasting
  <2>4. PICK y \in Answer : y = x
    BY <2>2
  <2>5. Holds(y)'
    BY <2>1, <2>2, <2>4 DEF Holds
  <2> QED
    BY <2>1, <2>2, <2>3, <2>4, <2>5, Record_Ledger
<1>7. ASSUME NEW c \in Calls, CallerTurn(c) PROVE LedgerInv'
  BY <1>0, <1>7 DEF CallerTurn, dbVars, Quiet
<1>8. CASE Restart
  BY <1>0, <1>8 DEF Restart, dbVars, Quiet
<1>9. CASE UNCHANGED vars
  BY <1>0, <1>9 DEF vars, Quiet
<1> QED
  BY <1>2, <1>3, <1>4, <1>5, <1>6, <1>7, <1>8, <1>9, Commit_Ledger DEF Next, Step

\* After every commit, failure and restart each booking the program made was
\* made under exactly one key, and a stored answer agrees with its booking.
THEOREM LedgerIsTrue == Spec => []LedgerMatchesBookings
<1>1. Init => LedgerInv
  <2> SUFFICES ASSUME Init PROVE LedgerInv
    OBVIOUS
  <2>1. \A b \in BookingIds : b > Len(Seeded) => bookings[b].status = "absent"
    BY SeededAssumption DEF Init, NoRow, BookingIds
  <2>2. \A e \in Entries : ledger[e] = None
    BY DEF Init
  <2> QED
    BY <2>1, <2>2 DEF Init, LedgerInv, CreatedUnder, SettlesTheTruth
<1>2. ASSUME TypeOK, LedgerInv PROVE LedgerMatchesBookings
  <2>1. ASSUME NEW b \in (Len(Seeded) + 1)..MaxBookings, bookings[b].status # "absent"
        PROVE  Cardinality({e \in Entries : ledger[e] # None
                              /\ ledger[e].answer = Told("created", b)}) = 1
    <3>1. b \in BookingIds /\ b > Len(Seeded)
      BY SeededAssumption, NumbersAssumption DEF BookingIds
    <3>2. PICK e \in Entries : CreatedUnder(e, b)
      BY <1>2, <2>1, <3>1 DEF LedgerInv
    <3>3. {f \in Entries : ledger[f] # None /\ ledger[f].answer = Told("created", b)} = {e}
      BY <1>2, <3>1, <3>2 DEF LedgerInv, CreatedUnder
    <3> QED
      BY <3>3, FS_Singleton
  <2> QED
    BY <1>2, <2>1 DEF LedgerMatchesBookings, LedgerInv, Holds
<1> QED
  BY <1>1, <1>2, NextLedger, NextKeys, NextRows, InitRows, InitKeys, TypeCorrect,
     PTL DEF Spec
=============================================================================
