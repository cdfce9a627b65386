------------------------------ MODULE Bookings ------------------------------
(***************************************************************************)
(* The write path of reservations (app/services/restaurant.py): creating,  *)
(* changing and cancelling a booking, as concurrent database transactions. *)
(*                                                                         *)
(* An ATTEMPT is one execution of a write operation: one HTTP request of   *)
(* the voice tool API, or one tool call of the local agent.  A retry is    *)
(* another attempt that carries the same request.  Each attempt runs its   *)
(* statements one by one inside a single READ COMMITTED transaction, and   *)
(* the statements of different attempts interleave.  A row lock is not a   *)
(* variable: it is held by the attempt whose position (pc) is between the  *)
(* statement that takes the lock and the end of its transaction.           *)
(*                                                                         *)
(* The confirmation gate is abstracted to what it lets through: approved   *)
(* says, per call and kind of action, which details the gate would accept  *)
(* now.  Orders that a booking pulls in are outside this module; an order  *)
(* check that fails is one of the causes of Rollback.                      *)
(***************************************************************************)
EXTENDS Integers, FiniteSets, Sequences

CONSTANTS
  Attempts,      \* executions of write operations
  Calls,         \* call ids (session ids)
  Keys,          \* idempotency keys
  Tables,        \* tables, numbered in the order the query ranks them
  Slots,         \* start times of bookings
  Duration,      \* RESERVATION_DURATION_MINUTES, in the unit of Slots
  Turnover,      \* the gap required after a booking that is already there
  Requests,      \* the requests that callers may make
  Seeded,        \* rows of the bookings table when the program starts
  MaxBookings,   \* bound on booking ids
  Same,          \* "at the start the booking has": the party size changes
  NoSlot,        \* "the request does not move the booking"
  None           \* SQL NULL / no record

Actions == {"create_booking", "update_confirmed_booking", "cancel_booking"}

BookingIds == 1..MaxBookings

(***************************************************************************)
(* A request.  wants is the set of tables that pass the filters of the     *)
(* query that do not depend on other bookings: capacity, location, the     *)
(* table number that the caller chose, and closed areas.  A change without *)
(* a slot of its own keeps the start of the booking; if it names a room    *)
(* (wants is not empty) it moves when the present table is not there.      *)
(***************************************************************************)
Request ==
  [action : Actions, call : Calls, key : Keys, booking : 0..MaxBookings,
   slot : Slots \cup {Same, NoSlot}, wants : SUBSET Tables]

\* What the gate hashes.  The readback of a new booking names neither the
\* table nor the room.
Payload(r) ==
  [booking |-> r.booking, slot |-> r.slot,
   wants |-> IF r.action = "create_booking" THEN {} ELSE r.wants]

\* What the gate of a call may be asked to accept.
PayloadsOf(c, x) ==
  {Payload(r) : r \in {q \in Requests : q.call = c /\ q.action = x}}

Creates(r) == r.action = "create_booking"
Cancels(r) == r.action = "cancel_booking"

SeededRow == [status : {"confirmed", "cancelled", "completed"},
              table : Tables, slot : Slots]

Overlap(s, u) == s < u + Duration /\ u < s + Duration

ASSUME NumbersAssumption ==
  /\ Tables \subseteq Nat /\ Slots \subseteq Int
  /\ Duration \in Nat \ {0} /\ Turnover \in Nat
  /\ MaxBookings \in Nat /\ None \notin Tables
  /\ NoSlot \notin Slots /\ Same \notin Slots /\ Same # NoSlot

ASSUME RequestsAssumption ==
  /\ Requests \subseteq Request
  /\ \A r \in Requests : IF Creates(r) THEN r.booking = 0 /\ r.slot \in Slots
                                       ELSE r.booking \in BookingIds
  /\ \A r \in Requests : Cancels(r) => r.slot = NoSlot /\ r.wants = {}

ASSUME SeededAssumption ==
  /\ Seeded \in Seq(SeededRow) /\ Len(Seeded) <= MaxBookings
  /\ \A i, j \in 1..Len(Seeded) :
       i # j /\ Seeded[i].table = Seeded[j].table
             /\ Seeded[i].status = "confirmed" /\ Seeded[j].status = "confirmed"
         => ~Overlap(Seeded[i].slot, Seeded[j].slot)

Entries == Actions \X Keys
Entry(r) == <<r.action, r.key>>

\* What a caller is told.  The last four kinds are errors; only the others
\* are stored in the ledger.
Answer ==
  [kind : {"created", "already_confirmed", "updated", "slot_unavailable",
           "cancelled", "already_cancelled",
           "none", "refused", "conflict", "failed"},
   booking : 0..MaxBookings]

Told(kind, b) == [kind |-> kind, booking |-> b]

\* A missing row of the ledger is not a row.
ASSUME LedgerAssumption == None \notin [request : Requests, answer : Answer]

Succeeded(x) == x.kind \notin {"none", "refused", "conflict", "failed"}

NoRow == [status |-> "absent", table |-> None, slot |-> NoSlot, missed |-> {}]

VARIABLES
  bookings,   \* committed rows of the bookings table
  nextId,     \* the id sequence, which a rollback does not wind back
  ledger,     \* committed rows of voice_action_idempotency
  session,    \* call_sessions.state: the booking the call has made, or 0
  approved,   \* per call and action: the payload the gate accepts, or None
  pc,         \* the statement an attempt executes next
  req,        \* its request
  slot,       \* the start it looks for a table at, NoSlot if it places nothing
  free,       \* tables its SELECT saw free when the statement began
  missed,     \* bookings placed since then that the SELECT did not see
  table,      \* the table row it has locked
  newId,      \* the id of the row it has inserted
  answer      \* its answer

vars == <<bookings, nextId, ledger, session, approved,
          pc, req, slot, free, missed, table, newId, answer>>

dbVars  == <<bookings, nextId, ledger, session>>
rowVars == <<slot, free, missed, table, newId>>

InTransaction ==
  {"gate", "row", "select", "lock", "write", "merge", "commit", "settle"}

\* Mutant: the INSERT forgets the table.
RowWithoutTable(status, t, s, m) ==
  [status |-> status, table |-> None, slot |-> s, missed |-> m]

\* missed of a row records which placements its table query overlooked.
Row(status, t, s, m) ==
  [status |-> status, table |-> t, slot |-> s, missed |-> m]

Init ==
  /\ bookings = [b \in BookingIds |->
                   IF b <= Len(Seeded)
                   THEN Row(Seeded[b].status, Seeded[b].table, Seeded[b].slot, {})
                   ELSE NoRow]
  /\ nextId = Len(Seeded) + 1
  /\ ledger = [e \in Entries |-> None]
  /\ session = [c \in Calls |-> 0]
  /\ approved = [c \in Calls |-> [x \in Actions |-> None]]
  /\ pc = [a \in Attempts |-> "idle"]
  /\ req = [a \in Attempts |-> None]
  /\ slot = [a \in Attempts |-> NoSlot]
  /\ free = [a \in Attempts |-> {}]
  /\ missed = [a \in Attempts |-> {}]
  /\ table = [a \in Attempts |-> None]
  /\ newId = [a \in Attempts |-> 0]
  /\ answer = [a \in Attempts |-> Told("none", 0)]

-----------------------------------------------------------------------------
(* Locks, as PostgreSQL grants them *)

\* Mutant: no transaction waits for another.
NotHeld(x) == FALSE

\* An uncommitted insert of this ledger entry makes another insert wait.
KeyHeld(e) ==
  \E a \in Attempts : pc[a] \in InTransaction /\ Entry(req[a]) = e

RowLocked(b) ==
  \E a \in Attempts :
    /\ pc[a] \in {"select", "lock", "write", "merge", "commit", "settle"}
    /\ ~Creates(req[a]) /\ req[a].booking = b

TableLocked(t) ==
  \E a \in Attempts : pc[a] \in {"write", "merge", "commit"} /\ table[a] = t

SessionLocked(c) ==
  \E a \in Attempts : pc[a] = "commit" /\ req[a].call = c

-----------------------------------------------------------------------------
(* The gate *)

GateOpen(r) == approved[r.call][r.action] = Payload(r)

ClearGate(r) == approved' = [approved EXCEPT ![r.call][r.action] = None]

\* A readback, a caller's utterance or the passing of time: what the gate
\* accepts for this call changes.
CallerTurn(c) ==
  /\ \E x \in Actions : \E p \in PayloadsOf(c, x) \cup {None} :
       approved' = [approved EXCEPT ![c][x] = p]
  /\ UNCHANGED <<dbVars, rowVars, pc, req, answer>>

-----------------------------------------------------------------------------
(* The steps of an attempt *)

\* Mutant: a failed attempt leaves its transaction open.
FailOpen(a, kind) ==
  /\ UNCHANGED pc
  /\ answer' = [answer EXCEPT ![a] = Told(kind, 0)]

\* Ends an attempt whose transaction, if any, does not commit.
Fail(a, kind) ==
  /\ pc' = [pc EXCEPT ![a] = "done"]
  /\ answer' = [answer EXCEPT ![a] = Told(kind, 0)]

GoTo(a, label) == pc' = [pc EXCEPT ![a] = label] /\ UNCHANGED answer

\* A new booking meets the gate only inside its transaction; a change or a
\* cancellation also before it.
Submit(a) ==
  /\ pc[a] = "idle"
  /\ \E r \in Requests :
       /\ req' = [req EXCEPT ![a] = r]
       /\ IF Creates(r) \/ GateOpen(r) THEN GoTo(a, "claim")
                                       ELSE Fail(a, "refused")
  /\ UNCHANGED <<dbVars, rowVars, approved>>

\* INSERT ... ON CONFLICT DO NOTHING took effect.
ClaimKey(a) ==
  /\ pc[a] = "claim"
  /\ ledger[Entry(req[a])] = None
  /\ ~KeyHeld(Entry(req[a]))
  /\ GoTo(a, "gate")
  /\ UNCHANGED <<dbVars, rowVars, approved, req>>

\* The key was used: answer as before, or refuse other inputs.
ReplayKey(a) ==
  LET used == ledger[Entry(req[a])] IN
  /\ pc[a] = "claim"
  /\ used # None
  /\ pc' = [pc EXCEPT ![a] = "done"]
  /\ answer' = [answer EXCEPT ![a] = IF used.request = req[a] THEN used.answer
                                                              ELSE Told("conflict", 0)]
  /\ UNCHANGED <<dbVars, rowVars, approved, req>>

\* What the call has booked already, as create_booking reads it.
HasBooked(c) == session[c] # 0 /\ bookings[session[c]].status = "confirmed"

CheckCreate(a) ==
  LET c == req[a].call IN
  /\ pc[a] = "gate" /\ Creates(req[a])
  /\ \/ /\ HasBooked(c)
        /\ pc' = [pc EXCEPT ![a] = "settle"]
        /\ answer' = [answer EXCEPT ![a] = Told("already_confirmed", session[c])]
        /\ UNCHANGED slot
     \/ /\ ~HasBooked(c) /\ GateOpen(req[a])
        /\ slot' = [slot EXCEPT ![a] = req[a].slot]
        /\ GoTo(a, "select")
     \/ /\ ~HasBooked(c) /\ ~GateOpen(req[a])
        /\ Fail(a, "refused")
        /\ UNCHANGED slot
  /\ UNCHANGED <<dbVars, approved, req, free, missed, table, newId>>

Recheck(a) ==
  /\ pc[a] = "gate" /\ ~Creates(req[a])
  /\ IF GateOpen(req[a]) THEN GoTo(a, "row") ELSE Fail(a, "refused")
  /\ UNCHANGED <<dbVars, rowVars, approved, req>>

\* Where a change puts the booking, given its row.
NewSlot(r, row) ==
  CASE r.slot \in Slots -> r.slot
    [] r.slot = Same \/ (r.wants # {} /\ row.table \notin r.wants) -> row.slot
    [] OTHER -> NoSlot

\* SELECT ... FOR UPDATE of the booking: waits for the lock, then reads the
\* latest committed row.
LockRow(a) ==
  LET r == req[a]
      row == bookings[r.booking]
      status == row.status IN
  /\ pc[a] = "row"
  /\ ~RowLocked(r.booking)
  /\ \/ /\ status = "confirmed"
        /\ slot' = [slot EXCEPT ![a] = NewSlot(r, row)]
        /\ GoTo(a, IF NewSlot(r, row) # NoSlot THEN "select" ELSE "write")
        /\ UNCHANGED approved
     \/ /\ status = "cancelled" /\ Cancels(r)
        /\ pc' = [pc EXCEPT ![a] = "settle"]
        /\ answer' = [answer EXCEPT ![a] = Told("already_cancelled", r.booking)]
        /\ ClearGate(r)
        /\ UNCHANGED slot
     \/ /\ status # "confirmed" /\ ~(status = "cancelled" /\ Cancels(r))
        /\ Fail(a, "failed")
        /\ UNCHANGED <<approved, slot>>
  /\ UNCHANGED <<dbVars, req, free, missed, table, newId>>

\* The window test of the table query: the new start d against a booking
\* that starts at s.
Conflicts(s, d) == s < d + Duration /\ s + Duration > d - Turnover

FreeAt(t, a) ==
  \A b \in BookingIds \ {req[a].booking} :
    bookings[b].status = "confirmed" /\ bookings[b].table = t
      => ~Conflicts(bookings[b].slot, slot[a])

\* The table query begins: its NOT EXISTS sees the rows committed by now.
SelectTables(a) ==
  /\ pc[a] = "select"
  /\ free' = [free EXCEPT ![a] = {t \in req[a].wants : FreeAt(t, a)}]
  /\ missed' = [missed EXCEPT ![a] = {}]
  /\ GoTo(a, "lock")
  /\ UNCHANGED <<dbVars, approved, req, slot, table, newId>>

\* ... FOR UPDATE SKIP LOCKED LIMIT 1: the best of the tables seen free whose
\* row nobody has locked now.
Unlocked(S) == {t \in S : ~TableLocked(t)}

LockTable(a) ==
  /\ pc[a] = "lock"
  /\ \/ \E t \in Unlocked(free[a]) :
          /\ \A u \in Unlocked(free[a]) : t <= u
          /\ table' = [table EXCEPT ![a] = t]
          /\ GoTo(a, "write")
     \/ /\ Unlocked(free[a]) = {}
        /\ UNCHANGED table
        /\ IF Creates(req[a])
           THEN Fail(a, "failed")
           ELSE /\ pc' = [pc EXCEPT ![a] = "settle"]
                /\ answer' = [answer EXCEPT ![a] =
                                Told("slot_unavailable", req[a].booking)]
  /\ UNCHANGED <<dbVars, approved, req, slot, free, missed, newId>>

\* INSERT or UPDATE of the booking row, still invisible to others.  A new
\* booking uses up its confirmation here, before the transaction commits.
WriteBooking(a) ==
  /\ pc[a] = "write"
  /\ IF Creates(req[a])
     THEN /\ nextId <= MaxBookings
          /\ newId' = [newId EXCEPT ![a] = nextId]
          /\ nextId' = nextId + 1
          /\ ClearGate(req[a])
     ELSE UNCHANGED <<newId, nextId, approved>>
  /\ GoTo(a, "merge")
  /\ UNCHANGED <<bookings, ledger, session, req, slot, free, missed, table>>

\* The upsert of call_sessions waits for the session row.
MergeSession(a) ==
  /\ pc[a] = "merge"
  /\ ~SessionLocked(req[a].call)
  /\ IF Creates(req[a]) THEN UNCHANGED approved ELSE ClearGate(req[a])
  /\ GoTo(a, "commit")
  /\ UNCHANGED <<dbVars, rowVars, req>>

Places(a) == slot[a] # NoSlot

Target(a) == IF Creates(req[a]) THEN newId[a] ELSE req[a].booking

Record(a, x) ==
  /\ pc' = [pc EXCEPT ![a] = "done"]
  /\ answer' = [answer EXCEPT ![a] = x]
  /\ ledger' = [ledger EXCEPT ![Entry(req[a])] =
                  [request |-> req[a], answer |-> x]]

\* COMMIT publishes the booking, the session and the completed ledger entry.
Commit(a) ==
  LET r == req[a]
      b == Target(a) IN
  /\ pc[a] = "commit"
  /\ bookings' = [bookings EXCEPT ![b] =
       CASE Places(a)  -> Row("confirmed", table[a], slot[a], missed[a])
         [] Cancels(r) -> [@ EXCEPT !.status = "cancelled"]
         [] OTHER      -> @]
  /\ missed' = [o \in Attempts |->
       IF Places(a) /\ pc[o] = "lock" THEN missed[o] \cup {b} ELSE missed[o]]
  /\ session' = [session EXCEPT ![r.call] = b]
  /\ Record(a, Told(CASE Creates(r) -> "created"
                      [] Cancels(r) -> "cancelled"
                      [] OTHER      -> "updated", b))
  /\ UNCHANGED <<nextId, approved, req, slot, free, table, newId>>

\* COMMIT of a transaction that has changed nothing but the ledger.
Settle(a) ==
  /\ pc[a] = "settle"
  /\ Record(a, answer[a])
  /\ UNCHANGED <<bookings, nextId, session, approved, req, rowVars>>

\* A failing statement, a failing check on the data, a cancelled task.
Rollback(a) ==
  /\ pc[a] \in InTransaction
  /\ Fail(a, "failed")
  /\ UNCHANGED <<dbVars, rowVars, approved, req>>

\* The process dies: open transactions roll back, the gate is forgotten.
Restart ==
  /\ \E a \in Attempts : pc[a] \notin {"idle", "done"}
  /\ pc' = [a \in Attempts |-> IF pc[a] = "idle" THEN "idle" ELSE "done"]
  /\ answer' = [a \in Attempts |->
       IF pc[a] \in {"idle", "done"} THEN answer[a] ELSE Told("failed", 0)]
  /\ approved' = [c \in Calls |-> [x \in Actions |-> None]]
  /\ UNCHANGED <<dbVars, rowVars, req>>

Step(a) ==
  \/ ClaimKey(a) \/ ReplayKey(a) \/ CheckCreate(a) \/ Recheck(a) \/ LockRow(a)
  \/ SelectTables(a) \/ LockTable(a) \/ WriteBooking(a) \/ MergeSession(a)
  \/ Commit(a) \/ Settle(a)

Next ==
  \/ \E a \in Attempts : Submit(a) \/ Step(a) \/ Rollback(a)
  \/ \E c \in Calls : CallerTurn(c)
  \/ Restart

Spec == Init /\ [][Next]_vars

\* The event loop runs every ready coroutine, and PostgreSQL grants a lock
\* that is free to a statement that waits for it.
Fairness == \A a \in Attempts : WF_vars(Step(a))

-----------------------------------------------------------------------------
(* Properties *)

Types ==
  /\ bookings \in [BookingIds ->
       [status : {"absent", "confirmed", "cancelled", "completed"},
        table : Tables \cup {None}, slot : Slots \cup {NoSlot},
        missed : SUBSET BookingIds]]
  /\ nextId \in 1..(MaxBookings + 1)
  /\ ledger \in [Entries -> [request : Requests, answer : Answer] \cup {None}]
  /\ session \in [Calls -> 0..MaxBookings]
  /\ approved \in [Calls -> [Actions -> {Payload(r) : r \in Requests} \cup {None}]]
  /\ pc \in [Attempts -> InTransaction \cup {"idle", "claim", "done"}]
  /\ req \in [Attempts -> Requests \cup {None}]
  /\ slot \in [Attempts -> Slots \cup {NoSlot}]
  /\ free \in [Attempts -> SUBSET Tables]
  /\ missed \in [Attempts -> SUBSET BookingIds]
  /\ table \in [Attempts -> Tables \cup {None}]
  /\ newId \in [Attempts -> 0..MaxBookings]
  /\ answer \in [Attempts -> Answer]

IsPlaced(row) ==
  row.status = "confirmed" => row.table \in Tables /\ row.slot \in Slots

\* What an attempt carries to its next statement.
Ready(a) ==
  /\ pc[a] # "idle" => req[a] \in Requests
  /\ pc[a] = "row" => ~Creates(req[a])
  /\ Places(a) => pc[a] # "idle" /\ ~Cancels(req[a])
  /\ pc[a] \in {"select", "lock"} => Places(a)
  /\ pc[a] \in {"write", "merge", "commit"} =>
       /\ Creates(req[a]) => Places(a)
       /\ Places(a) => table[a] \in Tables
  /\ pc[a] \in {"merge", "commit"} /\ Creates(req[a]) => newId[a] \in BookingIds

\* Every variable holds a value of its kind, a confirmed booking has a table
\* and a start, and an attempt past its table query has what it will write.
TypeOK ==
  /\ Types
  /\ \A b \in BookingIds : IsPlaced(bookings[b])
  /\ \A a \in Attempts : Ready(a)

\* Two confirmed bookings hold the same table at the same time only if the
\* table query of one of them began before the other committed and locked the
\* table row after it: FOR UPDATE SKIP LOCKED closes every other interleaving
\* of create_booking, update_confirmed_booking and cancel_booking.
NoUnseenOverlap ==
  \A b, o \in BookingIds :
    /\ b # o
    /\ bookings[b].status = "confirmed" /\ bookings[o].status = "confirmed"
    /\ bookings[b].table = bookings[o].table
    /\ Overlap(bookings[b].slot, bookings[o].slot)
    => o \in bookings[b].missed \/ b \in bookings[o].missed

\* "Booking creation locks the selected table and prevents a double booking"
\* (README.md:47).
NoDoubleBooking ==
  \A b, o \in BookingIds :
    /\ b # o
    /\ bookings[b].status = "confirmed" /\ bookings[o].status = "confirmed"
    /\ bookings[b].table = bookings[o].table
    => ~Overlap(bookings[b].slot, bookings[o].slot)

\* The ledger and the bookings agree after every commit, crash and retry: each
\* booking made by the program was made under exactly one idempotency key, and
\* a stored "cancelled" names a booking that is cancelled.
LedgerMatchesBookings ==
  /\ \A b \in (Len(Seeded) + 1)..MaxBookings :
       bookings[b].status # "absent" =>
         Cardinality({e \in Entries : ledger[e] # None
                        /\ ledger[e].answer = Told("created", b)}) = 1
  /\ \A e \in Entries : ledger[e] # None =>
       LET x == ledger[e].answer IN
       /\ x.kind = "created" => bookings[x.booking].status # "absent"
       /\ x.kind \in {"cancelled", "already_cancelled"} =>
            bookings[x.booking].status = "cancelled"

\* Retries under one key, however they interleave with each other and with
\* failures, get one answer, and never the answer to other inputs.
SameKeySameAnswer ==
  \A a, o \in Attempts :
    /\ pc[a] = "done" /\ pc[o] = "done"
    /\ Succeeded(answer[a]) /\ Succeeded(answer[o])
    /\ Entry(req[a]) = Entry(req[o])
    => answer[a] = answer[o] /\ req[a] = req[o]

\* A cancelled booking stays as it is: no change that was under way when the
\* cancellation committed brings it back.
CancelledIsFinal ==
  [][\A b \in BookingIds :
       bookings[b].status = "cancelled" => bookings'[b] = bookings[b]]_vars

\* Waiting for keys, booking rows, tables and session rows never ends in a
\* deadlock: every attempt gets an answer.
EveryAttemptIsAnswered ==
  \A a \in Attempts : pc[a] # "idle" ~> pc[a] = "done"
=============================================================================
