------------------------------ MODULE Preorder ------------------------------
(***************************************************************************)
(* The time an order is for and the times its dishes are served            *)
(* (app/services/restaurant.py): adding a dish, choosing pickup, delivery  *)
(* or the reservation, confirming the order, and the reservation being     *)
(* made, moved or cancelled meanwhile.                                     *)
(*                                                                         *)
(* A request is one READ COMMITTED transaction.  What it reads without a   *)
(* lock may be stale when it writes; a row lock is held by the request     *)
(* whose position is "commit".  Prices, contacts, versions and the gate    *)
(* are in Orders, tables in Bookings; here a move always finds a table.    *)
(***************************************************************************)
EXTENDS Schedule

CONSTANTS
  Handlers,      \* requests that may be running at the same time
  Dishes,        \* dish -> the service periods it is served in
  Delay,         \* kind -> _fulfillment_delay_minutes, in ticks
  Times,         \* the times reservations are asked for
  Start, MaxNow, \* the first and the last instant of the clock
  None           \* no order, nothing stored

Kinds == {"dine_in", "pickup", "delivery"}

\* The rows of a call's order and of its reservation
OrderRow ==
  [status : {"pending", "confirmed"}, kind : Kinds \cup {None}, booked : BOOLEAN,
   at : Nat \cup {None}, dishes : SUBSET DOMAIN Dishes]
BookingRow == [status : {"confirmed", "cancelled"}, at : Nat]

PreorderAssumption ==
  /\ Times \cup {Start, MaxNow} \subseteq Instants
  /\ DOMAIN Delay = {"pickup", "delivery"}
  /\ \A k \in DOMAIN Delay : Delay[k] \in Nat
  /\ None \notin Nat \cup Kinds \cup OrderRow \cup BookingRow

VARIABLES
  now,       \* _restaurant_now()
  booking,   \* [status, at], or None
  order,     \* the order of the call: [status, kind, booked, at, dishes], or None
  handler,   \* per request: [pc, op, ...] and what it has read
  skew       \* a read that a commit rests on was changed by another commit

vars == <<now, booking, order, handler, skew>>

Idle == [pc |-> "idle", op |-> None, dish |-> None, at |-> None, kind |-> None, read |-> None]

Init ==
  /\ now = Start /\ booking = None /\ order = None
  /\ handler = [h \in Handlers |-> Idle]
  /\ skew = FALSE

At(h, label, op) == handler[h].pc = label /\ handler[h].op = op
Become(h, x) == handler' = [handler EXCEPT ![h] = x]
Finish(h) == Become(h, Idle)

\* The row lock of the order, and that of the reservation
OrderOps == {"fulfil", "confirm"}
BookingOps == {"move", "cancel"}

\* Mutant: orders are read without FOR UPDATE.
LockedByMoves(ops) ==
  \E h \in Handlers : handler[h].pc = "commit" /\ handler[h].op \in ops \cap BookingOps

Locked(ops) == \E h \in Handlers : handler[h].pc = "commit" /\ handler[h].op \in ops

KindOf(o) == IF o.kind # None THEN o.kind ELSE IF o.booked THEN "dine_in" ELSE "pickup"
Booked == booking # None /\ booking.status = "confirmed"

\* _ensure_order_item_available_at; stock and effective dates are left out.
Served(d, t) == MenuServiceStatus(Dishes[d], t)

AllServed(dishes, t) == \A d \in dishes : Served(d, t)

\* _fulfillment_at
FulfillmentAt(kind, stored) == IF stored # None THEN stored ELSE now + Delay[kind]

\* What the other requests have read so far, and this commit changes.
Read(h) == [order |-> order, booking |-> booking]
Skewed(h) == skew' = (skew \/ handler[h].read # Read(h))

-----------------------------------------------------------------------------
(* add_order_item: the time comes from rows that are not locked yet. *)

ServiceTime(session) ==
  IF (IF order = None THEN session ELSE KindOf(order) = "dine_in")
  THEN IF Booked THEN booking.at ELSE now
  ELSE FulfillmentAt(IF order = None THEN "pickup" ELSE KindOf(order),
                     IF order = None THEN None ELSE order.at)

AddRead(h, d) ==
  LET dine == IF order = None THEN booking # None ELSE KindOf(order) = "dine_in"
      at == ServiceTime(booking # None) IN
  /\ handler[h].pc = "idle"
  /\ ~dine => at > now
  /\ Served(d, at)
  /\ Become(h, [Idle EXCEPT !.pc = "add", !.op = "add", !.dish = d, !.at = at,
                            !.kind = IF dine THEN "dine_in" ELSE None, !.read = Read(h)])
  /\ UNCHANGED <<now, booking, order, skew>>

\* The order is locked, or created; a confirmed pickup or delivery is left to
\* the staff.
AddWrite(h) ==
  LET x == handler[h] IN
  /\ At(h, "add", "add") /\ ~Locked(OrderOps)
  /\ \/ /\ order = None
        /\ order' = [status |-> "pending", kind |-> x.kind, booked |-> x.kind = "dine_in",
                     at |-> IF x.kind = None THEN x.at ELSE None, dishes |-> {x.dish}]
        /\ Skewed(h)
     \/ /\ order # None
        /\ ~(order.status = "confirmed" /\ KindOf(order) # "dine_in")
        /\ order' = [order EXCEPT !.dishes = @ \cup {x.dish},
                                  !.booked = @ \/ x.kind = "dine_in",
                                  !.at = IF x.kind = None THEN x.at ELSE @]
        /\ Skewed(h)
     \/ /\ order # None /\ order.status = "confirmed" /\ KindOf(order) # "dine_in"
        /\ UNCHANGED <<order, skew>>
  /\ Finish(h)
  /\ UNCHANGED <<now, booking>>

\* remove_order_item
Remove(h, d) ==
  /\ handler[h].pc = "idle" /\ ~Locked(OrderOps)
  /\ order # None /\ ~(order.status = "confirmed" /\ KindOf(order) # "dine_in")
  /\ order' = [order EXCEPT !.dishes = @ \ {d}]
  /\ UNCHANGED <<now, booking, handler, skew>>

-----------------------------------------------------------------------------
(* set_order_fulfillment, under the lock of the order *)

FulfilRead(h, k) ==
  /\ handler[h].pc = "idle" /\ ~Locked(OrderOps)
  /\ order # None /\ order.status = "pending"
  /\ k = "dine_in" => Booked
  /\ LET at == IF k = "dine_in" THEN booking.at ELSE now + Delay[k] IN
     /\ AllServed(order.dishes, at)
     /\ Become(h, [Idle EXCEPT !.pc = "commit", !.op = "fulfil", !.kind = k,
                               !.at = at, !.read = Read(h)])
  /\ UNCHANGED <<now, booking, order, skew>>

FulfilWrite(h) ==
  LET x == handler[h] IN
  /\ At(h, "commit", "fulfil")
  /\ order' = [order EXCEPT !.kind = x.kind, !.booked = x.kind = "dine_in",
                            !.at = IF x.kind = "dine_in" THEN None ELSE x.at]
  /\ Skewed(h)
  /\ Finish(h)
  /\ UNCHANGED <<now, booking>>

-----------------------------------------------------------------------------
(* confirm_order *)

OpenFor(kind, t) == ScheduleStatus(kind, t, 0, TRUE)

ConfirmRead(h) ==
  LET kind == KindOf(order)
      at == IF kind = "dine_in" THEN booking.at ELSE FulfillmentAt(kind, order.at) IN
  /\ handler[h].pc = "idle" /\ ~Locked(OrderOps)
  /\ order # None /\ order.status = "pending" /\ order.dishes # {}
  /\ IF kind = "dine_in" THEN Booked ELSE at > now /\ OpenFor(kind, at)
  /\ AllServed(order.dishes, at)
  /\ Become(h, [Idle EXCEPT !.pc = "commit", !.op = "confirm", !.at = at, !.read = Read(h)])
  /\ UNCHANGED <<now, booking, order, skew>>

\* fulfillment_at is not stored by the confirmation.
ConfirmWrite(h) ==
  /\ At(h, "commit", "confirm")
  /\ order' = [order EXCEPT !.status = "confirmed"]
  /\ Skewed(h)
  /\ Finish(h)
  /\ UNCHANGED <<now, booking>>

-----------------------------------------------------------------------------
(* The reservation *)

\* create_booking takes a pending order along whose kind is still open, under
\* its lock.
Book(h, t) ==
  LET along == order # None /\ order.status = "pending" /\ ~order.booked
                 /\ order.kind \in {None, "dine_in"} IN
  /\ handler[h].pc = "idle" /\ ~Locked(OrderOps)
  /\ booking = None /\ t >= now /\ ReservationOpen(t)
  /\ along => AllServed(order.dishes, t)
  /\ booking' = [status |-> "confirmed", at |-> t]
  /\ order' = IF along THEN [order EXCEPT !.kind = "dine_in", !.booked = TRUE, !.at = None]
              ELSE order
  /\ UNCHANGED <<now, handler, skew>>

\* Mutant: the dishes of the order are not looked at.
DishesOfNothing == {}

\* The dishes that update_confirmed_booking looks at: those of an order that
\* is confirmed by now.
DishesToMove ==
  IF order # None /\ order.booked /\ order.status = "confirmed" /\ order.kind = "dine_in"
  THEN order.dishes ELSE {}

\* update_confirmed_booking, under the lock of the reservation
MoveRead(h, t) ==
  /\ handler[h].pc = "idle" /\ ~Locked(BookingOps)
  /\ Booked /\ t # booking.at /\ t >= now /\ ReservationOpen(t)
  /\ AllServed(DishesToMove, t)
  /\ Become(h, [Idle EXCEPT !.pc = "commit", !.op = "move", !.at = t, !.read = Read(h)])
  /\ UNCHANGED <<now, booking, order, skew>>

MoveWrite(h) ==
  /\ At(h, "commit", "move")
  /\ booking' = [booking EXCEPT !.at = handler[h].at]
  /\ Skewed(h)
  /\ Finish(h)
  /\ UNCHANGED <<now, order>>

\* cancel_booking; the order is left as it is.
Cancel(h) ==
  /\ handler[h].pc = "idle" /\ ~Locked(BookingOps)
  /\ Booked
  /\ booking' = [booking EXCEPT !.status = "cancelled"]
  /\ UNCHANGED <<now, order, handler, skew>>

Rollback(h) ==
  /\ handler[h].pc \in {"add", "commit"}
  /\ Finish(h)
  /\ UNCHANGED <<now, booking, order, skew>>

Tick ==
  /\ now < MaxNow
  /\ now' = now + 1
  /\ UNCHANGED <<booking, order, handler, skew>>

Next ==
  \/ Tick
  \/ \E h \in Handlers :
       \/ \E d \in DOMAIN Dishes : AddRead(h, d) \/ Remove(h, d)
       \/ \E k \in Kinds : FulfilRead(h, k)
       \/ \E t \in Times : Book(h, t) \/ MoveRead(h, t)
       \/ AddWrite(h) \/ FulfilWrite(h) \/ ConfirmRead(h) \/ ConfirmWrite(h)
       \/ MoveWrite(h) \/ Cancel(h) \/ Rollback(h)

Spec == Init /\ [][Next]_vars

-----------------------------------------------------------------------------

Confirmed(kind) == order # None /\ order.status = "confirmed" /\ KindOf(order) = kind

\* A dish is on the menu at t, as the fixture's periods of that day declare.
OnTheMenu(d, t) ==
  Dishes[d] = {} \/ \E p \in Regular[DayOf(t)].periods :
                      p.id \in Dishes[d] /\ p.open <= TimeOf(t) /\ TimeOf(t) < p.close

(* What can be confirmed or was confirmed can be served, except where a       *)
(* commit rests on a row that another request had changed since it was read:  *)
(* the dishes of a confirmed order for a reserved table are on the menu at    *)
(* the time of the reservation, wherever it was moved (a test is named        *)
(* test_booking_time_change_rejects_invalid_confirmed_dine_in_order_period),  *)
(* and those of a pending pickup or delivery at the time it is for, whatever  *)
(* was added and whichever kind was chosen since (2150-2290, 2508-2533).      *)
ServedUnlessSkewed ==
  ~skew /\ order # None =>
    /\ Confirmed("dine_in") /\ Booked => \A d \in order.dishes : OnTheMenu(d, booking.at)
    /\ order.status = "pending" /\ order.at # None /\ KindOf(order) # "dine_in"
         => \A d \in order.dishes : OnTheMenu(d, order.at)

(* A pickup or delivery that becomes confirmed is one the kitchen can make:   *)
(* at the time the row has, its dishes are on the menu and its kind is still  *)
(* taken.  That was judged when the confirmation read the order               *)
(* (services/restaurant.py:3050-3088); the row is what other requests made of *)
(* it until the commit (2150-2383, 2801-2816), from rows they read earlier.   *)
TakeawayInTime ==
  [][order # None /\ order.status = "pending" /\ order'.status = "confirmed"
        /\ KindOf(order') # "dine_in" =>
       LET s == Fulfillment[KindOf(order')] IN
       /\ order'.at # None
       /\ \A d \in order'.dishes : OnTheMenu(d, order'.at)
       /\ DayOf(order'.at) \in s.days
       /\ s.open <= TimeOf(order'.at) /\ TimeOf(order'.at) < s.close[DayOf(order'.at)] - s.cutoff]_vars
=============================================================================
