------------------------------- MODULE Orders -------------------------------
(***************************************************************************)
(* The orders of one call (app/services/restaurant.py): adding, changing   *)
(* and removing items, notes, fulfilment, the readback (get_order_summary),*)
(* confirm_order, and the order that create_booking attaches.  Requests    *)
(* about the call run at the same time, each write in a transaction of its *)
(* own; as in Bookings a row lock is held by the request whose position    *)
(* lies between the statement that takes it and the end of its transaction.*)
(*                                                                         *)
(* What the gate keeps for confirm_order is one number, the readback that  *)
(* it would accept now.  CallMemory shows, for any requests and restarts,  *)
(* that this is a readback the caller has agreed to; Turn assumes no more. *)
(* Requests carry idempotency keys of their own.                           *)
(***************************************************************************)
EXTENDS Naturals, Sequences, FiniteSets, FiniteSetsExt, Functions

CONSTANTS
  Handlers,       \* requests about the call that run at the same time
  Requests,       \* what they may ask
  Quantities,     \* quantities of an item, its price being the unit
  Fee,            \* the fee of a delivery
  MaxOrders,      \* bounds on orders,
  MaxItems,       \*   on items,
  MaxVersion,     \*   on versions of a draft,
  MaxReadbacks,   \*   and on readbacks
  None            \* SQL NULL / no row

Kinds == {"dine_in", "pickup", "delivery"}
OrderIds == 1..MaxOrders
ItemIds == 1..MaxItems

\* sure is the argument caller_confirmed; guest is add_guest_note, which has
\* none; the version to confirm is one that
\* the caller of the tool has seen or made up.
Request ==
  [op : {"add"}, quantity : Quantities, sure : BOOLEAN]
    \cup [op : {"update"}, item : ItemIds, quantity : Quantities, sure : BOOLEAN]
    \cup [op : {"remove"}, item : ItemIds, sure : BOOLEAN]
    \cup [op : {"notes"}, sure : BOOLEAN] \cup [op : {"guest"}, sure : {FALSE}]
    \cup [op : {"fulfil"}, kind : Kinds]
    \cup [op : {"confirm"}, version : 1..MaxVersion]
    \cup [op : {"summary", "book"}]

\* The amounts that items and a fee may add up to.
Amounts ==
  {0} \cup {SumFunction(f) + fee :
             f \in UNION {[S -> Quantities] : S \in SUBSET ItemIds}, fee \in {0, Fee}}

\* The rows of orders and of order_items, as far as the model has them.
Row ==
  [status : {"pending", "confirmed"}, kind : Kinds \cup {None}, booking : BOOLEAN,
   address : BOOLEAN, version : Nat, total : Amounts]
Item == [order : OrderIds, quantity : Quantities, proposed : BOOLEAN]

ASSUME OrdersAssumption ==
  /\ None \notin Row \cup Item
  /\ Requests \subseteq Request
  /\ Quantities \subseteq Nat \ {0} /\ Fee \in Nat
  /\ MaxOrders \in Nat /\ MaxItems \in Nat
  /\ MaxVersion \in Nat /\ MaxReadbacks \in Nat
  /\ None \notin Kinds

VARIABLES
  orders,      \* rows of orders with the session_id of the call: status, kind,
               \* whether booking_id is set, whether fulfillment_details has the
               \* address of a delivery, version (and notes), stored total
  items,       \* rows of order_items: order, quantity, proposed
  created,     \* ids of items used so far
  booking,     \* status of the booking the call has made
  handler,     \* per request: position, request, and what it has read
  readbacks,   \* the payloads registered for confirm_order so far
  agreed,      \* how many of them came before the caller's last yes
  accepts      \* the one the gate would accept now, or 0

vars == <<orders, items, created, booking, handler, readbacks, agreed, accepts>>

db == <<orders, items, created, booking>>
gate == <<readbacks, agreed, accepts>>

Idle == [pc |-> "idle", ask |-> None, order |-> 0, row |-> None,
         dineIn |-> FALSE, address |-> FALSE]

Init ==
  /\ orders = [o \in OrderIds |-> None]
  /\ items = [i \in ItemIds |-> None]
  /\ created = 0
  /\ booking = "none"
  /\ handler = [h \in Handlers |-> Idle]
  /\ readbacks = <<>>
  /\ agreed = 0
  /\ accepts = 0

-----------------------------------------------------------------------------
(* Queries *)

Existing == {o \in OrderIds : orders[o] # None}
Pending == {o \in Existing : orders[o].status = "pending"}

Latest(S) == IF S = {} THEN 0 ELSE Max(S)

\* ORDER BY CASE status WHEN 'pending' THEN 0 ELSE 1 END, id DESC LIMIT 1
Current == IF Pending # {} THEN Latest(Pending) ELSE Latest(Existing)

KindOf(row) ==
  CASE row.kind # None -> row.kind
    [] row.booking     -> "dine_in"
    [] OTHER           -> "pickup"

\* The items of an order that count: those not merely proposed.
Committed(its, o) ==
  {i \in ItemIds : its[i] # None /\ its[i].order = o /\ ~its[i].proposed}

ItemTotal(its, o) == SumFunction([i \in Committed(its, o) |-> its[i].quantity])

\* The total of _order_summary_with_conn
TotalOf(row, its, o) ==
  ItemTotal(its, o) + (IF KindOf(row) = "delivery" THEN Fee ELSE 0)

\* order_confirmation_payload: items are told apart by content, not by id.
Payload(row, its, o) ==
  [order |-> o, version |-> row.version, kind |-> KindOf(row),
   booking |-> row.booking, address |-> row.address,
   total |-> TotalOf(row, its, o),
   items |-> [q \in Quantities |->
                Cardinality({i \in Committed(its, o) : its[i].quantity = q})]]

-----------------------------------------------------------------------------
(* Locks *)

Op(h) == IF handler[h].pc = "idle" THEN "none" ELSE handler[h].ask.op

\* Mutant: no transaction waits for another.
NeverLocked(o) == FALSE

OrderLocked(o) ==
  \E h \in Handlers : handler[h].pc = "write" /\ handler[h].order = o

\* An uncommitted INSERT makes another INSERT of a pending order wait.
PendingInserted ==
  \E h \in Handlers :
    handler[h].pc = "write" /\ Op(h) = "add" /\ handler[h].order = 0

Become(h, x) == handler' = [handler EXCEPT ![h] = x]
GoTo(h, label) == Become(h, [handler[h] EXCEPT !.pc = label])
Finish(h) == Become(h, Idle)

At(h, label, ops) == handler[h].pc = label /\ Op(h) \in ops

-----------------------------------------------------------------------------
(* Finding and locking the order *)

Arrive(h) ==
  /\ handler[h].pc = "idle"
  /\ \E r \in Requests :
       Become(h, [Idle EXCEPT !.ask = r,
                              !.pc = IF r.op \in {"add", "guest"} THEN "look"
                                                                 ELSE "choose"])
  /\ UNCHANGED <<db, gate>>

\* add_order_item first reads, without a lock, whether the order is dine-in
\* and the details of its fulfilment, and uses both after it has the lock.
\* add_guest_note leaves the order alone if the call has a booking.
Look(h) ==
  LET o == Current
      has == booking # "none" IN
  /\ \/ /\ At(h, "look", {"add"})
        /\ Become(h, [handler[h] EXCEPT
             !.pc = "choose",
             !.dineIn = IF o = 0 THEN has
                        ELSE KindOf(orders[o]) = "dine_in" /\ (orders[o].booking \/ has),
             !.address = o # 0 /\ orders[o].address])
     \/ /\ At(h, "look", {"guest"})
        /\ IF has THEN Finish(h) ELSE GoTo(h, "choose")
  /\ UNCHANGED <<db, gate>>

\* Mutant: a confirmed order is attached, too.
CanAttachAny(row) == ~row.booking /\ row.kind \in {None, "dine_in"}

\* What create_booking wants of an order.
CanAttach(row) ==
  row.status = "pending" /\ ~row.booking /\ row.kind \in {None, "dine_in"}

\* The order that its SELECT ... FOR UPDATE picks from its snapshot.
Attachable == Latest({o \in Existing : CanAttach(orders[o])})

ItemThere(h) ==
  Op(h) \in {"update", "remove"} /\ items[handler[h].ask.item] # None

Choice(h) ==
  CASE ItemThere(h)       -> items[handler[h].ask.item].order
    [] Op(h) = "confirm"  -> Latest(Pending)
    [] Op(h) = "book"     -> Attachable
    [] Op(h) = "guest"    -> Latest(Existing)
    [] OTHER              -> Current

\* No order: add_order_item will create one, a booking needs none.
Choose(h) ==
  /\ handler[h].pc = "choose"
  /\ IF Choice(h) # 0
     THEN Become(h, [handler[h] EXCEPT
            !.order = Choice(h),
            !.pc = CASE Op(h) = "summary" -> "row"
                     [] ItemThere(h)      -> "lockItem"
                     [] OTHER             -> "lock"])
     ELSE IF Op(h) \in {"add", "book"}
          THEN GoTo(h, IF Op(h) = "add" THEN "insert" ELSE "write")
          ELSE Finish(h)
  /\ UNCHANGED <<db, gate>>

\* Mutant: a confirmed order may be changed whatever its fulfilment.
AllowedIfSure(h, row) ==
  row.status = "confirmed" => Op(h) # "fulfil" /\ handler[h].ask.sure

\* _ensure_order_mutation_allowed, and the refusal of set_order_fulfillment
Allowed(h, row) ==
  row.status = "confirmed" =>
    Op(h) # "fulfil" /\ KindOf(row) = "dine_in" /\ handler[h].ask.sure

\* The lock is free and the row is read again.  If the item was removed in the
\* meantime, the query finds nothing and the call's order is looked for.
LockForChange(h) ==
  LET o == handler[h].order IN
  /\ handler[h].pc \in {"lock", "lockItem"}
  /\ Op(h) \in {"add", "update", "remove", "notes", "guest", "fulfil"}
  /\ ~OrderLocked(o)
  /\ CASE handler[h].pc = "lockItem" /\ ~ItemThere(h) -> GoTo(h, "choose")
       [] ~Allowed(h, orders[o])                      -> Finish(h)
       [] OTHER                                       -> GoTo(h, "write")
  /\ UNCHANGED <<db, gate>>

\* create_booking's order must still be attachable once its lock is free.
LockToBook(h) ==
  LET o == handler[h].order IN
  /\ At(h, "lock", {"book"})
  /\ ~OrderLocked(o)
  /\ Become(h, [handler[h] EXCEPT
       !.pc = "write",
       !.order = IF CanAttach(orders[o]) THEN o ELSE 0])
  /\ UNCHANGED <<db, gate>>

\* INSERT of a pending order: the unique index refuses a second one.
InsertOrder(h) ==
  /\ At(h, "insert", {"add"})
  /\ ~PendingInserted
  /\ IF Pending = {} THEN Become(h, [handler[h] EXCEPT !.pc = "write", !.order = 0])
                     ELSE Finish(h)
  /\ UNCHANGED <<db, gate>>

-----------------------------------------------------------------------------
(* Writing: the statements after the lock, and COMMIT *)

\* Mutant: the stored total stays that of the confirmation.
StoreRow(o, row, its) == items' = its /\ orders' = [orders EXCEPT ![o] = row]

\* A confirmed order keeps its total up to date.
Store(o, row, its) ==
  /\ items' = its
  /\ orders' = [orders EXCEPT ![o] =
       IF row.status = "confirmed" THEN [row EXCEPT !.total = TotalOf(row, its, o)]
                                   ELSE row]

\* The row of the order before its item is added.
AddedTo(h) ==
  LET n == handler[h]
      o == n.order IN
  IF o = 0
  THEN [status |-> "pending", kind |-> IF n.dineIn THEN "dine_in" ELSE None,
        booking |-> n.dineIn, address |-> n.address, version |-> 1, total |-> 0]
  ELSE [orders[o] EXCEPT
          !.address = IF n.dineIn THEN @ ELSE n.address,
          !.booking = @ \/ n.dineIn,
          !.version = @ + 1]

\* approval is whether the call wants to approve paid items one by one.
AddItem(h) ==
  LET sure == handler[h].ask.sure
      row == AddedTo(h)
      o == IF handler[h].order = 0 THEN Cardinality(Existing) + 1 ELSE handler[h].order
      added(p) == [order |-> o, quantity |-> handler[h].ask.quantity, proposed |-> p] IN
  /\ At(h, "write", {"add"})
  /\ o <= MaxOrders /\ row.version <= MaxVersion
  /\ \E approval \in BOOLEAN :
       LET waiting == {i \in ItemIds : /\ approval /\ sure /\ items[i] # None
                                       /\ items[i].order = o /\ items[i].proposed} IN
       IF waiting # {}
       THEN /\ Store(o, row, [items EXCEPT ![Max(waiting)] = added(FALSE)])
            /\ UNCHANGED created
       ELSE /\ created < MaxItems
            /\ Store(o, row, [items EXCEPT ![created + 1] = added(approval /\ ~sure)])
            /\ created' = created + 1
  /\ Finish(h)
  /\ UNCHANGED <<booking, gate>>

Bumped(o) == [orders[o] EXCEPT !.version = @ + 1]

\* An item that is gone is not changed, but the version is.
ChangeItem(h) ==
  LET o == handler[h].order
      r == handler[h].ask
      i == r.item IN
  /\ At(h, "write", {"update", "remove"})
  /\ Bumped(o).version <= MaxVersion
  /\ Store(o, Bumped(o),
           CASE items[i] = None   -> items
             [] r.op = "remove"   -> [items EXCEPT ![i] = None]
             [] OTHER             -> [items EXCEPT ![i].quantity = r.quantity])
  /\ Finish(h)
  /\ UNCHANGED <<created, booking, gate>>

\* set_order_notes, add_guest_note: the version advances if the notes differ.
SetNotes(h) ==
  LET o == handler[h].order IN
  /\ At(h, "write", {"notes", "guest"})
  /\ \/ UNCHANGED orders
     \/ /\ Bumped(o).version <= MaxVersion
        /\ orders' = [orders EXCEPT ![o] = Bumped(o)]
  /\ Finish(h)
  /\ UNCHANGED <<items, created, booking, gate>>

SetFulfillment(h) ==
  LET o == handler[h].order
      k == handler[h].ask.kind IN
  /\ At(h, "write", {"fulfil"})
  /\ k = "dine_in" => booking = "confirmed"
  /\ Bumped(o).version <= MaxVersion
  /\ orders' = [orders EXCEPT ![o] =
       [Bumped(o) EXCEPT !.kind = k, !.booking = (k = "dine_in"),
                         !.address = (k = "delivery")]]
  /\ Finish(h)
  /\ UNCHANGED <<items, created, booking, gate>>

\* create_booking attaches the order; the version stays as it is.
Book(h) ==
  LET o == handler[h].order IN
  /\ At(h, "write", {"book"})
  /\ booking = "none"
  /\ booking' = "confirmed"
  /\ IF o = 0 THEN UNCHANGED orders
     ELSE orders' = [orders EXCEPT ![o] =
            [@ EXCEPT !.booking = TRUE, !.kind = "dine_in", !.address = FALSE]]
  /\ Finish(h)
  /\ UNCHANGED <<items, created, gate>>

\* cancel_booking (see Bookings) leaves the orders of the booking alone.
CancelBooking ==
  /\ booking = "confirmed"
  /\ booking' = "cancelled"
  /\ UNCHANGED <<orders, items, created, handler, gate>>

-----------------------------------------------------------------------------
(* The readback and its confirmation *)

ReadRow(h) ==
  /\ At(h, "row", {"summary"})
  /\ Become(h, [handler[h] EXCEPT !.pc = "items", !.row = orders[handler[h].order]])
  /\ UNCHANGED <<db, gate>>

\* A readback cannot be confirmed before the caller's next turn, and takes the
\* place of the one before it.
Registered(payload) ==
  readbacks' = Append(readbacks, payload) /\ accepts' = 0

\* The items come with a statement of their own, later than the order's row.
ReadItems(h) ==
  LET o == handler[h].order
      row == handler[h].row IN
  /\ At(h, "items", {"summary"})
  /\ IF row.status = "pending" /\ Committed(items, o) # {}
     THEN /\ Len(readbacks) < MaxReadbacks
          /\ Registered(Payload(row, items, o))
     ELSE UNCHANGED <<readbacks, accepts>>
  /\ Finish(h)
  /\ UNCHANGED <<db, agreed>>

\* Mutant: an address is not asked for.
PlaceIsKnown(row) == KindOf(row) = "dine_in" => row.booking /\ booking = "confirmed"

\* A delivery has its address, a dine-in order its confirmed reservation.
Served(row) ==
  /\ KindOf(row) = "delivery" => row.address
  /\ KindOf(row) = "dine_in" => row.booking /\ booking = "confirmed"

Matches(p, row, its, o) == p = Payload(row, its, o)

\* The lock is free and the order still pending; its version, its contents and
\* the readback agree.  The readback is used up in memory before the commit.
CheckConfirm(h) ==
  LET o == handler[h].order
      row == orders[o] IN
  /\ At(h, "lock", {"confirm"})
  /\ ~OrderLocked(o)
  /\ IF /\ row.status = "pending"
        /\ row.version = handler[h].ask.version
        /\ Committed(items, o) # {}
        /\ Served(row)
        /\ accepts # 0 /\ Matches(readbacks[accepts], row, items, o)
     THEN accepts' = 0 /\ GoTo(h, "write")
     ELSE UNCHANGED accepts /\ Finish(h)
  /\ UNCHANGED <<db, readbacks, agreed>>

ConfirmOrder(h) ==
  LET o == handler[h].order IN
  /\ At(h, "write", {"confirm"})
  /\ orders' = [orders EXCEPT ![o] =
       [@ EXCEPT !.status = "confirmed", !.total = TotalOf(orders[o], items, o)]]
  /\ Finish(h)
  /\ UNCHANGED <<items, created, booking, gate>>

-----------------------------------------------------------------------------

\* The caller speaks, a record expires, memory is lost or restored.
Turn ==
  /\ agreed' \in {agreed, Len(readbacks)}
  /\ accepts' \in 0..agreed'
  /\ UNCHANGED <<db, handler, readbacks>>

\* A check on the data or a statement fails, the task or the process dies.
Fail(h) ==
  /\ handler[h].pc # "idle"
  /\ Finish(h)
  /\ UNCHANGED <<db, gate>>

Step(h) ==
  \/ Arrive(h) \/ Look(h) \/ Choose(h) \/ LockForChange(h) \/ LockToBook(h)
  \/ InsertOrder(h) \/ AddItem(h) \/ ChangeItem(h) \/ SetNotes(h)
  \/ SetFulfillment(h) \/ Book(h) \/ ReadRow(h) \/ ReadItems(h)
  \/ CheckConfirm(h) \/ ConfirmOrder(h) \/ Fail(h)

Next == Turn \/ CancelBooking \/ \E h \in Handlers : Step(h)

Spec == Init /\ [][Next]_vars

-----------------------------------------------------------------------------
(* Properties *)

\* update_order_item and remove_order_item are asked for items that a tool has
\* told of.  An item that is not there yet they would look for in vain, lock
\* the call's order instead, and then change the item by its id alone, in
\* whatever order it has been added to by that time.
NamesKnownItems ==
  \A h \in Handlers : Op(h) \in {"update", "remove"} => handler[h].ask.item <= created

\* Whatever other requests do to the order between its readback, the caller's
\* yes and the commit, what is confirmed is, item for item and with the same
\* fulfilment and total, what was read back before a yes (confirm_order).
ConfirmedWasHeard(o) ==
  orders[o].status = "pending" /\ orders'[o].status = "confirmed" =>
    \E n \in 1..agreed : /\ readbacks[n] = Payload(orders'[o], items', o)
                         /\ readbacks[n].total = orders'[o].total

ConfirmedAsReadBack == [][\A o \in Existing : ConfirmedWasHeard(o)]_vars

\* The total of a confirmed order is that of its items and its fee, after any
\* interleaving of later changes.
TotalIsOfItems ==
  \A o \in Existing :
    orders[o].status = "confirmed" => orders[o].total = TotalOf(orders[o], items, o)

\* A confirmed pickup or delivery "cannot be changed here" (app/tools/db.py:861):
\* neither a change that was waiting while it was confirmed nor a later one
\* touches it or its items.
Frozen(o) ==
  orders[o].status = "confirmed" /\ KindOf(orders[o]) # "dine_in" =>
    /\ orders'[o] = orders[o]
    /\ \A i \in ItemIds : items[i] # None /\ items[i].order = o => items'[i] = items[i]

TakeawayIsFrozen == [][\A o \in Existing : Frozen(o)]_vars

\* A confirmed delivery has an address although a racing add_order_item may
\* write back details that it read before the address was set.
DeliveryHasAddress ==
  \A o \in Existing :
    orders[o].status = "confirmed" /\ KindOf(orders[o]) = "delivery" => orders[o].address

\* "The caller must explicitly confirm changing the existing order"
\* (app/services/restaurant.py:2414): once an order is confirmed, only a request
\* sent with caller_confirmed changes it, not one that chose it as a draft.
ChangedByASureOne(o) ==
  orders[o].status = "confirmed" /\ orders'[o] # orders[o] =>
    \E h \in Handlers :
      /\ handler[h].pc = "write" /\ handler'[h].pc = "idle"
      /\ Op(h) \in {"add", "update", "remove", "notes"} /\ handler[h].ask.sure

SureChangesOnly == [][\A o \in Existing : ChangedByASureOne(o)]_vars
=============================================================================
