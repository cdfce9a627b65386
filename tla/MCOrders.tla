------------------------------ MODULE MCOrders ------------------------------
(* Instances of Orders for TLC. *)
EXTENDS Orders, TLC

Add(q, sure) == [op |-> "add", quantity |-> q, sure |-> sure]
Update(i, q, sure) == [op |-> "update", item |-> i, quantity |-> q, sure |-> sure]
Remove(i, sure) == [op |-> "remove", item |-> i, sure |-> sure]
Notes(sure) == [op |-> "notes", sure |-> sure]
GuestNote == [op |-> "guest", sure |-> FALSE]
Fulfil(k) == [op |-> "fulfil", kind |-> k]
Confirm(v) == [op |-> "confirm", version |-> v]
Summary == [op |-> "summary"]
BookTable == [op |-> "book"]

\* A delivery is read back and confirmed while its items change.
DeliveryRequests ==
  {Add(2, TRUE), Remove(1, TRUE), Fulfil("delivery"),
   Fulfil("pickup"), Confirm(2), Confirm(3), Summary}

\* A reservation comes in between: the order is attached to it or made for it,
\* and may be changed after it is confirmed.
DineInRequests ==
  {Add(1, TRUE), Update(1, 2, TRUE), Notes(FALSE), GuestNote, Fulfil("dine_in"),
   Confirm(1), Confirm(2), Summary, BookTable}

AllRequests == DeliveryRequests \cup DineInRequests

\* The behaviours of two instances.
Delivery == INSTANCE Orders WITH Requests <- DeliveryRequests
DineIn == INSTANCE Orders WITH Requests <- DineInRequests, MaxReadbacks <- 1

VARIABLE story

StoryInit == Init /\ story \in {"delivery", "dine_in"}

StoryNext ==
  \/ story = "delivery" /\ Delivery!Next /\ UNCHANGED story
  \/ story = "dine_in" /\ DineIn!Next /\ UNCHANGED story

StorySpec == StoryInit /\ [][StoryNext]_<<vars, story>>

HandlerSymmetry == Permutations(Handlers)
=============================================================================
