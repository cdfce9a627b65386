----------------------------- MODULE MCBookings -----------------------------
(* Instances of Bookings for TLC. *)
EXTENDS Bookings, TLC

CONSTANTS a1, a2, a3, c1, c2, k1, k2, k3

Create(c, k, s, ts) ==
  [action |-> "create_booking", call |-> c, key |-> k, booking |-> 0,
   slot |-> s, wants |-> ts]

Update(c, k, b, s, ts) ==
  [action |-> "update_confirmed_booking", call |-> c, key |-> k, booking |-> b,
   slot |-> s, wants |-> ts]

Cancel(c, k, b) ==
  [action |-> "cancel_booking", call |-> c, key |-> k, booking |-> b,
   slot |-> NoSlot, wants |-> {}]

\* Two calls compete for overlapping times on two tables, with a retry and a
\* key that is reused for other inputs.
CreateRequests ==
  {Create(c1, k1, 0, {1, 2}), Create(c2, k2, 1, {1}), Create(c1, k2, 1, {2})}

\* One booking is there already; it is moved to another time or another room,
\* its party grows, and it is cancelled, while another call books the time it
\* is moved to.
ChangeRequests ==
  {Update(c1, k1, 1, 4, {1}), Update(c2, k2, 1, NoSlot, {2}),
   Update(c2, k2, 1, Same, {1, 2}), Cancel(c1, k1, 1), Create(c2, k3, 4, {1})}

\* It is cancelled twice, under two keys, while it is moved.
CancelRequests == {Cancel(c1, k1, 1), Cancel(c2, k3, 1), Update(c2, k2, 1, NoSlot, {2})}

AllRequests == CreateRequests \cup ChangeRequests \cup CancelRequests

OneBooking == <<[status |-> "confirmed", table |-> 1, slot |-> 0]>>
NoBookings == <<>>

\* The behaviours of three instances: bookings are made, one is changed, or
\* one is cancelled.
Making == INSTANCE Bookings WITH Requests <- CreateRequests, Seeded <- NoBookings
Changing == INSTANCE Bookings WITH Requests <- ChangeRequests, Seeded <- OneBooking
Cancelling == INSTANCE Bookings WITH Requests <- CancelRequests, Seeded <- OneBooking

VARIABLE story

StoryInit ==
  \/ story = "making" /\ Making!Init
  \/ story = "changing" /\ Changing!Init
  \/ story = "cancelling" /\ Cancelling!Init

StoryNext ==
  \/ story = "making" /\ Making!Next /\ UNCHANGED story
  \/ story = "changing" /\ Changing!Next /\ UNCHANGED story
  \/ story = "cancelling" /\ Cancelling!Next /\ UNCHANGED story

StorySpec == StoryInit /\ [][StoryNext]_<<vars, story>>

AttemptSymmetry == Permutations(Attempts)
=============================================================================
