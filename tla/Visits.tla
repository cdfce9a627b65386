------------------------------- MODULE Visits -------------------------------
(***************************************************************************)
(* The times at which guests come: tables that are offered and taken       *)
(* (module Availability), and orders that are ready at a time or served    *)
(* at a reserved table (module Preorder).  They share the hours of the     *)
(* restaurant (module Schedule), and no state.                             *)
(***************************************************************************)
EXTENDS Availability

CONSTANTS Handlers, Dishes, Delay, Times, Start, Until   \* of Preorder

VARIABLES clock, booking, order, handler, skew

orderVars == <<clock, booking, order, handler, skew>>

Preorders == INSTANCE Preorder WITH now <- clock, MaxNow <- Until

ASSUME OrdersAssumption == Preorders!PreorderAssumption

\* Properties of Preorder, see there.
ServedUnlessSkewed == Preorders!ServedUnlessSkewed
TakeawayInTime == Preorders!TakeawayInTime
=============================================================================
