------------------------------ MODULE MCTables ------------------------------
(* Instances for TLC of the times at which guests come (module Visits): of    *)
(* tables and offers, told in three stories, and of orders for a time, in two *)
(* stories.  A behaviour moves one of the two parts.  Days are short:         *)
(* fourteen ticks.                                                            *)
EXTENDS Visits, TLC

CONSTANTS h1, h2

VARIABLE story

Open(o, c) == [status |-> "open", open |-> o, close |-> c, periods |-> {}]
Closed == [status |-> "closed", open |-> 0, close |-> 0, periods |-> {}]

\* Lunch and dinner overlap by one tick.
Periods == {[id |-> "lunch", open |-> 5, close |-> 9], [id |-> "dinner", open |-> 8, close |-> 13]}

\* The second day has a private event in the afternoon, the third the hours of
\* a holiday, the fourth is closed.
MCRegular ==
  (0 :> [Open(5, 13) EXCEPT !.periods = Periods] @@ 1 :> Open(3, 13) @@ 2 :> Closed @@ 3 :> Closed)
MCExceptions ==
  <<[kind |-> "temporary_private_event_closure", status |-> "closed", from |-> 22, to |-> 28],
    [kind |-> "holiday_hours", status |-> "open", from |-> 32, to |-> 38]>>

MCFulfillment ==
  ("patio" :> [days |-> {0, 1}, open |-> 5, close |-> [d \in 0..3 |-> 11], cutoff |-> 0]
   @@ "pickup" :> [days |-> {0}, open |-> 5, close |-> [d \in 0..3 |-> 13], cutoff |-> 1]
   @@ "delivery" :> [days |-> {0}, open |-> 7, close |-> [d \in 0..3 |-> 12], cutoff |-> 2])

-----------------------------------------------------------------------------
\* Both edges of the hours, of the patio's and of the closure; one time too far.
HourTimes == {6, 9, 10, 19, 20, 35, 36}
OfferTimes == {8, 9}
EveryTime == HourTimes \cup OfferTimes

TwoTables == (1 :> [capacity |-> 2, location |-> "patio"] @@ 2 :> [capacity |-> 4, location |-> "main"])
ThreeTables == TwoTables @@ (3 :> [capacity |-> 4, location |-> "patio"])
Areas == ("patio" :> 3 @@ "main" :> 4)

\* Moves of a booking.  Changes of its party, with or without a time and a room,
\* and the drafts they are judged by.
Moves == {[at |-> t, party |-> 0, asked |-> "", location |-> l] : t \in {None, 9, 10, 36}, l \in {"", "patio"}}
Changes == {[at |-> None, party |-> 3, asked |-> "patio", location |-> "patio"],
            [at |-> 9, party |-> 3, asked |-> "", location |-> ""]}
Drafted == {[at |-> 8, party |-> 2], [at |-> None, party |-> 3]}
Elsewhere == {[table |-> 2, at |-> 8, party |-> 2]}

\* Which times can be had, and which offers a write may cite.
Hours ==
  INSTANCE Availability
    WITH Asked <- HourTimes, Parties <- {2}, OfferTTL <- 4,
         MaxTurns <- 0, MaxChecks <- 1, Requests <- {}, Edits <- {}, Foreign <- {}
Moved ==
  INSTANCE Availability
    WITH Asked <- {6, 9, 10, 19, 36}, Parties <- {2}, Starts <- {5}, MaxNow <- 6, OfferTTL <- 4,
         MaxTurns <- 0, MaxChecks <- 0, Requests <- Moves, Edits <- {}, Foreign <- {}
Offers ==
  INSTANCE Availability
    WITH Tables <- TwoTables, Asked <- OfferTimes, Starts <- {5}, MaxNow <- 6, TurnAge <- 0,
         MaxTurns <- 2, MaxChecks <- 1, MaxOthers <- 0

-----------------------------------------------------------------------------
\* Tea is always served.
MCDelay == ("pickup" :> 1 @@ "delivery" :> 2)
TwoDishes == ("soup" :> {"lunch"} @@ "steak" :> {"dinner"})
ThreeDishes == TwoDishes @@ ("tea" :> {})

\* Requests one at a time over a long day, and requests that overlap.
Overlapping ==
  INSTANCE Preorder WITH Dishes <- TwoDishes, Start <- 6, MaxNow <- 7, now <- clock

ASSUME Overlapping!PreorderAssumption

OneAtATime == Cardinality({h \in {h1, h2} : handler[h].pc # "idle"}) <= 1

-----------------------------------------------------------------------------
StoryInit ==
  \/ story = "hours" /\ Hours!Init /\ Preorders!Init
  \/ story = "moves" /\ Moved!Init /\ Preorders!Init
  \/ story = "offers" /\ Offers!Init /\ Preorders!Init
  \/ story = "preorders" /\ Moved!Init /\ Preorders!Init
  \/ story = "preorders overlap" /\ Moved!Init /\ Overlapping!Init

StoryNext ==
  \/ story = "hours" /\ Hours!Next /\ UNCHANGED <<story, orderVars>>
  \/ story = "moves" /\ Moved!Next /\ UNCHANGED <<story, orderVars>>
  \/ story = "offers" /\ Offers!Next /\ UNCHANGED <<story, orderVars>>
  \/ story = "preorders" /\ Preorders!Next /\ OneAtATime' /\ UNCHANGED <<story, vars>>
  \/ story = "preorders overlap" /\ Overlapping!Next /\ UNCHANGED <<story, vars>>

StorySpec == StoryInit /\ [][StoryNext]_<<story, vars, orderVars>>

HandlerSymmetry == Permutations({h1, h2})
=============================================================================
