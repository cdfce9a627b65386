------------------------------ MODULE Schedule ------------------------------
(***************************************************************************)
(* When the restaurant is open (app/restaurant_knowledge.py) and which     *)
(* times a reservation may have (app/services/restaurant.py): pure         *)
(* operators over time, used by Availability and Preorder.                 *)
(*                                                                         *)
(* Time is counted in ticks of 30 minutes, the finest step in which the    *)
(* fixture and the code move a time; instant t stands for the half-open    *)
(* interval from tick t to the next.  A day has DayTicks of them.  The     *)
(* messages that go with an answer are left out.                           *)
(***************************************************************************)
EXTENDS Integers, Sequences, FiniteSets

CONSTANTS
  DayTicks,       \* ticks of a day
  Days,           \* the days 0..Days-1 that are modelled
  Regular,        \* hours of each day: [status, open, close, periods]
  Exceptions,     \* hours.exceptions, in the order of the fixture
  Fulfillment,    \* hours.fulfillment: name -> [days, open, close, cutoff]
  Stay,           \* RESERVATION_DURATION_MINUTES in ticks
  WindowDays,     \* how many days ahead reservations open
  ReleaseTick     \* the time of day at which the last day is released

Instants == 0..(Days * DayTicks - 1)

DayOf(t) == t \div DayTicks
TimeOf(t) == t % DayTicks

Holiday(e) == e.kind = "holiday_hours"

\* What the fixture declares: hours of every day, and exceptions of two kinds.
ScheduleTyped ==
  /\ DayTicks \in Nat \ {0} /\ Days \in Nat \ {0} /\ Stay \in Nat \ {0}
  /\ \A d \in 0..Days - 1 : Regular[d].open \in Nat /\ Regular[d].close \in Nat
  /\ \A name \in DOMAIN Fulfillment :
       LET s == Fulfillment[name] IN
       s.open \in Nat /\ s.cutoff \in Nat /\ \A d \in 0..Days - 1 : s.close[d] \in Nat
  /\ \A i \in 1..Len(Exceptions) :
       LET e == Exceptions[i] IN
       /\ e.from \in Instants /\ e.to \in Int
       /\ e.status = IF Holiday(e) THEN "open" ELSE "closed"

\* Its closures are hours long, longer than a stay.
ClosuresAreLong ==
  \A i \in 1..Len(Exceptions) : Exceptions[i].to - Exceptions[i].from >= Stay

\* On no day does the restaurant open so early that a stay which began the day
\* before could last until then.
DaysBeginLate ==
  /\ \A d \in 0..Days - 1 : Regular[d].status = "open" => Regular[d].open >= Stay - 1
  /\ \A i \in 1..Len(Exceptions) :
       Holiday(Exceptions[i]) => TimeOf(Exceptions[i].from) >= Stay - 1

\* A day with the hours of a holiday has no other exception.
HolidaysAreAlone ==
  \A i, j \in 1..Len(Exceptions) :
    LET e == Exceptions[i]
        f == Exceptions[j] IN
    Holiday(e) /\ i # j =>
      IF Holiday(f) THEN DayOf(e.from) # DayOf(f.from)
      ELSE \A t \in f.from..f.to - 1 : DayOf(e.from) # DayOf(t)

ASSUME ScheduleAssumption ==
  ScheduleTyped /\ ClosuresAreLong /\ DaysBeginLate /\ HolidaysAreAlone

-----------------------------------------------------------------------------
\* An exception speaks for an instant: holiday hours for their whole day, a
\* closure for its interval.
Speaks(e, t) ==
  \/ Holiday(e) /\ DayOf(t) = DayOf(e.from)
  \/ e.status = "closed" /\ e.from <= t /\ t < e.to

\* operating_status: the first exception that speaks decides, otherwise the
\* regular hours of the day.
OperatingStatus(t) ==
  LET speaking == {i \in 1..Len(Exceptions) : Speaks(Exceptions[i], t)}
      first == Exceptions[CHOOSE i \in speaking : \A j \in speaking : i <= j]
      day == Regular[DayOf(t)]
  IN  IF speaking # {}
      THEN Holiday(first) /\ first.from <= t /\ t < first.to
      ELSE /\ day.status = "open"
           /\ day.open <= TimeOf(t) /\ TimeOf(t) < day.close

\* schedule_status: pickup, delivery, patio.
ScheduleStatus(name, t, duration, applyCutoff) ==
  /\ OperatingStatus(t)
  /\ name \in DOMAIN Fulfillment
  /\ LET s == Fulfillment[name]
         close == s.close[DayOf(t)] - (IF applyCutoff THEN s.cutoff ELSE 0)
     IN  /\ DayOf(t) \in s.days
         /\ s.open <= TimeOf(t) /\ TimeOf(t) < close
         /\ TimeOf(t) + duration <= close

\* menu_service_status: an item with no service period is served whenever the
\* restaurant is open.
MenuServiceStatus(periods, t) ==
  /\ OperatingStatus(t)
  /\ \/ periods = {}
     \/ \E p \in Regular[DayOf(t)].periods :
          p.id \in periods /\ p.open <= TimeOf(t) /\ TimeOf(t) < p.close

\* _reservation_operating_status: the first and the last instant of the stay.
ReservationOpen(t) == OperatingStatus(t) /\ OperatingStatus(t + Stay - 1)

\* _parse_booking_datetime: the error it raises, or "" for a good time.
ParseError(t, now) ==
  LET released == IF TimeOf(now) >= ReleaseTick THEN WindowDays ELSE WindowDays - 1
  IN  IF t < now THEN "past_booking"
      ELSE IF DayOf(t) > DayOf(now) + released THEN "booking_too_far_ahead"
      ELSE ""
=============================================================================
