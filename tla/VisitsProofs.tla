---------------------------- MODULE VisitsProofs ----------------------------
(***************************************************************************)
(* Proofs about Visits.  First the calendar: a day that opens late enough  *)
(* and closures that are long enough make two instants of a stay speak for *)
(* all of it.  Then what is offered: the offer in memory is the last that  *)
(* was made, and a time that the search kept can be had.  Last the orders  *)
(* for a time, by invariants about the copies that requests have read and  *)
(* about who holds the lock of the order.                                  *)
(***************************************************************************)
EXTENDS Visits, FiniteSetTheorems, SequenceTheorems, WellFoundedInduction, TLAPS

LEMMA Calendar ==
  ASSUME NEW t \in Int
  PROVE  /\ DayOf(t) \in Int /\ TimeOf(t) \in 0..DayTicks - 1
         /\ t = DayTicks * DayOf(t) + TimeOf(t)
BY ScheduleAssumption DEF ScheduleTyped, DayOf, TimeOf

LEMMA TimeIsNat == \A t \in Int : TimeOf(t) \in Nat /\ TimeOf(t) \in Int
BY Calendar, ScheduleAssumption DEF ScheduleTyped

LEMMA LaterDay ==
  ASSUME NEW d \in Nat, NEW a \in Int, NEW b \in Int, a < b
  PROVE  d * a + d <= d * b
<1> DEFINE n == b - a - 1
<1>1. n \in Nat /\ b = a + n + 1
  OBVIOUS
<1> HIDE DEF n
<1>2. d * b = d * a + d * n + d /\ d * n \in Nat /\ d * a \in Int
  BY <1>1
<1> QED BY <1>2

LEMMA SameDay ==
  ASSUME NEW t \in Int, NEW n \in Nat, n <= TimeOf(t)
  PROVE  DayOf(t - n) = DayOf(t) /\ TimeOf(t - n) = TimeOf(t) - n
<1>0. DayTicks \in Nat
  BY ScheduleAssumption DEF ScheduleTyped
<1> DEFINE q == DayOf(t)
           p == DayOf(t - n)
           r == TimeOf(t)
           s == TimeOf(t - n)
<1>1. /\ q \in Int /\ r \in 0..DayTicks - 1 /\ t = DayTicks * q + r
      /\ p \in Int /\ s \in 0..DayTicks - 1 /\ t - n = DayTicks * p + s
  BY Calendar
<1>2. n <= r
  OBVIOUS
<1> HIDE DEF q, p, r, s
<1> DEFINE x == DayTicks * q
           y == DayTicks * p
<1>3. /\ x \in Int /\ y \in Int
      /\ p < q => y + DayTicks <= x
      /\ q < p => x + DayTicks <= y
  BY <1>0, <1>1, LaterDay
<1>4. t = x + r /\ t - n = y + s
  BY <1>1
<1> HIDE DEF x, y
<1>5. p = q
  BY <1>0, <1>1, <1>2, <1>3, <1>4
<1>6. x = y
  BY <1>5 DEF x, y
<1> QED
  BY <1>0, <1>1, <1>3, <1>4, <1>5, <1>6 DEF p, q, r, s

LEMMA InstantsAreDense ==
  /\ Instants \subseteq Nat /\ Instants \subseteq Int
  /\ \A t \in Instants, u \in Nat : u <= t => u \in Instants
<1>1. Days * DayTicks \in Int
  BY ScheduleAssumption DEF ScheduleTyped
<1> DEFINE n == Days * DayTicks
<1> HIDE DEF n
<1> QED BY <1>1 DEF Instants, n

LEMMA ExceptionFacts ==
  ASSUME NEW i \in 1..Len(Exceptions)
  PROVE  /\ Exceptions[i].from \in Int /\ Exceptions[i].to \in Int
         /\ Exceptions[i].to - Exceptions[i].from >= Stay
         /\ Holiday(Exceptions[i]) <=> Exceptions[i].status # "closed"
         /\ Holiday(Exceptions[i]) => TimeOf(Exceptions[i].from) >= Stay - 1
<1>1. Exceptions[i].from \in Instants /\ Exceptions[i].to \in Int
  BY ScheduleAssumption DEF ScheduleTyped
<1>2. Exceptions[i].status = IF Holiday(Exceptions[i]) THEN "open" ELSE "closed"
  BY ScheduleAssumption DEF ScheduleTyped
<1>3. Exceptions[i].to - Exceptions[i].from >= Stay
  BY ScheduleAssumption DEF ClosuresAreLong
<1>4. Holiday(Exceptions[i]) => TimeOf(Exceptions[i].from) >= Stay - 1
  BY ScheduleAssumption DEF DaysBeginLate
<1>5. Holiday(Exceptions[i]) <=> Exceptions[i].status # "closed"
  BY <1>2 DEF Holiday
<1>6. Exceptions[i].from \in Int
  BY <1>1, InstantsAreDense, Zenon
<1> QED BY <1>1, <1>3, <1>4, <1>5, <1>6

LEMMA DayKnown ==
  ASSUME NEW t \in Instants
  PROVE  DayOf(t) \in 0..Days - 1
<1>0. DayTicks \in Nat \ {0} /\ Days \in Nat \ {0}
  BY ScheduleAssumption DEF ScheduleTyped
<1> DEFINE q == DayOf(t)
           r == TimeOf(t)
<1>1. t \in Int /\ 0 <= t /\ t < Days * DayTicks
  BY <1>0 DEF Instants
<1>2. q \in Int /\ r \in 0..DayTicks - 1 /\ t = DayTicks * q + r
  BY <1>1, Calendar
<1> HIDE DEF q, r
<1>3. ~(q < 0)
  <2>1. SUFFICES ASSUME q < 0 PROVE FALSE
    OBVIOUS
  <2>2. DayTicks * q + DayTicks <= DayTicks * 0
    BY <1>0, <1>2, <2>1, LaterDay
  <2> QED BY <1>0, <1>1, <1>2, <2>2
<1>4. ~(Days <= q)
  <2>1. SUFFICES ASSUME Days <= q PROVE FALSE
    OBVIOUS
  <2>2. DayTicks * Days <= DayTicks * q
    BY <1>0, <1>2, <2>1, LaterDay
  <2> QED BY <1>0, <1>1, <1>2, <2>2
<1> QED BY <1>0, <1>2, <1>3, <1>4 DEF q

-----------------------------------------------------------------------------
(* The hours.                                                                *)

OpenBy(i, t) ==
  LET e == Exceptions[i] IN
  Holiday(e) /\ DayOf(t) = DayOf(e.from) /\ e.from <= t /\ t < e.to

RegularlyOpen(t) ==
  /\ \A i \in 1..Len(Exceptions) : ~Speaks(Exceptions[i], t)
  /\ LET day == Regular[DayOf(t)] IN
     day.status = "open" /\ day.open <= TimeOf(t) /\ TimeOf(t) < day.close

\* Every nonempty set of naturals has a least element.
LEMMA LeastNatural ==
  ASSUME NEW S \in SUBSET Nat, S # {}
  PROVE \E m \in S : \A n \in S : m <= n
<1>1. \E R : IsWellFoundedOn(R, Nat) /\ \A m, n \in Nat : <<n, m>> \in R <=> n < m
  <2>1. \A m, n \in Nat : <<n, m>> \in OpToRel(<, Nat) <=> n < m
    BY DEF OpToRel
  <2> QED BY NatLessThanWellFounded, <2>1
<1>2. PICK R : IsWellFoundedOn(R, Nat) /\ \A m, n \in Nat : <<n, m>> \in R <=> n < m
  BY <1>1
<1>3. PICK m \in S : \A n \in S : ~(<<n, m>> \in R)
  BY <1>2, WFMin
<1>4. ASSUME NEW n \in S PROVE m <= n
  <2>1. m \in Nat /\ n \in Nat /\ ~(<<n, m>> \in R)
    BY <1>3
  <2>2. ~(n < m)
    BY <1>2, <2>1
  <2> QED BY <2>1, <2>2
<1> QED BY <1>4

\* The first exception that speaks for an instant.
LEMMA FirstSpeaks ==
  ASSUME NEW t, NEW i \in 1..Len(Exceptions), Speaks(Exceptions[i], t)
  PROVE  LET speaking == {k \in 1..Len(Exceptions) : Speaks(Exceptions[k], t)}
         IN  /\ speaking # {}
             /\ (CHOOSE k \in speaking : \A j \in speaking : k <= j) \in speaking
<1> DEFINE speaking == {k \in 1..Len(Exceptions) : Speaks(Exceptions[k], t)}
<1>1. speaking \in SUBSET Nat /\ speaking # {}
  OBVIOUS
<1> HIDE DEF speaking
<1>2. \E k \in speaking : \A j \in speaking : k <= j
  BY <1>1, LeastNatural
<1>3. (CHOOSE k \in speaking : \A j \in speaking : k <= j) \in speaking
  BY <1>2
<1> QED BY <1>1, <1>3 DEF speaking

LEMMA WhenOpen ==
  ASSUME NEW t \in Int, OperatingStatus(t)
  PROVE  (\E i \in 1..Len(Exceptions) : OpenBy(i, t)) \/ RegularlyOpen(t)
<1>1. CASE \A i \in 1..Len(Exceptions) : ~Speaks(Exceptions[i], t)
  BY <1>1 DEF OperatingStatus, RegularlyOpen
<1>2. ASSUME NEW i \in 1..Len(Exceptions), Speaks(Exceptions[i], t)
      PROVE  \E k \in 1..Len(Exceptions) : OpenBy(k, t)
  <2> DEFINE speaking == {k \in 1..Len(Exceptions) : Speaks(Exceptions[k], t)}
             c == CHOOSE k \in speaking : \A j \in speaking : k <= j
  <2>1. speaking # {} /\ c \in speaking
    BY <1>2, FirstSpeaks
  <2>2. Holiday(Exceptions[c]) /\ Exceptions[c].from <= t /\ t < Exceptions[c].to
    BY <2>1 DEF OperatingStatus
  <2>3. c \in 1..Len(Exceptions) /\ Speaks(Exceptions[c], t)
    BY <2>1
  <2> HIDE DEF c, speaking
  <2>4. DayOf(t) = DayOf(Exceptions[c].from)
    BY <2>2, <2>3, ScheduleAssumption DEF ScheduleTyped, Speaks
  <2> QED BY <2>2, <2>3, <2>4 DEF OpenBy
<1> QED BY <1>1, <1>2

LEMMA OpenWhen ==
  ASSUME NEW t \in Int, (\E i \in 1..Len(Exceptions) : OpenBy(i, t)) \/ RegularlyOpen(t)
  PROVE  OperatingStatus(t)
<1>1. CASE RegularlyOpen(t)
  BY <1>1 DEF OperatingStatus, RegularlyOpen
<1>2. ASSUME NEW i \in 1..Len(Exceptions), OpenBy(i, t) PROVE OperatingStatus(t)
  <2> DEFINE speaking == {k \in 1..Len(Exceptions) : Speaks(Exceptions[k], t)}
             c == CHOOSE k \in speaking : \A j \in speaking : k <= j
  <2>1. Speaks(Exceptions[i], t)
    BY <1>2 DEF OpenBy, Speaks
  <2>2. speaking # {} /\ c \in speaking
    BY <2>1, FirstSpeaks
  <2>3. c \in 1..Len(Exceptions) /\ Speaks(Exceptions[c], t)
    BY <2>2
  <2>4. SUFFICES ASSUME TRUE PROVE Holiday(Exceptions[c]) /\ Exceptions[c].from <= t /\ t < Exceptions[c].to
    BY <2>2 DEF OperatingStatus
  <2> HIDE DEF c, speaking
  <2>5. c = i
    <3>1. SUFFICES ASSUME c # i PROVE FALSE
      OBVIOUS
    <3>2. /\ Exceptions[c].from \in Int /\ Exceptions[c].to \in Int
          /\ Exceptions[c].status = "closed" => ~Holiday(Exceptions[c])
      BY <2>3, ScheduleAssumption DEF ScheduleTyped, Instants
    <3>3. IF Holiday(Exceptions[c]) THEN DayOf(Exceptions[i].from) # DayOf(Exceptions[c].from)
          ELSE \A u \in Exceptions[c].from..Exceptions[c].to - 1 : DayOf(Exceptions[i].from) # DayOf(u)
      BY <1>2, <2>3, <3>1, ScheduleAssumption DEF HolidaysAreAlone, OpenBy
    <3>4. CASE Holiday(Exceptions[c])
      BY <1>2, <2>3, <3>2, <3>3, <3>4 DEF OpenBy, Speaks
    <3>5. CASE ~Holiday(Exceptions[c])
      <4>1. t \in Exceptions[c].from..Exceptions[c].to - 1
        BY <2>3, <3>2, <3>5 DEF Speaks
      <4> QED BY <1>2, <3>3, <3>5, <4>1 DEF OpenBy
    <3> QED BY <3>4, <3>5
  <2> QED BY <1>2, <2>5 DEF OpenBy
<1> QED BY <1>1, <1>2

\* The restaurant opens so late in the day that a stay which ends when it is
\* open began on the same day.
LEMMA OpensLate ==
  ASSUME NEW t \in Instants, OperatingStatus(t)
  PROVE  Stay - 1 <= TimeOf(t)
<1>0. t \in Int /\ Stay \in Nat \ {0}
  BY ScheduleAssumption DEF ScheduleTyped, Instants
<1>1. ASSUME NEW i \in 1..Len(Exceptions), OpenBy(i, t) PROVE Stay - 1 <= TimeOf(t)
  <2> DEFINE from == Exceptions[i].from
  <2>1. /\ from \in Int /\ DayOf(t) = DayOf(from) /\ from <= t /\ Stay - 1 <= TimeOf(from)
    <3>1. Holiday(Exceptions[i]) /\ DayOf(t) = DayOf(from) /\ from <= t
      BY <1>1 DEF OpenBy
    <3>2. from \in Int /\ TimeOf(from) >= Stay - 1
      BY <3>1, ExceptionFacts
    <3>3. TimeOf(from) \in Int
      BY <3>2, TimeIsNat, Zenon
    <3> QED BY <1>0, <3>1, <3>2, <3>3
  <2> HIDE DEF from
  <2>2. /\ from = DayTicks * DayOf(from) + TimeOf(from) /\ TimeOf(from) \in Int
        /\ t = DayTicks * DayOf(from) + TimeOf(t) /\ TimeOf(t) \in Int
        /\ DayTicks * DayOf(from) \in Int
    BY <1>0, <2>1, Calendar, ScheduleAssumption DEF ScheduleTyped
  <2> DEFINE x == DayTicks * DayOf(from)
  <2> HIDE DEF x
  <2>3. TimeOf(from) <= TimeOf(t)
    BY <1>0, <2>1, <2>2 DEF x
  <2> QED BY <1>0, <2>1, <2>2, <2>3
<1>2. CASE RegularlyOpen(t)
  <2>1. DayOf(t) \in 0..Days - 1 /\ TimeOf(t) \in Int
    BY <1>0, DayKnown, Calendar
  <2>2. Regular[DayOf(t)].open \in Nat /\ Regular[DayOf(t)].open >= Stay - 1
    BY <1>2, <2>1, ScheduleAssumption DEF ScheduleTyped, DaysBeginLate, RegularlyOpen
  <2> QED BY <1>0, <1>2, <2>1, <2>2 DEF RegularlyOpen
<1> QED BY <1>0, <1>1, <1>2, WhenOpen

\* The instants of a stay whose first and last instant are open.
StayAt(t) == t \in Nat /\ t + Stay - 1 \in Instants /\ ReservationOpen(t)

LEMMA StayIsOneDay ==
  ASSUME NEW t, StayAt(t), NEW u \in t..(t + Stay - 1)
  PROVE  /\ u \in Instants /\ DayOf(u) = DayOf(t) /\ TimeOf(u) = TimeOf(t) + (u - t)
         /\ TimeOf(t) \in Nat
<1> DEFINE last == t + Stay - 1
<1>0. Stay \in Nat \ {0} /\ t \in Nat /\ last \in Instants /\ OperatingStatus(last) /\ last \in Int
  BY ScheduleAssumption DEF ScheduleTyped, StayAt, ReservationOpen, Instants
<1>1. Stay - 1 <= TimeOf(last) /\ TimeOf(last) \in Int
  BY <1>0, OpensLate, Calendar
<1>2. ASSUME NEW v \in t..(t + Stay - 1)
      PROVE  DayOf(v) = DayOf(last) /\ TimeOf(v) = TimeOf(last) - (last - v)
  <2> DEFINE n == last - v
  <2>1. n \in Nat /\ n <= Stay - 1 /\ last - n = v
    BY <1>0
  <2> HIDE DEF n
  <2>2. n <= TimeOf(last)
    BY <1>0, <1>1, <2>1
  <2>3. DayOf(last - n) = DayOf(last) /\ TimeOf(last - n) = TimeOf(last) - n
    BY <1>0, <2>1, <2>2, SameDay
  <2> QED BY <2>1, <2>3 DEF n
<1>3. t \in t..(t + Stay - 1)
  BY <1>0
<1>4. TimeOf(t) = TimeOf(last) - (last - t) /\ TimeOf(u) = TimeOf(last) - (last - u)
  BY <1>2, <1>3
<1>5. DayOf(u) = DayOf(t)
  BY <1>2, <1>3
<1>6. u \in Instants
  BY <1>0, InstantsAreDense
<1>7. TimeOf(t) \in Nat
  BY <1>0, Calendar, ScheduleAssumption DEF ScheduleTyped
<1> HIDE DEF last
<1>8. TimeOf(u) = TimeOf(t) + (u - t)
  BY <1>0, <1>1, <1>4
<1> QED BY <1>5, <1>6, <1>7, <1>8

\* It is open all the time: by the same hours of a holiday, or by the regular
\* hours, with no closure between.
LEMMA StayIsOpenAllTheTime ==
  ASSUME NEW t, StayAt(t), NEW u \in t..(t + Stay - 1)
  PROVE  DeclaredOpen(u) /\ OperatingStatus(u)
<1> DEFINE last == t + Stay - 1
<1>0. /\ Stay \in Nat \ {0} /\ t \in Nat /\ last \in Int /\ u \in Int
      /\ OperatingStatus(t) /\ OperatingStatus(last)
  BY ScheduleAssumption DEF ScheduleTyped, StayAt, ReservationOpen, Instants
<1>1. t \in t..last /\ last \in t..last
  BY <1>0
<1>2. /\ DayOf(u) = DayOf(t) /\ DayOf(last) = DayOf(t) /\ DayOf(t) \in 0..Days - 1
      /\ TimeOf(u) = TimeOf(t) + (u - t) /\ TimeOf(last) = TimeOf(t) + (last - t)
      /\ TimeOf(t) \in Nat
  BY <1>1, StayIsOneDay, DayKnown
<1>3. t <= u /\ u <= last /\ last = t + Stay - 1
  BY <1>0
<1> HIDE DEF last
<1>4. \A k \in 1..Len(Exceptions) :
        /\ Exceptions[k].from \in Int /\ Exceptions[k].to \in Int
        /\ Exceptions[k].to - Exceptions[k].from >= Stay
        /\ Holiday(Exceptions[k]) <=> Exceptions[k].status # "closed"
  BY ExceptionFacts
<1>5. ASSUME NEW i \in 1..Len(Exceptions), OpenBy(i, last)
      PROVE  OpenBy(i, u) /\ DeclaredOpen(u)
  <2>1. Speaks(Exceptions[i], t)
    BY <1>2, <1>5 DEF OpenBy, Speaks
  <2>2. PICK j \in 1..Len(Exceptions) : OpenBy(j, t)
    BY <1>0, <2>1, WhenOpen DEF RegularlyOpen
  <2>3. j = i
    BY <1>2, <1>5, <2>2, ScheduleAssumption DEF OpenBy, HolidaysAreAlone
  <2>4. OpenBy(i, u)
    BY <1>0, <1>2, <1>3, <1>4, <1>5, <2>2, <2>3 DEF OpenBy
  <2>5. ASSUME NEW k \in 1..Len(Exceptions), k # i, Holiday(Exceptions[k])
        PROVE  DayOf(u) # DayOf(Exceptions[k].from)
    BY <2>4, <2>5, ScheduleAssumption DEF OpenBy, HolidaysAreAlone
  <2>6. ASSUME NEW k \in 1..Len(Exceptions), ~Holiday(Exceptions[k])
        PROVE  u < Exceptions[k].from \/ Exceptions[k].to <= u
    <3>1. \A v \in Exceptions[k].from..Exceptions[k].to - 1 : DayOf(Exceptions[i].from) # DayOf(v)
      BY <2>4, <2>6, ScheduleAssumption DEF OpenBy, HolidaysAreAlone
    <3>2. u \notin Exceptions[k].from..Exceptions[k].to - 1
      BY <2>4, <3>1 DEF OpenBy
    <3> QED BY <1>0, <1>4, <3>2
  <2> QED BY <2>4, <2>5, <2>6 DEF DeclaredOpen, OpenBy
<1>6. CASE RegularlyOpen(last)
  <2>1. RegularlyOpen(t)
    <3>1. ASSUME NEW j \in 1..Len(Exceptions), OpenBy(j, t) PROVE FALSE
      <4>1. Speaks(Exceptions[j], last)
        BY <1>2, <3>1 DEF OpenBy, Speaks
      <4> QED BY <1>6, <4>1 DEF RegularlyOpen
    <3> QED BY <1>0, <3>1, WhenOpen
  <2>2. ASSUME NEW k \in 1..Len(Exceptions) PROVE ~Speaks(Exceptions[k], u)
    <3>1. /\ Holiday(Exceptions[k]) => DayOf(u) # DayOf(Exceptions[k].from)
      BY <1>2, <2>1 DEF RegularlyOpen, Speaks
    <3>2. ~Holiday(Exceptions[k]) => ~(Exceptions[k].from <= u /\ u < Exceptions[k].to)
      <4>1. SUFFICES ASSUME Exceptions[k].status = "closed", Exceptions[k].from <= u, u < Exceptions[k].to
                     PROVE  FALSE
        BY <1>4
      <4>2. /\ ~(Exceptions[k].from <= t /\ t < Exceptions[k].to)
            /\ ~(Exceptions[k].from <= last /\ last < Exceptions[k].to)
        BY <1>6, <2>1, <4>1 DEF RegularlyOpen, Speaks
      <4> QED BY <1>0, <1>3, <1>4, <4>1, <4>2
    <3> QED BY <1>4, <3>1, <3>2 DEF Speaks
  <2>3. Regular[DayOf(t)].open \in Nat /\ Regular[DayOf(t)].close \in Nat
    BY <1>2, ScheduleAssumption DEF ScheduleTyped
  <2>4. LET day == Regular[DayOf(u)] IN
        day.status = "open" /\ day.open <= TimeOf(u) /\ TimeOf(u) < day.close
    <3>1. /\ Regular[DayOf(t)].status = "open" /\ Regular[DayOf(t)].open <= TimeOf(t)
          /\ TimeOf(last) < Regular[DayOf(t)].close
      BY <1>2, <1>6, <2>1 DEF RegularlyOpen
    <3> DEFINE o == Regular[DayOf(t)].open
               c == Regular[DayOf(t)].close
    <3> HIDE DEF o, c
    <3>2. o <= TimeOf(u) /\ TimeOf(u) < c
      BY <1>0, <1>2, <1>3, <2>3, <3>1 DEF o, c
    <3> QED BY <1>2, <3>1, <3>2 DEF o, c
  <2>5. RegularlyOpen(u)
    BY <2>2, <2>4 DEF RegularlyOpen
  <2>6. DeclaredOpen(u)
    <3>1. ASSUME NEW k \in 1..Len(Exceptions)
          PROVE  IF Holiday(Exceptions[k]) THEN DayOf(u) # DayOf(Exceptions[k].from)
                 ELSE ~(Exceptions[k].from <= u /\ u < Exceptions[k].to)
      BY <1>4, <2>2 DEF Speaks
    <3>2. ASSUME NEW k \in 1..Len(Exceptions), ~Holiday(Exceptions[k])
          PROVE  u < Exceptions[k].from \/ Exceptions[k].to <= u
      BY <1>0, <1>4, <3>1, <3>2
    <3> QED BY <2>4, <3>1, <3>2 DEF DeclaredOpen
  <2> QED BY <1>0, <2>5, <2>6, OpenWhen
<1>7. (\E i \in 1..Len(Exceptions) : OpenBy(i, last)) \/ RegularlyOpen(last)
  BY <1>0, WhenOpen
<1> QED BY <1>0, <1>5, <1>6, <1>7, OpenWhen

\* And the patio, when its hours cover the stay from its first instant.
LEMMA PatioIsOpenAllTheTime ==
  ASSUME NEW t, StayAt(t), ScheduleStatus("patio", t, Stay, FALSE), NEW u \in t..(t + Stay - 1)
  PROVE  ScheduleStatus("patio", u, 0, FALSE)
<1>0. Stay \in Nat \ {0} /\ t \in Nat /\ u \in Int /\ t <= u /\ u <= t + Stay - 1
  BY ScheduleAssumption DEF ScheduleTyped, StayAt
<1>1. /\ OperatingStatus(u) /\ DayOf(u) = DayOf(t) /\ TimeOf(u) = TimeOf(t) + (u - t)
      /\ TimeOf(t) \in Nat /\ DayOf(u) \in 0..Days - 1
  BY StayIsOpenAllTheTime, StayIsOneDay, DayKnown
<1>2. "patio" \in DOMAIN Fulfillment
  BY DEF ScheduleStatus
<1> DEFINE o == Fulfillment["patio"].open
           c == Fulfillment["patio"].close[DayOf(t)]
<1>3. o \in Nat /\ c \in Nat
  BY <1>1, <1>2, ScheduleAssumption DEF ScheduleTyped
<1>4. /\ o <= TimeOf(t) /\ TimeOf(t) + Stay <= c - 0
      /\ DayOf(t) \in Fulfillment["patio"].days
  BY DEF ScheduleStatus
<1> HIDE DEF o, c
<1>5. o <= TimeOf(u) /\ TimeOf(u) < c - 0 /\ TimeOf(u) + 0 <= c - 0
  BY <1>0, <1>1, <1>3, <1>4
<1> QED BY <1>1, <1>2, <1>4, <1>5 DEF ScheduleStatus, o, c

-----------------------------------------------------------------------------
(* Tables.                                                                   *)

\* A check without an error has passed each of its tests.
LEMMA NoErrorOfTwo ==
  ASSUME NEW a, NEW b
  PROVE  FirstError(<<a, b>>) = None <=> a \in {None, ""} /\ b \in {None, ""}
<1> DEFINE s == <<a, b>>
           raised == {i \in 1..Len(s) : s[i] \notin {None, ""}}
           first == CHOOSE i \in raised : \A j \in raised : i <= j
<1>1. s[1] = a /\ s[2] = b /\ 1..Len(s) = {1, 2}
  OBVIOUS
<1> HIDE DEF s
<1>2. FirstError(s) = IF raised = {} THEN None ELSE s[first]
  BY DEF FirstError
<1>3. raised \in SUBSET Nat
  <2>1. 1..Len(s) \subseteq Nat
    BY <1>1
  <2> QED BY <2>1, Zenon
<1>4. ASSUME raised # {} PROVE s[first] # None
  <2>1. \E i \in raised : \A j \in raised : i <= j
    BY <1>3, <1>4, LeastNatural
  <2>2. first \in raised
    BY <2>1
  <2> QED BY <2>2
<1>5. raised = {} <=> a \in {None, ""} /\ b \in {None, ""}
  BY <1>1, Zenon
<1> HIDE DEF raised, first
<1> QED BY <1>2, <1>4, <1>5 DEF s

LEMMA NoErrorOfThree ==
  ASSUME NEW a, NEW b, NEW c
  PROVE  FirstError(<<a, b, c>>) = None <=>
           a \in {None, ""} /\ b \in {None, ""} /\ c \in {None, ""}
<1> DEFINE s == <<a, b, c>>
           raised == {i \in 1..Len(s) : s[i] \notin {None, ""}}
           first == CHOOSE i \in raised : \A j \in raised : i <= j
<1>1. s[1] = a /\ s[2] = b /\ s[3] = c /\ 1..Len(s) = {1, 2, 3}
  OBVIOUS
<1> HIDE DEF s
<1>2. FirstError(s) = IF raised = {} THEN None ELSE s[first]
  BY DEF FirstError
<1>3. raised \in SUBSET Nat
  <2>1. 1..Len(s) \subseteq Nat
    BY <1>1
  <2> QED BY <2>1, Zenon
<1>4. ASSUME raised # {} PROVE s[first] # None
  <2>1. \E i \in raised : \A j \in raised : i <= j
    BY <1>3, <1>4, LeastNatural
  <2>2. first \in raised
    BY <2>1
  <2> QED BY <2>2
<1>5. raised = {} <=> a \in {None, ""} /\ b \in {None, ""} /\ c \in {None, ""}
  BY <1>1, Zenon
<1> HIDE DEF raised, first
<1> QED BY <1>2, <1>4, <1>5 DEF s

LEMMA Acceptable ==
  ASSUME NEW t, NEW n, NEW moment, TablesError(t, n, moment) = None
  PROVE  ReservationOpen(t) /\ FirstError(<<ParseError(t, moment), PartyError(n)>>) = None
<1>1. /\ ParseError(t, moment) \in {None, ""} /\ PartyError(n) \in {None, ""}
      /\ (IF ReservationOpen(t) THEN None ELSE "restaurant_closed") \in {None, ""}
  BY NoErrorOfThree DEF TablesError
<1>2. ReservationOpen(t)
  BY <1>1, AvailabilityAssumption
<1> QED BY <1>1, <1>2, NoErrorOfTwo

\* ORDER BY capacity, table_number has a first row.
LEMMA SmallestIsThere ==
  ASSUME NEW ks \in SUBSET DOMAIN Tables, ks # {}
  PROVE  Smallest(ks) \in ks
<1>1. \A k \in ks : k \in Nat /\ Tables[k].capacity \in Nat
  BY AvailabilityAssumption
<1> DEFINE sizes == {Tables[k].capacity : k \in ks}
<1>2. sizes \in SUBSET Nat /\ sizes # {}
  BY <1>1
<1>3. PICK c \in sizes : \A d \in sizes : c <= d
  BY <1>2, LeastNatural
<1> DEFINE least == {k \in ks : Tables[k].capacity = c}
<1>4. least \in SUBSET Nat /\ least # {}
  BY <1>1, <1>3
<1>5. PICK k \in least : \A j \in least : k <= j
  BY <1>4, LeastNatural
<1>6. k \in ks /\ Tables[k].capacity = c
  BY <1>5
<1>7. ASSUME NEW j \in ks
      PROVE  \/ Tables[k].capacity < Tables[j].capacity
             \/ Tables[k].capacity = Tables[j].capacity /\ k <= j
  <2>1. Tables[j].capacity \in sizes /\ c <= Tables[j].capacity
    BY <1>3
  <2>2. CASE Tables[j].capacity = c
    BY <1>5, <1>6, <2>2
  <2>3. CASE Tables[j].capacity # c
    <3> DEFINE x == Tables[j].capacity
    <3>1. c \in Nat /\ x \in Nat /\ c <= x /\ x # c
      BY <1>1, <1>2, <2>1, <2>3
    <3> HIDE DEF x
    <3>2. c < x
      BY <3>1
    <3> QED BY <1>6, <3>2 DEF x
  <2> QED BY <2>2, <2>3
<1> QED BY <1>6, <1>7 DEF Smallest

\* A table that can be had stands where the area is open for the whole stay.
LEMMA FreeTable ==
  ASSUME NEW t, NEW n, NEW location, NEW bs, NEW k \in TablesAt(t, n, location, bs)
  PROVE  /\ k \in DOMAIN Tables /\ Tables[k].capacity >= n
         /\ location \in {NoPreference, Tables[k].location}
         /\ ~Taken(k, t, bs) /\ Tables[k].location \notin ClosedAreas(t, n)
         /\ Tables[k].location = "patio" => ScheduleStatus("patio", t, Stay, FALSE)
BY AvailabilityAssumption DEF TablesAt, ClosedAreas

-----------------------------------------------------------------------------
(* StayIsOpen: whatever writes the booking of the call has found the         *)
(* restaurant open at both ends, and a table of an open area.                *)

Sound(t, k) ==
  /\ t \in Asked /\ StayAt(t)
  /\ Tables[k].location = "patio" => ScheduleStatus("patio", t, Stay, FALSE)

MineInv == mine # None => mine \in Booking /\ Sound(mine.at, mine.table)

LEMMA SoundWrite ==
  ASSUME NEW t \in Asked, NEW n, NEW location, NEW bs, TablesError(t, n, now) = None,
         NEW k \in TablesAt(t, n, location, bs)
  PROVE  Sound(t, k)
<1>1. t \in Nat /\ t + Stay - 1 \in Instants
  BY AvailabilityAssumption
<1> QED BY <1>1, Acceptable, FreeTable DEF Sound, StayAt

LEMMA StandingIsSound ==
  ASSUME NEW b \in Foreign, NEW bs, Standing(b, bs)
  PROVE  b \in Booking /\ Sound(b.at, b.table)
<1>1. b \in Booking
  BY AvailabilityAssumption
<1>2. b.at \in Asked
  BY <1>1 DEF Booking
<1> QED BY <1>1, <1>2, SoundWrite DEF Standing

LEMMA InitMine == Init => MineInv
BY StandingIsSound DEF Init, MineInv

\* What a request has written.
LEMMA WrittenIsSound ==
  ASSUME NEW t \in Asked, NEW n \in Parties, NEW location, NEW bs,
         TablesError(t, n, now) = None, NEW k \in TablesAt(t, n, location, bs),
         mine' = [table |-> k, at |-> t, party |-> n]
  PROVE  MineInv'
<1>1. Sound(t, k) /\ k \in DOMAIN Tables
  BY SoundWrite, FreeTable
<1>2. mine'.at = t /\ mine'.table = k /\ mine' \in Booking
  BY <1>1 DEF Booking
<1> QED BY <1>1, <1>2 DEF MineInv, Sound, StayAt, Booking

\* What a step leaves alone, as far as the offer, the change and the booking go.
QuietStep == now' \in {now, now + 1} /\ UNCHANGED <<mine, change, offer, answer, checks>>
CheckStep == (\E q \in Query : Check(q)) /\ UNCHANGED <<now, mine, change>>
BookStep ==
  /\ \/ \E k \in DOMAIN Tables, t \in Asked, n \in Parties : BookChosen(k, t, n)
     \/ \E t \in Asked, n \in Parties, l \in Places : BookAny(t, n, l)
  /\ mine = None /\ UNCHANGED <<now, change, offer, answer, checks>>
ElsewhereStep ==
  /\ \E b \in Foreign : ChangedElsewhere(b)
  /\ UNCHANGED <<now, change, offer, answer, checks>>
AskStep ==
  /\ \E r \in Requests, d \in {Loaded, Hydrated} : AskChange(r, d)
  /\ change = None /\ UNCHANGED <<now, mine, offer, answer, checks>>
WriteStep == WriteChange /\ change # None /\ change' = None /\ UNCHANGED now
EndStep ==
  change' = None /\ offer' \in {None, offer} /\ UNCHANGED <<now, mine, answer, checks>>

LEMMA Steps ==
  ASSUME [Next]_vars
  PROVE  \/ QuietStep \/ CheckStep \/ BookStep \/ ElsewhereStep \/ AskStep \/ WriteStep \/ EndStep
<1>1. CASE UNCHANGED vars
  BY <1>1 DEF vars, memory, QuietStep
<1>2. ASSUME Tick PROVE QuietStep
  BY <1>2 DEF Tick, memory, QuietStep
<1>3. ASSUME BeginTurn PROVE QuietStep
  BY <1>3, Zenon DEF BeginTurn, QuietStep
<1>4. ASSUME NEW q \in Query, Check(q) PROVE CheckStep
  BY <1>4, Zenon DEF Check, CheckStep
<1>5. ASSUME NEW k \in DOMAIN Tables, NEW t \in Asked, OtherBooks(k, t) PROVE QuietStep
  BY <1>5, Zenon DEF OtherBooks, memory, QuietStep
<1>6. ASSUME NEW b \in others, OtherCancels(b) PROVE QuietStep
  BY <1>6, Zenon DEF OtherCancels, memory, QuietStep
<1>7. ASSUME NEW b \in Foreign, ChangedElsewhere(b) PROVE ElsewhereStep
  BY <1>7, Zenon DEF ChangedElsewhere, ElsewhereStep
<1>8. ASSUME NEW e \in Edits, UpdateDraft(e) PROVE QuietStep
  BY <1>8, Zenon DEF UpdateDraft, QuietStep
<1>9. ASSUME Refresh PROVE QuietStep
  BY <1>9, Zenon DEF Refresh, QuietStep
<1>10. ASSUME NEW k \in DOMAIN Tables, NEW t \in Asked, NEW n \in Parties, BookChosen(k, t, n)
       PROVE  BookStep
  BY <1>10, Zenon DEF BookChosen, BookStep
<1>11. ASSUME NEW t \in Asked, NEW n \in Parties, NEW l \in Places, BookAny(t, n, l)
       PROVE  BookStep
  BY <1>11, Zenon DEF BookAny, BookStep
<1>12. ASSUME NEW r \in Requests, NEW d \in {Loaded, Hydrated}, AskChange(r, d) PROVE AskStep
  BY <1>12, Zenon DEF AskChange, AskStep
<1>13. ASSUME WriteChange PROVE WriteStep
  BY <1>13, Zenon DEF WriteChange, WriteStep
<1>14. ASSUME DropChange \/ Restart PROVE EndStep
  BY <1>14, Zenon DEF DropChange, Restart, EndStep
<1> QED
  BY <1>1, <1>2, <1>3, <1>4, <1>5, <1>6, <1>7, <1>8, <1>9, <1>10, <1>11, <1>12, <1>13, <1>14, Zenon
  DEF Next

\* A change is that of a booking, and asked for.
ChangeInv == change # None => mine # None /\ change.request \in Requests

LEMMA WantedIsTyped ==
  ASSUME MineInv, ChangeInv, change # None
  PROVE  /\ mine \in Booking /\ Sound(mine.at, mine.table)
         /\ WantedAt \in Asked /\ WantedParty \in Parties
<1>1. mine \in Booking /\ Sound(mine.at, mine.table) /\ change.request \in Request
  BY AvailabilityAssumption DEF ChangeInv, MineInv
<1> DEFINE r == change.request
<1>2. r.at \in Asked \cup {None} /\ r.party \in Parties \cup {0}
  BY <1>1 DEF Request
<1>3. mine.at \in Asked /\ mine.party \in Parties
  BY <1>1 DEF Booking
<1> HIDE DEF r
<1> QED BY <1>1, <1>2, <1>3 DEF WantedAt, WantedParty, r

LEMMA Rewritten ==
  ASSUME MineInv, ChangeInv, WriteChange
  PROVE  \/ UNCHANGED mine
         \/ \E k \in TablesAt(WantedAt, WantedParty, change.request.location, others) :
              /\ TablesError(WantedAt, WantedParty, now) = None
              /\ mine' = [table |-> k, at |-> WantedAt, party |-> WantedParty]
<1> DEFINE ks == TablesAt(WantedAt, WantedParty, change.request.location, others)
<1>1. CASE Requeried /\ ks # {} /\ Written([table |-> Smallest(ks), at |-> WantedAt, party |-> WantedParty])
  <2>1. TablesError(WantedAt, WantedParty, now) = None
    BY <1>1 DEF WriteChange
  <2>2. ks \in SUBSET DOMAIN Tables
    BY FreeTable
  <2> HIDE DEF ks
  <2>3. Smallest(ks) \in ks
    BY <1>1, <2>2, SmallestIsThere
  <2>4. mine' = [table |-> Smallest(ks), at |-> WantedAt, party |-> WantedParty]
    BY <1>1 DEF Written
  <2> QED BY <2>1, <2>3, <2>4 DEF ks
<1>2. CASE UNCHANGED mine
  BY <1>2
<1> QED BY <1>1, <1>2 DEF WriteChange, Written

LEMMA NextMine == ASSUME MineInv, ChangeInv, [Next]_vars PROVE MineInv' /\ ChangeInv'
<1>1. ASSUME NEW k \in DOMAIN Tables, NEW t \in Asked, NEW n \in Parties, BookChosen(k, t, n)
      PROVE  MineInv'
  BY <1>1, WrittenIsSound DEF BookChosen, Written
<1>2. ASSUME NEW t \in Asked, NEW n \in Parties, NEW l \in Places, BookAny(t, n, l)
      PROVE  MineInv'
  <2> DEFINE ks == TablesAt(t, n, l, Bookings)
  <2>1. ks \in SUBSET DOMAIN Tables
    BY FreeTable
  <2>2. /\ ks # {} /\ TablesError(t, n, now) = None
        /\ mine' = [table |-> Smallest(ks), at |-> t, party |-> n]
    BY <1>2 DEF BookAny, Written
  <2>3. Smallest(ks) \in ks
    BY <2>1, <2>2, SmallestIsThere
  <2> QED BY <2>2, <2>3, WrittenIsSound
<1>3. ASSUME WriteChange PROVE MineInv'
  <2>1. CASE UNCHANGED mine
    BY <2>1 DEF MineInv, Sound, StayAt, Booking
  <2>2. ASSUME NEW k \in TablesAt(WantedAt, WantedParty, change.request.location, others),
               TablesError(WantedAt, WantedParty, now) = None,
               mine' = [table |-> k, at |-> WantedAt, party |-> WantedParty]
        PROVE  MineInv'
    <3>1. WantedAt \in Asked /\ WantedParty \in Parties
      BY <1>3, WantedIsTyped DEF WriteChange
    <3> QED BY <2>2, <3>1, WrittenIsSound
  <2> QED BY <1>3, <2>1, <2>2, Rewritten
<1>4. ASSUME NEW b \in Foreign, ChangedElsewhere(b) PROVE MineInv'
  <2>1. mine' = b /\ b \in Booking /\ Sound(b.at, b.table)
    BY <1>4, StandingIsSound DEF ChangedElsewhere
  <2> QED BY <2>1 DEF MineInv, Sound, StayAt, Booking
<1>5. ASSUME UNCHANGED mine PROVE MineInv'
  BY <1>5 DEF MineInv, Sound, StayAt, Booking
<1>6. MineInv'
  BY <1>1, <1>2, <1>3, <1>4, <1>5, Steps, Zenon
  DEF QuietStep, CheckStep, BookStep, ElsewhereStep, AskStep, WriteStep, EndStep
<1>7. ASSUME NEW r \in Requests, NEW d, AskChange(r, d) PROVE ChangeInv'
  <2>1. change' = [request |-> r, draft |-> d, turn |-> turn, clock |-> now] /\ UNCHANGED mine
        /\ mine # None
    BY <1>7 DEF AskChange
  <2>2. change'.request = r
    BY <2>1
  <2> QED BY <2>1, <2>2 DEF ChangeInv
<1>8. ASSUME change' = None PROVE ChangeInv'
  BY <1>8 DEF ChangeInv
<1>9. ASSUME UNCHANGED change, mine # None => mine' # None PROVE ChangeInv'
  BY <1>9 DEF ChangeInv
<1>10. None \notin Booking
  BY AvailabilityAssumption
<1>11. ASSUME BookStep PROVE ChangeInv'
  BY <1>9, <1>11 DEF BookStep
<1>13. ASSUME NEW b \in Foreign, ChangedElsewhere(b) PROVE ChangeInv'
  <2>1. mine' = b /\ b \in Booking /\ UNCHANGED change
    BY <1>13, AvailabilityAssumption DEF ChangedElsewhere
  <2> QED BY <1>9, <1>10, <2>1
<1>14. ChangeInv'
  BY <1>7, <1>8, <1>9, <1>11, <1>13, Steps, Zenon
  DEF QuietStep, CheckStep, ElsewhereStep, AskStep, WriteStep, EndStep
<1> QED BY <1>6, <1>14

\* No stay is accepted that the restaurant's hours, or the patio's, cut short,
\* although the code looks at its first and its last instant only
\* (services/restaurant.py:773).
THEOREM OpenThroughout == Spec => []StayIsOpen
<1>1. ASSUME MineInv PROVE StayIsOpen
  <2>1. SUFFICES ASSUME mine # None, NEW u \in mine.at..(mine.at + Stay - 1)
                 PROVE  /\ DeclaredOpen(u)
                        /\ Tables[mine.table].location = "patio" => ScheduleStatus("patio", u, 0, FALSE)
    BY DEF StayIsOpen
  <2> QED BY <1>1, <2>1, StayIsOpenAllTheTime, PatioIsOpenAllTheTime DEF MineInv, Sound
<1>2. Init => ChangeInv
  BY DEF Init, ChangeInv
<1> QED BY <1>1, <1>2, InitMine, NextMine, PTL DEF Spec

-----------------------------------------------------------------------------
(* PartyChangesAreCited: the offer in memory, if there is one, is the last   *)
(* that was made, and what a change cited is still among those.              *)

OfferInv ==
  /\ now \in Int
  /\ \E S : checks \in Seq(S)
  /\ offer # None => /\ offer.made \in Int
                     /\ checks # <<>> /\ offer = checks[Len(checks)]

LEMMA InitOffer == Init => OfferInv
<1> SUFFICES ASSUME Init PROVE OfferInv
  OBVIOUS
<1>1. now \in Int
  BY AvailabilityAssumption DEF Init
<1>2. checks \in Seq({}) /\ offer = None
  BY DEF Init
<1> QED BY <1>1, <1>2 DEF OfferInv

LEMMA RememberOffer ==
  ASSUME OfferInv, NEW a, Remember(a), UNCHANGED now
  PROVE  OfferInv'
<1>1. CASE UNCHANGED <<offer, checks>>
  BY <1>1 DEF OfferInv
<1>2. CASE /\ offer' = [query |-> a.query, tables |-> a.tables, turn |-> turn, made |-> now]
           /\ checks' = Append(checks, offer')
  <2>1. PICK S : checks \in Seq(S)
    BY DEF OfferInv
  <2> DEFINE o == offer'
  <2>2. o.made = now
    BY <1>2
  <2> HIDE DEF o
  <2>3. checks \in Seq(S \cup {o})
    BY <2>1, SeqMonotonic
  <2>4. /\ Append(checks, o) \in Seq(S \cup {o})
        /\ Len(Append(checks, o)) = Len(checks) + 1
        /\ Append(checks, o)[Len(checks) + 1] = o
    BY <2>3, AppendProperties
  <2>5. checks' = Append(checks, o) /\ Len(checks) \in Nat
    BY <1>2, <2>3 DEF o
  <2>6. checks' # <<>> /\ o = checks'[Len(checks')]
    BY <2>4, <2>5
  <2> QED BY <2>2, <2>4, <2>5, <2>6 DEF OfferInv, o
<1> QED BY <1>1, <1>2 DEF Remember

LEMMA NextOffer == ASSUME OfferInv, [Next]_vars PROVE OfferInv'
<1>1. CASE CheckStep
  BY <1>1, RememberOffer DEF CheckStep, Check
<1>2. CASE WriteStep
  <2>1. CASE UNCHANGED <<offer, checks>>
    BY <1>2, <2>1 DEF OfferInv, WriteStep
  <2>2. ASSUME NEW a, Remember(a) PROVE OfferInv'
    BY <1>2, <2>2, RememberOffer DEF WriteStep
  <2> QED BY <1>2, <2>1, <2>2 DEF WriteStep, WriteChange
<1>3. ASSUME now' \in {now, now + 1}, offer' \in {None, offer}, UNCHANGED checks PROVE OfferInv'
  BY <1>3 DEF OfferInv
<1> QED
  BY <1>1, <1>2, <1>3, Steps DEF QuietStep, BookStep, ElsewhereStep, AskStep, EndStep

\* The check o is one that the change c may cite.
Cites(c, o) ==
  /\ o.query.at = Slot(c.draft, c.request.at) /\ o.query.party = c.request.party /\ o.tables # {}
  /\ o.turn > 0 /\ c.turn - o.turn <= TurnAge /\ c.clock - o.made <= OfferTTL

CitedInv ==
  change # None /\ change.request.party \notin {0, change.draft.party} =>
    \E i \in DOMAIN checks : Cites(change, checks[i])

\* What was checked stays so.
LEMMA ChecksLast ==
  ASSUME OfferInv, [Next]_vars, NEW i \in DOMAIN checks
  PROVE  i \in DOMAIN checks' /\ checks'[i] = checks[i]
<1>1. CASE UNCHANGED checks
  BY <1>1
<1>2. ASSUME checks' = Append(checks, offer') PROVE i \in DOMAIN checks' /\ checks'[i] = checks[i]
  <2>1. PICK S : checks \in Seq(S)
    BY DEF OfferInv
  <2> DEFINE o == offer'
  <2> HIDE DEF o
  <2>2. checks \in Seq(S \cup {o})
    BY <2>1, SeqMonotonic
  <2>3. /\ Append(checks, o) \in Seq(S \cup {o}) /\ i \in 1..Len(checks)
        /\ Len(Append(checks, o)) = Len(checks) + 1
        /\ \A j \in 1..Len(checks) : Append(checks, o)[j] = checks[j]
    BY <2>2, AppendProperties
  <2>4. checks' = Append(checks, o)
    BY <1>2 DEF o
  <2> QED BY <2>2, <2>3, <2>4
<1>3. ASSUME CheckStep \/ WriteStep PROVE UNCHANGED checks \/ checks' = Append(checks, offer')
  BY <1>3, Zenon DEF CheckStep, Check, WriteStep, WriteChange, Remember
<1> QED
  BY <1>1, <1>2, <1>3, Steps DEF QuietStep, BookStep, ElsewhereStep, AskStep, EndStep

LEMMA NextCited == ASSUME OfferInv, CitedInv, [Next]_vars PROVE CitedInv'
<1>1. ASSUME NEW r \in Requests, NEW d, AskChange(r, d) PROVE CitedInv'
  <2> DEFINE c == [request |-> r, draft |-> d, turn |-> turn, clock |-> now]
  <2>1. /\ change' = c /\ UNCHANGED checks
        /\ r.party \notin {0, d.party} => FreshForParty(Slot(d, r.at), r.party, r.asked)
    BY <1>1 DEF AskChange
  <2>2. c.request = r /\ c.draft = d /\ c.turn = turn /\ c.clock = now
    OBVIOUS
  <2> HIDE DEF c
  <2>3. ASSUME FreshForParty(Slot(d, r.at), r.party, r.asked)
        PROVE  \E i \in DOMAIN checks : Cites(c, checks[i])
    <3>1. /\ offer # None /\ ~(now > offer.made + OfferTTL)
          /\ offer.turn > 0 /\ turn - offer.turn <= TurnAge
          /\ offer.query.at = Slot(d, r.at) /\ offer.query.party = r.party /\ offer.tables # {}
      BY <2>3 DEF FreshForParty, Expired
    <3>2. now \in Int /\ offer.made \in Int /\ OfferTTL \in Int
      BY <3>1, AvailabilityAssumption DEF OfferInv
    <3>3. now - offer.made <= OfferTTL
      BY <3>1, <3>2
    <3>4. Cites(c, offer)
      BY <2>2, <3>1, <3>3, Zenon DEF Cites
    <3>5. PICK S : checks \in Seq(S)
      BY DEF OfferInv
    <3>6. offer = checks[Len(checks)] /\ checks # <<>>
      BY <3>1 DEF OfferInv
    <3>7. Len(checks) \in DOMAIN checks
      BY <3>5, <3>6
    <3> QED BY <3>4, <3>6, <3>7
  <2>4. ASSUME NEW i \in DOMAIN checks, Cites(c, checks[i]) PROVE Cites(change', checks'[i])
    BY <2>1, <2>4
  <2> QED BY <2>1, <2>2, <2>3, <2>4 DEF CitedInv, Cites, Slot
<1>2. ASSUME change' = None PROVE CitedInv'
  BY <1>2 DEF CitedInv
<1>3. ASSUME UNCHANGED change PROVE CitedInv'
  <2>1. SUFFICES ASSUME change # None, change.request.party \notin {0, change.draft.party}
                 PROVE  \E i \in DOMAIN checks' : Cites(change, checks'[i])
    BY <1>3 DEF CitedInv, Cites, Slot
  <2>2. PICK i \in DOMAIN checks : Cites(change, checks[i])
    BY <2>1 DEF CitedInv
  <2>3. i \in DOMAIN checks' /\ checks'[i] = checks[i]
    BY <2>2, ChecksLast
  <2> QED BY <2>2, <2>3
<1> QED
  BY <1>1, <1>2, <1>3, Steps
  DEF QuietStep, CheckStep, BookStep, ElsewhereStep, AskStep, WriteStep, EndStep

\* Only a change that was asked for, carried out, ends with another party.
LEMMA OnlyWriteChange ==
  ASSUME [Next]_vars, change # None, change' = None, mine' # mine
  PROVE  WriteChange
BY Steps DEF QuietStep, CheckStep, BookStep, ElsewhereStep, AskStep, WriteStep, EndStep

\* A change of a booking's party rests on a check of this call, for the time and
\* the party the booking then has, that was recent and young when the change was
\* asked for, provided that the draft the code judged the change by described the
\* booking that its transaction meets (services/restaurant.py:1198-1224).
THEOREM ChangesAreCited == Spec => PartyChangesAreCited
<1> DEFINE Changed ==
      /\ change # None /\ change' = None /\ mine' # mine /\ mine'.party # mine.party
      /\ change.draft = Describing(mine)
           Cited ==
      \E i \in DOMAIN checks :
        LET o == checks[i] IN
        /\ o.query.at = mine'.at /\ o.query.party = mine'.party /\ o.tables # {}
        /\ o.turn > 0 /\ change.turn - o.turn <= TurnAge
        /\ change.clock - o.made <= OfferTTL
<1>1. ASSUME MineInv, ChangeInv, CitedInv, [Next]_vars, Changed PROVE Cited
  <2>1. WriteChange
    BY <1>1, OnlyWriteChange
  <2>2. /\ mine'.at = WantedAt /\ mine'.party = WantedParty
    <3>1. PICK k : mine' = [table |-> k, at |-> WantedAt, party |-> WantedParty]
      BY <1>1, <2>1, Rewritten
    <3> QED BY <3>1
  <2>3. change.draft.party = mine.party /\ change.draft.at = mine.at
    BY <1>1 DEF Describing
  <2>4. /\ change.request.party \notin {0, change.draft.party}
        /\ mine'.party = change.request.party
    BY <1>1, <2>2, <2>3 DEF WantedParty
  <2>5. PICK i \in DOMAIN checks : Cites(change, checks[i])
    BY <1>1, <2>4 DEF CitedInv
  <2>6. Slot(change.draft, change.request.at) = mine'.at
    BY <2>2, <2>3 DEF Slot, WantedAt
  <2> QED BY <2>4, <2>5, <2>6, Zenon DEF Cites
<1> HIDE DEF Changed, Cited
<1>2. ASSUME MineInv, ChangeInv, CitedInv, [Next]_vars PROVE [Changed => Cited]_vars
  BY <1>1, <1>2
<1>3. Init => ChangeInv /\ CitedInv
  BY DEF Init, ChangeInv, CitedInv
<1>4. Spec => [][Changed => Cited]_vars
  BY <1>2, <1>3, InitMine, NextMine, InitOffer, NextOffer, NextCited, PTL DEF Spec
<1> QED BY <1>4, PTL DEF PartyChangesAreCited, Changed, Cited

-----------------------------------------------------------------------------
(* AlternativesAreBookable: whatever the loop over nearby times and the      *)
(* search for other rooms collect can be had, and what is kept is of them.   *)

Ask(t, n, location) == [at |-> t, party |-> n, location |-> location]

Had(t, n, location, moment, bs) == Availability(Ask(t, n, location), moment, bs).tables # {}

LEMMA AnswerOf ==
  ASSUME NEW q, NEW moment, NEW bs
  PROVE  LET a == Availability(q, moment, bs)
             impossible == Impossible(q.party, q.location)
             alts == Alternatives(q, impossible, moment, bs)
         IN  /\ a.query = q
             /\ a.alternatives \in {<<>>, alts.found}
             /\ a.alternatives # <<>> =>
                  /\ alts.error = None /\ ReservationOpen(q.at)
                  /\ FirstError(<<ParseError(q.at, moment), PartyError(q.party)>>) = None
BY DEF Availability, Answered, Failed

LEMMA AnswerQuery ==
  \A q, moment, bs : Availability(q, moment, bs).query = q
BY AnswerOf

LEMMA AskedIsInt == Asked \subseteq Nat /\ Asked \subseteq Int
BY AvailabilityAssumption

LEMMA HadWhenFree ==
  ASSUME NEW t, NEW n, NEW location, NEW moment, NEW bs,
         TablesError(t, n, moment) = None, ~Impossible(n, location),
         TablesAt(t, n, location, bs) # {}
  PROVE  Had(t, n, location, moment, bs)
<1> DEFINE q == Ask(t, n, location)
<1>1. q.at = t /\ q.party = n /\ q.location = location
  BY DEF Ask
<1>2. ReservationOpen(t) /\ FirstError(<<ParseError(t, moment), PartyError(n)>>) = None
  BY Acceptable
<1> HIDE DEF q
<1>3. Availability(q, moment, bs).tables = TablesAt(t, n, location, bs)
  BY <1>1, <1>2 DEF Availability, Answered, Failed
<1> QED BY <1>3 DEF Had, q

\* The alternatives at the same place, and at the same time.
SameRoom(q, moment, bs) ==
  {[at |-> t, location |-> q.location] :
     t \in {u \in Int : /\ TablesError(u, q.party, moment) = None
                        /\ TablesAt(u, q.party, q.location, bs) # {}}}

SameTime(q, bs) ==
  {[at |-> q.at, location |-> Tables[k].location] :
     k \in {j \in TablesAt(q.at, q.party, NoPreference, bs) : Tables[j].location # q.location}}

Collected(acc, S) ==
  \E f, e : acc = [found |-> f, error |-> e] /\ (e = None => f \in Seq(S))

LEMMA OneMoreTime ==
  ASSUME NEW q, NEW moment, NEW bs, NEW t \in Int, NEW acc, Collected(acc, SameRoom(q, moment, bs))
  PROVE  Collected(NextAlternative(acc, q, t, moment, bs), SameRoom(q, moment, bs))
<1> DEFINE S == SameRoom(q, moment, bs)
           x == [at |-> t, location |-> q.location]
           err == TablesError(t, q.party, moment)
           ks == TablesAt(t, q.party, q.location, bs)
<1>1. PICK f, e : acc = [found |-> f, error |-> e] /\ (e = None => f \in Seq(S))
  BY DEF Collected
<1>2. acc.error = e /\ acc.found = f
  BY <1>1
<1>3. err = None /\ ks # {} => x \in S
  BY DEF SameRoom
<1>4. NextAlternative(acc, q, t, moment, bs) =
        IF e # None \/ Len(f) = 2 \/ ~ReservationOpen(t) THEN acc
        ELSE [acc EXCEPT !.error = err, !.found = IF ks = {} THEN @ ELSE Append(@, x)]
  BY <1>2 DEF NextAlternative
<1> HIDE DEF S, x, err, ks
<1>5. CASE e # None \/ Len(f) = 2 \/ ~ReservationOpen(t)
  BY <1>4, <1>5 DEF S
<1>6. CASE ~(e # None \/ Len(f) = 2 \/ ~ReservationOpen(t))
  <2> DEFINE g == IF ks = {} THEN f ELSE Append(f, x)
  <2>1. NextAlternative(acc, q, t, moment, bs) = [found |-> g, error |-> err]
    BY <1>1, <1>4, <1>6
  <2>2. err = None => g \in Seq(S)
    BY <1>1, <1>3, <1>6, AppendProperties
  <2> HIDE DEF g
  <2> QED BY <2>1, <2>2 DEF Collected, S
<1> QED BY <1>5, <1>6

LEMMA AllTimes ==
  ASSUME NEW q, q.at \in Int, NEW moment, NEW bs
  PROVE  Collected(TimeAlternatives(q, moment, bs), SameRoom(q, moment, bs))
<1> DEFINE S == SameRoom(q, moment, bs)
           T(acc, d) == NextAlternative(acc, q, q.at + d, moment, bs)
           start == [found |-> <<>>, error |-> None]
<1>1. ASSUME NEW acc, NEW d \in Int, Collected(acc, S) PROVE Collected(T(acc, d), S)
  <2>1. q.at + d \in Int
    OBVIOUS
  <2> QED BY <1>1, <2>1, OneMoreTime
<1>2. Collected(start, S)
  <2>1. <<>> \in Seq(S)
    OBVIOUS
  <2> HIDE DEF S
  <2> QED BY <2>1 DEF Collected
<1>3. TimeAlternatives(q, moment, bs) = T(T(T(T(T(T(start, -2), 2), -4), 4), -1), 1)
  BY DEF TimeAlternatives
<1> HIDE DEF S, T, start
<1>4. Collected(T(T(start, -2), 2), S)
  BY <1>1, <1>2
<1>5. Collected(T(T(T(T(start, -2), 2), -4), 4), S)
  BY <1>1, <1>4
<1> QED BY <1>1, <1>3, <1>5 DEF S

LEMMA AllRooms ==
  ASSUME NEW q, NEW bs
  PROVE  LocationAlternatives(q, bs) \in Seq(SameTime(q, bs))
<1> DEFINE S == SameTime(q, bs)
           ks == {j \in TablesAt(q.at, q.party, NoPreference, bs) : Tables[j].location # q.location}
           f == [k \in ks |-> [at |-> q.at, location |-> Tables[k].location]]
<1>1. IsFiniteSet(ks)
  <2>1. ks \subseteq DOMAIN Tables
    BY FreeTable
  <2> QED BY <2>1, AvailabilityAssumption, FS_Subset
<1>2. f \in Surjection(ks, S)
  BY DEF Surjection, SameTime
<1>3. IsFiniteSet(S)
  BY <1>1, <1>2, FS_Surjection
<1>4. Cardinality(S) \in Nat /\ ExistsBijection(1..Cardinality(S), S)
  BY <1>3, FS_CardinalityType
<1>5. LocationAlternatives(q, bs) = SetToSeq(S)
  BY DEF LocationAlternatives, SameTime
<1> HIDE DEF S
<1>6. \E g \in [1..Cardinality(S) -> S] : IsInjective(g)
  BY <1>4 DEF ExistsBijection, Bijection, Injection, IsInjective
<1>7. SetToSeq(S) \in [1..Cardinality(S) -> S]
  BY <1>6 DEF SetToSeq
<1> QED BY <1>4, <1>5, <1>7 DEF S

\* What is kept of two lists.
LEMMA KeptOfBoth ==
  ASSUME NEW S, NEW f \in Seq(S), NEW places \in Seq(S)
  PROVE  Kept([found |-> f, error |-> None], places).found \in Seq(S)
<1> DEFINE s == f \o places
           m == Min({2, Len(s)})
<1>1. s \in Seq(S) /\ Len(s) \in Nat
  BY ConcatProperties
<1>2. m \in 0..Len(s)
  <2> DEFINE n == Len(s)
  <2>1. n \in Nat
    BY <1>1
  <2> HIDE DEF n
  <2>2. \E x \in {2, n} : \A y \in {2, n} : x <= y
    BY <2>1
  <2>3. Min({2, n}) \in {2, n} /\ \A y \in {2, n} : Min({2, n}) <= y
    BY <2>2 DEF Min
  <2> QED BY <2>1, <2>3 DEF n
<1>3. SubSeq(s, 1, m) \in Seq(S)
  <2> HIDE DEF s, m
  <2>1. 1 \in 1..Len(s) + 1 /\ m \in (1 - 1)..Len(s)
    BY <1>1, <1>2
  <2> QED BY <1>1, <2>1, SubSeqProperties
<1>4. f # <<>> /\ places # <<>> => <<Head(f), Head(places)>> \in Seq(S)
  <2>1. f # <<>> => Head(f) \in S
    BY HeadTailProperties
  <2>2. places # <<>> => Head(places) \in S
    BY HeadTailProperties
  <2> QED BY <2>1, <2>2
<1>5. Kept([found |-> f, error |-> None], places).found =
        IF f # <<>> /\ places # <<>> THEN <<Head(f), Head(places)>> ELSE SubSeq(s, 1, m)
  BY DEF Kept
<1> QED BY <1>3, <1>4, <1>5

LEMMA KeptError ==
  ASSUME NEW f, NEW e, NEW places
  PROVE  Kept([found |-> f, error |-> e], places).error = e
BY DEF Kept

\* A table in another room makes that room an alternative that can be had.
LEMMA RoomHad ==
  ASSUME NEW q, NEW moment, NEW bs, NEW alt \in SameTime(q, bs),
         TablesError(q.at, q.party, moment) = None
  PROVE  /\ alt.at = q.at /\ ~Impossible(q.party, alt.location)
         /\ TablesError(alt.at, q.party, moment) = None
         /\ TablesAt(alt.at, q.party, alt.location, bs) # {}
<1>1. PICK k \in TablesAt(q.at, q.party, NoPreference, bs) :
        alt = [at |-> q.at, location |-> Tables[k].location]
  BY DEF SameTime
<1> DEFINE l == Tables[k].location
<1>2. /\ k \in DOMAIN Tables /\ Tables[k].capacity >= q.party
      /\ ~Taken(k, q.at, bs) /\ l \notin ClosedAreas(q.at, q.party)
  BY <1>1, FreeTable
<1>3. alt.at = q.at /\ alt.location = l
  BY <1>1
<1>4. k \in TablesAt(q.at, q.party, l, bs)
  BY <1>2 DEF TablesAt
<1>5. q.party \in Int
  <2>1. PartyError(q.party) \in {None, ""}
    BY NoErrorOfThree DEF TablesError
  <2>2. None # "large_party"
    BY AvailabilityAssumption
  <2> QED BY <2>1, <2>2 DEF PartyError
<1>6. ~TooMany(q.party, l)
  <2>1. Tables[k].capacity \in Nat
    BY <1>2, AvailabilityAssumption
  <2> QED BY <1>2, <1>5, <2>1 DEF TooMany
<1> QED BY <1>3, <1>4, <1>6 DEF Impossible

LEMMA AlternativeIsHad ==
  ASSUME NEW q, q.at \in Int, NEW moment, NEW bs,
         NEW i \in DOMAIN Availability(q, moment, bs).alternatives
  PROVE  LET alt == Availability(q, moment, bs).alternatives[i]
         IN  Had(alt.at, q.party, alt.location, moment, bs)
<1> DEFINE a == Availability(q, moment, bs)
           alts == Alternatives(q, Impossible(q.party, q.location), moment, bs)
           S == SameRoom(q, moment, bs)
           T == SameTime(q, bs)
<1>1. /\ a.alternatives = alts.found /\ alts.error = None
      /\ TablesError(q.at, q.party, moment) = None
  <2>1. a.alternatives # <<>>
    OBVIOUS
  <2>2. /\ a.alternatives = alts.found /\ alts.error = None /\ ReservationOpen(q.at)
        /\ FirstError(<<ParseError(q.at, moment), PartyError(q.party)>>) = None
    BY <2>1, AnswerOf
  <2>3. /\ ParseError(q.at, moment) \in {None, ""} /\ PartyError(q.party) \in {None, ""}
    BY <2>2, NoErrorOfTwo
  <2> QED BY <2>2, <2>3, NoErrorOfThree DEF TablesError
<1>2. q.location # NoPreference
  <2>1. CASE q.location = NoPreference
    <3>1. alts = [found |-> <<>>, error |-> None]
      BY <2>1 DEF Alternatives
    <3>2. a.alternatives = <<>>
      BY <1>1, <3>1
    <3> QED BY <3>2
  <2> QED BY <2>1
<1> DEFINE times == IF Impossible(q.party, q.location) THEN [found |-> <<>>, error |-> None]
                    ELSE TimeAlternatives(q, moment, bs)
           U == {x \in S : ~Impossible(q.party, q.location)} \cup T
<1>3. alts = Kept(times, LocationAlternatives(q, bs))
  BY <1>2 DEF Alternatives
<1>4. PICK f, e : times = [found |-> f, error |-> e] /\ (e = None => f \in Seq(U))
  <2>1. CASE Impossible(q.party, q.location)
    <3>1. <<>> \in Seq(U)
      OBVIOUS
    <3> HIDE DEF U
    <3>2. times = [found |-> <<>>, error |-> None]
      BY <2>1
    <3> QED BY <3>1, <3>2
  <2>2. CASE ~Impossible(q.party, q.location)
    <3>1. times = TimeAlternatives(q, moment, bs) /\ S \subseteq U
      BY <2>2
    <3>2. PICK g, x : times = [found |-> g, error |-> x] /\ (x = None => g \in Seq(S))
      BY <3>1, AllTimes DEF Collected
    <3> HIDE DEF U, S
    <3>3. x = None => g \in Seq(U)
      BY <3>1, <3>2, SeqMonotonic
    <3> QED BY <3>2, <3>3
  <2> QED BY <2>1, <2>2
<1>5. e = None
  BY <1>1, <1>3, <1>4, KeptError
<1>6. LocationAlternatives(q, bs) \in Seq(U)
  <2>1. T \subseteq U
    OBVIOUS
  <2> HIDE DEF U
  <2> QED BY <2>1, AllRooms, SeqMonotonic
<1>7. a.alternatives \in Seq(U)
  <2> HIDE DEF U, times, alts, a
  <2> QED BY <1>1, <1>3, <1>4, <1>5, <1>6, KeptOfBoth
<1>8. a.alternatives[i] \in U
  <2> HIDE DEF U
  <2> DEFINE s == a.alternatives
  <2>1. s \in Seq(U) /\ i \in DOMAIN s
    BY <1>7
  <2> HIDE DEF s, a
  <2>2. s[i] \in U
    BY <2>1
  <2> QED BY <2>2 DEF s
<1> DEFINE alt == a.alternatives[i]
<1>9. CASE alt \in S /\ ~Impossible(q.party, q.location)
  <2>1. PICK t \in Int : /\ alt = [at |-> t, location |-> q.location]
                         /\ TablesError(t, q.party, moment) = None
                         /\ TablesAt(t, q.party, q.location, bs) # {}
    BY <1>9 DEF SameRoom
  <2> HIDE DEF alt
  <2>2. alt.at = t /\ alt.location = q.location
    BY <2>1
  <2>3. Had(t, q.party, q.location, moment, bs)
    BY <1>9, <2>1, HadWhenFree
  <2> QED BY <2>2, <2>3 DEF alt
<1>10. CASE alt \in T
  <2> HIDE DEF alt
  <2>1. /\ ~Impossible(q.party, alt.location)
        /\ TablesError(alt.at, q.party, moment) = None
        /\ TablesAt(alt.at, q.party, alt.location, bs) # {}
    BY <1>1, <1>10, RoomHad
  <2>2. Had(alt.at, q.party, alt.location, moment, bs)
    BY <2>1, HadWhenFree
  <2> QED BY <2>2 DEF alt
<1> QED BY <1>8, <1>9, <1>10

\* Whatever the answer offers instead of what was asked for can be had: asking for
\* it at once finds a table (services/restaurant.py:783-866).
THEOREM OffersAreHonest == Spec => AlternativesAreBookable
<1> DEFINE Honest(a, bs) ==
             \A i \in DOMAIN a.alternatives :
               LET alt == a.alternatives[i]
                   q == [at |-> alt.at, party |-> a.query.party, location |-> alt.location]
               IN  Availability(q, now, bs).tables # {}
           Seen == IF change' = change THEN Bookings ELSE others
<1>1. ASSUME NEW q, q.at \in Int, NEW bs, NEW a, a = Availability(q, now, bs)
      PROVE  Honest(a, bs)
  <2>1. a.query = q
    BY <1>1, AnswerQuery
  <2>2. ASSUME NEW i \in DOMAIN a.alternatives
        PROVE  Had(a.alternatives[i].at, q.party, a.alternatives[i].location, now, bs)
    BY <1>1, AlternativeIsHad
  <2> QED BY <2>1, <2>2 DEF Had, Ask
<1>2. ASSUME NEW q \in Query, Check(q) PROVE Honest(answer', Seen)
  <2>1. q.at \in Int
    <3>1. q.at \in Asked
      BY DEF Query
    <3> QED BY <3>1, AskedIsInt
  <2>2. answer' = Availability(q, now, Bookings) /\ Seen = Bookings
    BY <1>2 DEF Check, Remember
  <2> HIDE DEF Honest, Seen
  <2> QED BY <1>1, <2>1, <2>2
<1>3. ASSUME MineInv, ChangeInv, WriteChange, answer' # answer PROVE Honest(answer', Seen)
  <2> DEFINE q == [at |-> WantedAt, party |-> WantedParty, location |-> change.request.location]
  <2>1. answer' = Availability(q, now, others) /\ Seen = others
    BY <1>3 DEF WriteChange, Remember
  <2>2. WantedAt \in Int
    BY <1>3, WantedIsTyped, AskedIsInt DEF WriteChange
  <2>3. q.at \in Int
    BY <2>2
  <2> HIDE DEF q, Honest, Seen
  <2> QED BY <1>1, <2>1, <2>3
<1>4. ASSUME MineInv, ChangeInv, [Next]_vars, answer' # answer PROVE Honest(answer', Seen)
  <2> HIDE DEF Honest, Seen
  <2> QED
    BY <1>2, <1>3, <1>4, Steps
    DEF QuietStep, CheckStep, BookStep, ElsewhereStep, AskStep, WriteStep, EndStep
<1>5. ASSUME MineInv, ChangeInv, [Next]_vars
      PROVE  [answer' # answer /\ answer' # None => Honest(answer', Seen)]_vars
  BY <1>4, <1>5
<1>6. Init => ChangeInv
  BY DEF Init, ChangeInv
<1> QED BY <1>5, <1>6, InitMine, NextMine, PTL DEF Spec, AlternativesAreBookable

-----------------------------------------------------------------------------
(* Orders for a time.  What a request has read and checked is said of the    *)
(* copies it has read (ReadFits), which never change; when its commit finds  *)
(* the rows as they were read, that is true of the rows.                     *)

RowsTyped ==
  /\ clock \in Nat /\ DOMAIN handler = Handlers
  /\ booking # None => booking \in Preorders!BookingRow
  /\ order # None => order \in Preorders!OrderRow

AtTable(o) == Preorders!KindOf(o) = "dine_in"
Stands(b) == b # None /\ b.status = "confirmed"

AddFits(x) ==
  LET o == x.read.order
      b == x.read.booking IN
  /\ x.kind \in {"dine_in", None} /\ x.at \in Nat /\ x.dish \in DOMAIN Dishes
  /\ Preorders!Served(x.dish, x.at)
  /\ o # None => (x.kind = "dine_in" <=> AtTable(o))
  /\ x.kind = "dine_in" /\ Stands(b) => x.at = b.at
  /\ o # None /\ ~AtTable(o) /\ o.at # None => x.at = o.at

FulfilFits(x) ==
  LET o == x.read.order IN
  /\ x.kind \in Preorders!Kinds /\ x.at \in Nat
  /\ o # None /\ o.status = "pending" /\ Preorders!AllServed(o.dishes, x.at)

ConfirmFits(x) ==
  LET o == x.read.order
      b == x.read.booking IN
  /\ o # None /\ o.status = "pending"
  /\ AtTable(o) => Stands(b) /\ Preorders!AllServed(o.dishes, b.at)

MoveFits(x) ==
  LET o == x.read.order IN
  /\ x.at \in Nat /\ x.read.booking # None
  /\ o # None /\ o.booked /\ o.status = "confirmed" /\ o.kind = "dine_in" =>
       Preorders!AllServed(o.dishes, x.at)

ReadFits(x) ==
  /\ x.pc = "add" => AddFits(x)
  /\ x.pc = "commit" /\ x.op = "fulfil" => FulfilFits(x)
  /\ x.pc = "commit" /\ x.op = "confirm" => ConfirmFits(x)
  /\ x.pc = "commit" /\ x.op = "move" => MoveFits(x)

\* An order and the reservation of its call agree.
OrderFits(o, b) ==
  o # None =>
    /\ o.booked <=> o.kind = "dine_in"
    /\ ~AtTable(o) => o.at # None
    /\ o.status = "confirmed" /\ AtTable(o) => b # None
    /\ o.status = "confirmed" /\ AtTable(o) /\ Stands(b) => Preorders!AllServed(o.dishes, b.at)
    /\ o.status = "pending" /\ ~AtTable(o) => Preorders!AllServed(o.dishes, o.at)

\* A row that was read is still there.
RowsLast ==
  \A h \in Handlers : handler[h].pc # "idle" =>
    /\ handler[h].read.order # None => order # None
    /\ handler[h].read.booking # None => booking # None

PreorderInv ==
  /\ RowsTyped /\ RowsLast
  /\ \A h \in Handlers : ReadFits(handler[h])
  /\ ~skew => OrderFits(order, booking)

LEMMA PreorderFacts ==
  /\ Times \subseteq Nat /\ Start \in Nat /\ None \notin Nat /\ None \notin Preorders!Kinds
  /\ None # "dine_in" /\ None # "pickup"
  /\ None \notin Preorders!OrderRow /\ None \notin Preorders!BookingRow
  /\ DOMAIN Delay = {"pickup", "delivery"} /\ \A k \in DOMAIN Delay : Delay[k] \in Nat
<1>1. Preorders!Instants = Instants
  BY DEF Preorders!Instants, Instants
<1> QED BY <1>1, OrdersAssumption, InstantsAreDense DEF Preorders!PreorderAssumption, Preorders!Kinds

LEMMA InitPreorder == Preorders!Init => PreorderInv
BY PreorderFacts
DEF Preorders!Init, PreorderInv, RowsTyped, RowsLast, ReadFits, OrderFits, Preorders!Idle

LEMMA KeepsReads ==
  ASSUME PreorderInv, NEW h \in Handlers, NEW x, ReadFits(x), handler' = [handler EXCEPT ![h] = x],
         x.pc = "idle" \/ (x.read.order = order /\ x.read.booking = booking),
         order # None => order' # None, booking # None => booking' # None
  PROVE  DOMAIN handler' = Handlers /\ RowsLast' /\ \A g \in Handlers : ReadFits(handler'[g])
<1>1. DOMAIN handler = Handlers /\ \A g \in Handlers : ReadFits(handler[g])
  BY DEF PreorderInv, RowsTyped
<1>2. DOMAIN handler' = Handlers /\ \A g \in Handlers : handler'[g] = IF g = h THEN x ELSE handler[g]
  BY <1>1
<1>3. RowsLast'
  BY <1>2 DEF RowsLast, PreorderInv
<1> QED BY <1>1, <1>2, <1>3

LEMMA SameReads ==
  ASSUME PreorderInv, handler' = handler, order # None => order' # None, booking # None => booking' # None
  PROVE  RowsLast' /\ \A g \in Handlers : ReadFits(handler'[g])
BY DEF RowsLast, PreorderInv

LEMMA IdleReads == ReadFits(Preorders!Idle) /\ Preorders!Idle.pc = "idle"
BY DEF ReadFits, Preorders!Idle

LEMMA Unskewed ==
  ASSUME NEW h, Preorders!Skewed(h), ~skew'
  PROVE  ~skew /\ handler[h].read.order = order /\ handler[h].read.booking = booking
<1>1. ~skew /\ handler[h].read = Preorders!Read(h)
  BY DEF Preorders!Skewed
<1> QED BY <1>1 DEF Preorders!Read

LEMMA OneMoreDish ==
  ASSUME NEW s, NEW t, Preorders!AllServed(s, t), NEW d, Preorders!Served(d, t)
  PROVE  Preorders!AllServed(s \cup {d}, t)
BY DEF Preorders!AllServed

LEMMA AddReads ==
  ASSUME PreorderInv, NEW h \in Handlers, NEW d \in DOMAIN Dishes, Preorders!AddRead(h, d)
  PROVE  PreorderInv'
<1> DEFINE dine == IF order = None THEN booking # None ELSE AtTable(order)
           at == Preorders!ServiceTime(booking # None)
           x == [Preorders!Idle EXCEPT !.pc = "add", !.op = "add", !.dish = d, !.at = at,
                                       !.kind = IF dine THEN "dine_in" ELSE None,
                                       !.read = Preorders!Read(h)]
<1>1. /\ Preorders!Served(d, at) /\ handler' = [handler EXCEPT ![h] = x]
      /\ UNCHANGED <<clock, booking, order, skew>>
  BY DEF Preorders!AddRead, Preorders!Become, AtTable
<1>2. /\ x.pc = "add" /\ x.dish = d /\ x.at = at /\ x.kind = IF dine THEN "dine_in" ELSE None
      /\ x.read.order = order /\ x.read.booking = booking
  BY DEF Preorders!Idle, Preorders!Read
<1>3. clock \in Nat /\ (booking # None => booking.at \in Nat)
      /\ (order # None => order.at \in Nat \cup {None} /\ Preorders!KindOf(order) \in Preorders!Kinds)
  BY PreorderFacts DEF PreorderInv, RowsTyped, Preorders!BookingRow, Preorders!OrderRow, Preorders!KindOf, Preorders!Kinds
<1>4. at = IF dine THEN IF Stands(booking) THEN booking.at ELSE clock
           ELSE IF order # None /\ order.at # None THEN order.at
           ELSE clock + Delay[IF order = None THEN "pickup" ELSE Preorders!KindOf(order)]
  BY DEF Preorders!ServiceTime, Preorders!Booked, Stands, AtTable, Preorders!FulfillmentAt
<1>5. at \in Nat
  <2>1. ~dine => (IF order = None THEN "pickup" ELSE Preorders!KindOf(order)) \in DOMAIN Delay
    BY <1>3, PreorderFacts DEF AtTable, Preorders!Kinds
  <2>2. ~dine => Delay[IF order = None THEN "pickup" ELSE Preorders!KindOf(order)] \in Nat
    BY <2>1, PreorderFacts
  <2> HIDE DEF at, dine
  <2> QED BY <1>3, <1>4, <2>2 DEF Stands
<1> HIDE DEF at, x
<1>6. AddFits(x)
  BY <1>1, <1>2, <1>4, <1>5, PreorderFacts DEF AddFits
<1>7. ReadFits(x)
  BY <1>2, <1>6 DEF ReadFits
<1> QED BY <1>1, <1>2, <1>7, KeepsReads DEF PreorderInv, RowsTyped

\* The parts of the invariant an action of one row leaves alone.
LEMMA AddWrites ==
  ASSUME PreorderInv, NEW h \in Handlers, Preorders!AddWrite(h)
  PROVE  PreorderInv'
<1> DEFINE x == handler[h]
<1>1. handler' = [handler EXCEPT ![h] = Preorders!Idle] /\ UNCHANGED <<clock, booking>> /\ x.pc = "add"
  BY DEF Preorders!AddWrite, Preorders!Finish, Preorders!Become, Preorders!At
<1>2. ASSUME order # None => order' # None
      PROVE  DOMAIN handler' = Handlers /\ RowsLast' /\ \A g \in Handlers : ReadFits(handler'[g])
  BY <1>1, <1>2, IdleReads, KeepsReads
<1>3. AddFits(x)
  BY <1>1 DEF PreorderInv, ReadFits
<1>4. CASE UNCHANGED <<order, skew>>
  BY <1>1, <1>2, <1>4 DEF PreorderInv, RowsTyped
<1> DEFINE new == [status |-> "pending", kind |-> x.kind, booked |-> x.kind = "dine_in",
                   at |-> IF x.kind = None THEN x.at ELSE None, dishes |-> {x.dish}]
<1>5. CASE order = None /\ order' = new /\ Preorders!Skewed(h)
  <2>1. /\ new.status = "pending" /\ new.kind = x.kind /\ new.booked = (x.kind = "dine_in")
        /\ new.at = IF x.kind = None THEN x.at ELSE None
        /\ new.dishes = {x.dish}
    OBVIOUS
  <2>2. new \in Preorders!OrderRow
    BY <1>3 DEF AddFits, Preorders!OrderRow, Preorders!Kinds
  <2>3. OrderFits(new, booking)
    BY <2>1, <1>3, PreorderFacts
    DEF OrderFits, AddFits, AtTable, Preorders!KindOf, Preorders!AllServed
  <2> HIDE DEF new, x
  <2> QED BY <1>1, <1>2, <1>5, <2>2, <2>3 DEF PreorderInv, RowsTyped
<1> DEFINE more == [order EXCEPT !.dishes = @ \cup {x.dish}, !.booked = @ \/ x.kind = "dine_in",
                                 !.at = IF x.kind = None THEN x.at ELSE @]
<1>6. CASE order # None /\ order' = more /\ Preorders!Skewed(h)
  <2>0. order \in Preorders!OrderRow
    BY <1>6 DEF PreorderInv, RowsTyped
  <2>1. /\ more.status = order.status /\ more.kind = order.kind
        /\ more.dishes = order.dishes \cup {x.dish}
        /\ more.at = IF x.kind = None THEN x.at ELSE order.at
    BY <2>0 DEF Preorders!OrderRow
  <2>2. more.booked <=> order.booked \/ x.kind = "dine_in"
    BY <2>0 DEF Preorders!OrderRow
  <2>3. more \in Preorders!OrderRow
    BY <2>0, <1>3 DEF AddFits, Preorders!OrderRow
  <2> HIDE DEF more
  <2>4. ASSUME ~skew' PROVE OrderFits(more, booking)
    <3>1. ~skew /\ x.read.order = order /\ x.read.booking = booking
      BY <1>6, <2>4, Unskewed
    <3>2. OrderFits(order, booking)
      BY <3>1 DEF PreorderInv
    <3>3. /\ x.at \in Nat /\ Preorders!Served(x.dish, x.at)
          /\ x.kind = "dine_in" <=> AtTable(order)
          /\ x.kind \in {"dine_in", None}
          /\ x.kind = "dine_in" /\ Stands(booking) => x.at = booking.at
          /\ ~AtTable(order) /\ order.at # None => x.at = order.at
      BY <1>3, <1>6, <3>1 DEF AddFits
    <3>4. order.booked <=> order.kind = "dine_in"
      BY <1>6, <3>2 DEF OrderFits
    <3>5. AtTable(order) <=> order.kind = "dine_in"
      BY <3>4, PreorderFacts DEF AtTable, Preorders!KindOf
    <3>6. more.booked <=> more.kind = "dine_in"
      BY <2>1, <2>2, <3>3, <3>4, <3>5
    <3>7. AtTable(more) <=> AtTable(order)
      BY <2>1, <3>5, <3>6, PreorderFacts DEF AtTable, Preorders!KindOf
    <3>8. CASE AtTable(order)
      <4>1. more.status = "confirmed" => booking # None
        BY <1>6, <2>1, <3>2, <3>8 DEF OrderFits
      <4>2. ASSUME more.status = "confirmed", Stands(booking)
            PROVE  Preorders!AllServed(more.dishes, booking.at)
        <5>1. Preorders!AllServed(order.dishes, booking.at)
          BY <1>6, <2>1, <3>2, <3>8, <4>2 DEF OrderFits
        <5> QED BY <2>1, <3>3, <3>8, <4>2, <5>1, OneMoreDish
      <4> QED BY <3>6, <3>7, <3>8, <4>1, <4>2 DEF OrderFits
    <3>9. CASE ~AtTable(order)
      <4>1. order.at # None /\ more.at = order.at /\ x.at = order.at
        BY <1>6, <2>1, <3>2, <3>3, <3>9, PreorderFacts DEF OrderFits
      <4>2. ASSUME more.status = "pending" PROVE Preorders!AllServed(more.dishes, more.at)
        <5>1. Preorders!AllServed(order.dishes, order.at)
          BY <1>6, <2>1, <3>2, <3>9, <4>2 DEF OrderFits
        <5> QED BY <2>1, <3>3, <4>1, <5>1, OneMoreDish
      <4> QED BY <3>6, <3>7, <3>9, <4>1, <4>2 DEF OrderFits
    <3> QED BY <3>8, <3>9
  <2> HIDE DEF x
  <2> QED BY <1>1, <1>2, <1>6, <2>3, <2>4, PreorderFacts DEF PreorderInv, RowsTyped
<1> QED BY <1>4, <1>5, <1>6 DEF Preorders!AddWrite

LEMMA Removes ==
  ASSUME PreorderInv, NEW h \in Handlers, NEW d, Preorders!Remove(h, d)
  PROVE  PreorderInv'
<1> DEFINE fewer == [order EXCEPT !.dishes = @ \ {d}]
<1>1. order # None /\ order' = fewer /\ UNCHANGED <<clock, booking, handler, skew>>
  BY DEF Preorders!Remove
<1>2. order \in Preorders!OrderRow
  BY <1>1 DEF PreorderInv, RowsTyped
<1>3. /\ fewer.status = order.status /\ fewer.kind = order.kind /\ fewer.at = order.at
      /\ fewer.dishes = order.dishes \ {d} /\ fewer.booked = order.booked
  BY <1>2 DEF Preorders!OrderRow
<1>4. fewer \in Preorders!OrderRow
  BY <1>2 DEF Preorders!OrderRow
<1> HIDE DEF fewer
<1>5. ASSUME OrderFits(order, booking) PROVE OrderFits(fewer, booking)
  <2>1. AtTable(fewer) <=> AtTable(order)
    BY <1>3 DEF AtTable, Preorders!KindOf
  <2>2. \A t : Preorders!AllServed(order.dishes, t) => Preorders!AllServed(fewer.dishes, t)
    BY <1>3 DEF Preorders!AllServed
  <2> QED BY <1>1, <1>3, <1>5, <2>1, <2>2 DEF OrderFits
<1> QED BY <1>1, <1>4, <1>5, SameReads, PreorderFacts DEF PreorderInv, RowsTyped

LEMMA FulfilReads ==
  ASSUME PreorderInv, NEW h \in Handlers, NEW k \in Preorders!Kinds, Preorders!FulfilRead(h, k)
  PROVE  PreorderInv'
<1> DEFINE at == IF k = "dine_in" THEN booking.at ELSE clock + Delay[k]
           x == [Preorders!Idle EXCEPT !.pc = "commit", !.op = "fulfil", !.kind = k,
                                       !.at = at, !.read = Preorders!Read(h)]
<1>1. /\ order # None /\ order.status = "pending" /\ (k = "dine_in" => Stands(booking))
      /\ Preorders!AllServed(order.dishes, at)
      /\ handler' = [handler EXCEPT ![h] = x] /\ UNCHANGED <<clock, booking, order, skew>>
  BY DEF Preorders!FulfilRead, Preorders!Become, Preorders!Booked, Stands
<1>2. /\ x.pc = "commit" /\ x.op = "fulfil" /\ x.kind = k /\ x.at = at
      /\ x.read.order = order /\ x.read.booking = booking
  BY DEF Preorders!Idle, Preorders!Read
<1>3. at \in Nat
  <2>1. k = "dine_in" => booking.at \in Nat
    BY <1>1 DEF PreorderInv, RowsTyped, Preorders!BookingRow, Stands
  <2>2. k # "dine_in" => Delay[k] \in Nat
    BY PreorderFacts DEF Preorders!Kinds
  <2> QED BY <2>1, <2>2 DEF PreorderInv, RowsTyped
<1> HIDE DEF at, x
<1>4. ReadFits(x)
  BY <1>1, <1>2, <1>3 DEF ReadFits, FulfilFits
<1> QED BY <1>1, <1>2, <1>4, KeepsReads DEF PreorderInv, RowsTyped

LEMMA FulfilWrites ==
  ASSUME PreorderInv, NEW h \in Handlers, Preorders!FulfilWrite(h)
  PROVE  PreorderInv'
<1> DEFINE x == handler[h]
           new == [order EXCEPT !.kind = x.kind, !.booked = x.kind = "dine_in",
                                !.at = IF x.kind = "dine_in" THEN None ELSE x.at]
<1>1. /\ handler' = [handler EXCEPT ![h] = Preorders!Idle] /\ UNCHANGED <<clock, booking>>
      /\ order' = new /\ Preorders!Skewed(h) /\ x.pc = "commit" /\ x.op = "fulfil"
  BY DEF Preorders!FulfilWrite, Preorders!Finish, Preorders!Become, Preorders!At
<1>2. ASSUME order # None => order' # None
      PROVE  DOMAIN handler' = Handlers /\ RowsLast' /\ \A g \in Handlers : ReadFits(handler'[g])
  BY <1>1, <1>2, IdleReads, KeepsReads
<1>3. FulfilFits(x)
  BY <1>1 DEF PreorderInv, ReadFits
<1>4. order \in Preorders!OrderRow
  BY <1>1, <1>3 DEF PreorderInv, RowsTyped, RowsLast, FulfilFits
<1>5. /\ new.status = order.status /\ new.kind = x.kind /\ new.dishes = order.dishes
      /\ new.at = IF x.kind = "dine_in" THEN None ELSE x.at
      /\ new.booked = (x.kind = "dine_in")
  BY <1>4 DEF Preorders!OrderRow
<1>6. new \in Preorders!OrderRow
  BY <1>3, <1>4 DEF Preorders!OrderRow, FulfilFits
<1> HIDE DEF new
<1>7. ASSUME ~skew' PROVE OrderFits(new, booking)
  <2>1. x.read.order = order
    BY <1>1, <1>7, Unskewed
  <2>2. /\ order.status = "pending" /\ Preorders!AllServed(order.dishes, x.at) /\ x.at \in Nat
        /\ x.kind \in Preorders!Kinds
    BY <1>3, <2>1 DEF FulfilFits
  <2>3. AtTable(new) <=> x.kind = "dine_in"
    BY <1>5, <2>2, PreorderFacts DEF AtTable, Preorders!KindOf
  <2> QED BY <1>5, <2>2, <2>3, PreorderFacts DEF OrderFits
<1> HIDE DEF x
<1> QED BY <1>1, <1>2, <1>6, <1>7, PreorderFacts DEF PreorderInv, RowsTyped

LEMMA ConfirmReads ==
  ASSUME PreorderInv, NEW h \in Handlers, Preorders!ConfirmRead(h)
  PROVE  PreorderInv'
<1> DEFINE at == IF AtTable(order) THEN booking.at
                 ELSE Preorders!FulfillmentAt(Preorders!KindOf(order), order.at)
           x == [Preorders!Idle EXCEPT !.pc = "commit", !.op = "confirm", !.at = at,
                                       !.read = Preorders!Read(h)]
<1>1. /\ order # None /\ order.status = "pending" /\ (AtTable(order) => Stands(booking))
      /\ Preorders!AllServed(order.dishes, at)
      /\ handler' = [handler EXCEPT ![h] = x] /\ UNCHANGED <<clock, booking, order, skew>>
  BY DEF Preorders!ConfirmRead, Preorders!Become, Preorders!Booked, Stands, AtTable
<1>2. /\ x.pc = "commit" /\ x.op = "confirm"
      /\ x.read.order = order /\ x.read.booking = booking
  BY DEF Preorders!Idle, Preorders!Read
<1>3. AtTable(order) => at = booking.at
  OBVIOUS
<1> HIDE DEF at, x
<1>4. ReadFits(x)
  BY <1>1, <1>2, <1>3 DEF ReadFits, ConfirmFits
<1> QED BY <1>1, <1>2, <1>4, KeepsReads DEF PreorderInv, RowsTyped

LEMMA ConfirmWrites ==
  ASSUME PreorderInv, NEW h \in Handlers, Preorders!ConfirmWrite(h)
  PROVE  PreorderInv'
<1> DEFINE x == handler[h]
           new == [order EXCEPT !.status = "confirmed"]
<1>1. /\ handler' = [handler EXCEPT ![h] = Preorders!Idle] /\ UNCHANGED <<clock, booking>>
      /\ order' = new /\ Preorders!Skewed(h) /\ x.pc = "commit" /\ x.op = "confirm"
  BY DEF Preorders!ConfirmWrite, Preorders!Finish, Preorders!Become, Preorders!At
<1>2. ASSUME order # None => order' # None
      PROVE  DOMAIN handler' = Handlers /\ RowsLast' /\ \A g \in Handlers : ReadFits(handler'[g])
  BY <1>1, <1>2, IdleReads, KeepsReads
<1>3. ConfirmFits(x)
  BY <1>1 DEF PreorderInv, ReadFits
<1>4. order \in Preorders!OrderRow
  BY <1>1, <1>3 DEF PreorderInv, RowsTyped, RowsLast, ConfirmFits
<1>5. /\ new.status = "confirmed" /\ new.kind = order.kind /\ new.dishes = order.dishes
      /\ new.at = order.at /\ new.booked = order.booked
  BY <1>4 DEF Preorders!OrderRow
<1>6. new \in Preorders!OrderRow
  BY <1>4 DEF Preorders!OrderRow
<1> HIDE DEF new
<1>7. ASSUME ~skew' PROVE OrderFits(new, booking)
  <2>1. ~skew /\ x.read.order = order /\ x.read.booking = booking
    BY <1>1, <1>7, Unskewed
  <2>2. /\ order # None /\ order.status = "pending"
        /\ AtTable(order) => Stands(booking) /\ Preorders!AllServed(order.dishes, booking.at)
    BY <1>3, <2>1 DEF ConfirmFits
  <2>3. OrderFits(order, booking)
    BY <2>1 DEF PreorderInv
  <2>4. AtTable(new) <=> AtTable(order)
    BY <1>5 DEF AtTable, Preorders!KindOf
  <2> QED BY <1>5, <2>2, <2>3, <2>4 DEF OrderFits, Stands
<1> HIDE DEF x
<1> QED BY <1>1, <1>2, <1>6, <1>7, PreorderFacts DEF PreorderInv, RowsTyped

\* No order of a call without a reservation is confirmed for a table.
LEMMA Books ==
  ASSUME PreorderInv, NEW h \in Handlers, NEW t \in Times, Preorders!Book(h, t)
  PROVE  PreorderInv'
<1> DEFINE new == [order EXCEPT !.kind = "dine_in", !.booked = TRUE, !.at = None]
           made == [status |-> "confirmed", at |-> t]
<1>1. booking = None /\ booking' = made /\ UNCHANGED <<clock, handler, skew>>
  BY DEF Preorders!Book
<1>2. \/ order' = order
      \/ order # None /\ order.status = "pending" /\ order' = new
  BY DEF Preorders!Book
<1>3. made \in Preorders!BookingRow /\ booking' # None
  BY <1>1, PreorderFacts DEF Preorders!BookingRow
<1>4. ~skew => OrderFits(order, booking)
  BY DEF PreorderInv
<1>5. CASE order' = order
  <2>1. RowsLast' /\ \A g \in Handlers : ReadFits(handler'[g])
    BY <1>1, <1>5, SameReads
  <2>2. OrderFits(order, booking) => OrderFits(order, booking')
    BY <1>1 DEF OrderFits
  <2> QED BY <1>1, <1>3, <1>4, <1>5, <2>1, <2>2 DEF PreorderInv, RowsTyped
<1>6. CASE order # None /\ order.status = "pending" /\ order' = new
  <2>1. order \in Preorders!OrderRow
    BY <1>6 DEF PreorderInv, RowsTyped
  <2>2. new.status = "pending" /\ new.kind = "dine_in" /\ new.booked
    BY <1>6, <2>1 DEF Preorders!OrderRow
  <2>3. new \in Preorders!OrderRow
    BY <2>1 DEF Preorders!OrderRow, Preorders!Kinds
  <2> HIDE DEF new
  <2>4. OrderFits(new, booking')
    BY <2>2, PreorderFacts DEF OrderFits, AtTable, Preorders!KindOf
  <2>5. RowsLast' /\ \A g \in Handlers : ReadFits(handler'[g])
    BY <1>1, <1>6, <2>3, PreorderFacts, SameReads
  <2> QED BY <1>1, <1>3, <1>6, <2>3, <2>4, <2>5 DEF PreorderInv, RowsTyped
<1> QED BY <1>2, <1>5, <1>6

LEMMA MoveReads ==
  ASSUME PreorderInv, NEW h \in Handlers, NEW t \in Times, Preorders!MoveRead(h, t)
  PROVE  PreorderInv'
<1> DEFINE x == [Preorders!Idle EXCEPT !.pc = "commit", !.op = "move", !.at = t,
                                       !.read = Preorders!Read(h)]
<1>1. /\ booking # None /\ Preorders!AllServed(Preorders!DishesToMove, t)
      /\ handler' = [handler EXCEPT ![h] = x] /\ UNCHANGED <<clock, booking, order, skew>>
  BY DEF Preorders!MoveRead, Preorders!Become, Preorders!Booked
<1>2. /\ x.pc = "commit" /\ x.op = "move" /\ x.at = t
      /\ x.read.order = order /\ x.read.booking = booking
  BY DEF Preorders!Idle, Preorders!Read
<1>3. ASSUME order # None, order.booked, order.status = "confirmed", order.kind = "dine_in"
      PROVE  Preorders!AllServed(order.dishes, t)
  BY <1>1, <1>3 DEF Preorders!DishesToMove
<1> HIDE DEF x
<1>4. MoveFits(x)
  BY <1>1, <1>2, <1>3, PreorderFacts DEF MoveFits
<1>5. ReadFits(x)
  BY <1>2, <1>4 DEF ReadFits
<1> QED BY <1>1, <1>2, <1>5, KeepsReads DEF PreorderInv, RowsTyped

LEMMA MoveWrites ==
  ASSUME PreorderInv, NEW h \in Handlers, Preorders!MoveWrite(h)
  PROVE  PreorderInv'
<1> DEFINE x == handler[h]
           new == [booking EXCEPT !.at = x.at]
<1>1. /\ handler' = [handler EXCEPT ![h] = Preorders!Idle] /\ UNCHANGED <<clock, order>>
      /\ booking' = new /\ Preorders!Skewed(h) /\ x.pc = "commit" /\ x.op = "move"
  BY DEF Preorders!MoveWrite, Preorders!Finish, Preorders!Become, Preorders!At
<1>2. MoveFits(x)
  BY <1>1 DEF PreorderInv, ReadFits
<1>3. booking # None /\ booking \in Preorders!BookingRow
  BY <1>1, <1>2 DEF PreorderInv, RowsTyped, RowsLast, MoveFits
<1>4. new \in Preorders!BookingRow /\ new.at = x.at /\ new # None
  BY <1>2, <1>3, PreorderFacts DEF Preorders!BookingRow, MoveFits
<1> HIDE DEF new
<1>5. DOMAIN handler' = Handlers /\ RowsLast' /\ \A g \in Handlers : ReadFits(handler'[g])
  BY <1>1, <1>4, IdleReads, KeepsReads
<1>6. ASSUME ~skew' PROVE OrderFits(order, new)
  <2>1. ~skew /\ x.read.order = order
    BY <1>1, <1>6, Unskewed
  <2>2. OrderFits(order, booking)
    BY <2>1 DEF PreorderInv
  <2>3. order # None /\ order.booked /\ order.status = "confirmed" /\ order.kind = "dine_in" =>
          Preorders!AllServed(order.dishes, new.at)
    BY <1>2, <1>4, <2>1 DEF MoveFits
  <2>4. order # None /\ AtTable(order) => order.booked /\ order.kind = "dine_in"
    BY <2>2, PreorderFacts DEF OrderFits, AtTable, Preorders!KindOf
  <2> HIDE DEF x
  <2> QED BY <1>4, <2>2, <2>3, <2>4 DEF OrderFits
<1> HIDE DEF x
<1> QED BY <1>1, <1>4, <1>5, <1>6 DEF PreorderInv, RowsTyped

LEMMA Cancels ==
  ASSUME PreorderInv, NEW h \in Handlers, Preorders!Cancel(h)
  PROVE  PreorderInv'
<1> DEFINE new == [booking EXCEPT !.status = "cancelled"]
<1>1. booking # None /\ booking' = new /\ UNCHANGED <<clock, order, handler, skew>>
  BY DEF Preorders!Cancel, Preorders!Booked
<1>2. booking \in Preorders!BookingRow
  BY <1>1 DEF PreorderInv, RowsTyped
<1>3. new \in Preorders!BookingRow /\ new.status = "cancelled" /\ new # None
  BY <1>2, PreorderFacts DEF Preorders!BookingRow
<1> HIDE DEF new
<1>4. RowsLast' /\ \A g \in Handlers : ReadFits(handler'[g])
  BY <1>1, <1>3, SameReads
<1>5. OrderFits(order, booking) => OrderFits(order, new)
  BY <1>3 DEF OrderFits, Stands
<1> QED BY <1>1, <1>3, <1>4, <1>5 DEF PreorderInv, RowsTyped

LEMMA Rollbacks ==
  ASSUME PreorderInv, NEW h \in Handlers, Preorders!Rollback(h)
  PROVE  PreorderInv'
<1>1. handler' = [handler EXCEPT ![h] = Preorders!Idle] /\ UNCHANGED <<clock, booking, order, skew>>
  BY DEF Preorders!Rollback, Preorders!Finish, Preorders!Become
<1> QED BY <1>1, IdleReads, KeepsReads DEF PreorderInv, RowsTyped

LEMMA NextPreorder ==
  ASSUME PreorderInv, [Preorders!Next]_(Preorders!vars)
  PROVE  PreorderInv'
<1>1. CASE UNCHANGED Preorders!vars
  BY <1>1, SameReads DEF Preorders!vars, PreorderInv, RowsTyped
<1>2. CASE Preorders!Tick
  <2>1. clock' = clock + 1 /\ UNCHANGED <<booking, order, handler, skew>>
    BY <1>2 DEF Preorders!Tick
  <2> QED BY <2>1, SameReads DEF PreorderInv, RowsTyped
<1>3. ASSUME NEW h \in Handlers, NEW d \in DOMAIN Dishes, Preorders!AddRead(h, d) \/ Preorders!Remove(h, d)
      PROVE  PreorderInv'
  BY <1>3, AddReads, Removes
<1>4. ASSUME NEW h \in Handlers, NEW k \in Preorders!Kinds, Preorders!FulfilRead(h, k)
      PROVE  PreorderInv'
  BY <1>4, FulfilReads
<1>5. ASSUME NEW h \in Handlers, NEW t \in Times, Preorders!Book(h, t) \/ Preorders!MoveRead(h, t)
      PROVE  PreorderInv'
  BY <1>5, Books, MoveReads
<1>6. ASSUME NEW h \in Handlers,
             \/ Preorders!AddWrite(h) \/ Preorders!FulfilWrite(h)
             \/ Preorders!ConfirmRead(h) \/ Preorders!ConfirmWrite(h)
             \/ Preorders!MoveWrite(h) \/ Preorders!Cancel(h) \/ Preorders!Rollback(h)
      PROVE  PreorderInv'
  BY <1>6, AddWrites, FulfilWrites, ConfirmReads, ConfirmWrites, MoveWrites, Cancels, Rollbacks
<1> QED BY <1>1, <1>2, <1>3, <1>4, <1>5, <1>6 DEF Preorders!Next

LEMMA ServedIsOnTheMenu ==
  ASSUME NEW s, NEW t, Preorders!AllServed(s, t)
  PROVE  \A d \in s : Preorders!OnTheMenu(d, t)
BY DEF Preorders!AllServed, Preorders!Served, Preorders!MenuServiceStatus, Preorders!OnTheMenu

(* As long as no commit rested on a row that another request had changed,     *)
(* the dishes of a confirmed order at a reserved table are on the menu at the *)
(* time of the reservation, and those of a pending pickup or delivery at the  *)
(* time it is for: for every menu, calendar and number of requests.           *)
THEOREM DishesAreServed == Preorders!Spec => []ServedUnlessSkewed
<1>1. ASSUME PreorderInv PROVE ServedUnlessSkewed
  <2>1. SUFFICES ASSUME ~skew, order # None
                 PROVE  /\ Preorders!Confirmed("dine_in") /\ Preorders!Booked =>
                             \A d \in order.dishes : Preorders!OnTheMenu(d, booking.at)
                        /\ order.status = "pending" /\ order.at # None
                             /\ Preorders!KindOf(order) # "dine_in" =>
                             \A d \in order.dishes : Preorders!OnTheMenu(d, order.at)
    BY DEF ServedUnlessSkewed, Preorders!ServedUnlessSkewed
  <2>2. OrderFits(order, booking)
    BY <1>1, <2>1 DEF PreorderInv
  <2>3. Preorders!Confirmed("dine_in") /\ Preorders!Booked => Preorders!AllServed(order.dishes, booking.at)
    BY <2>1, <2>2 DEF OrderFits, Preorders!Confirmed, Preorders!Booked, AtTable, Stands
  <2>4. order.status = "pending" /\ Preorders!KindOf(order) # "dine_in" =>
          Preorders!AllServed(order.dishes, order.at)
    BY <2>1, <2>2 DEF OrderFits, AtTable
  <2> QED BY <2>3, <2>4, ServedIsOnTheMenu
<1> QED BY <1>1, InitPreorder, NextPreorder, PTL DEF Preorders!Spec

-----------------------------------------------------------------------------
(* TakeawayInTime.  Whoever holds the lock of the order has read the order   *)
(* that is there, and no other request writes it until the commit.           *)

Holds(x) == x.pc = "commit" /\ x.op \in Preorders!OrderOps

\* What a confirmation has judged of a pickup or delivery with a time
Judged(x) ==
  LET o == x.read.order IN
  x.pc = "commit" /\ x.op = "confirm" /\ ~AtTable(o) /\ o.at # None =>
    Preorders!OpenFor(Preorders!KindOf(o), o.at) /\ Preorders!AllServed(o.dishes, o.at)

Timed(o) == o # None /\ ~AtTable(o) => o.at # None

LockInv ==
  /\ \A g, h \in Handlers : Holds(handler[g]) /\ Holds(handler[h]) => g = h
  /\ \A h \in Handlers : Holds(handler[h]) => handler[h].read.order = order
  /\ \A h \in Handlers : Judged(handler[h])
  /\ Timed(order)

LEMMA Unlocked == Preorders!Locked(Preorders!OrderOps) <=> \E h \in Handlers : Holds(handler[h])
BY DEF Preorders!Locked, Holds

LEMMA IdleHolds == ~Holds(Preorders!Idle) /\ Judged(Preorders!Idle)
BY DEF Holds, Judged, Preorders!Idle

\* A request that does not hold the lock afterwards leaves the order as it is.
LEMMA LockElsewhere ==
  ASSUME PreorderInv, LockInv, NEW h \in Handlers, NEW x, ~Holds(x), Judged(x),
         handler' = [handler EXCEPT ![h] = x], UNCHANGED order
  PROVE  LockInv'
<1>1. \A g \in Handlers : handler'[g] = IF g = h THEN x ELSE handler[g]
  BY DEF PreorderInv, RowsTyped
<1>2. \A g \in Handlers : Holds(handler'[g]) => Holds(handler[g]) /\ handler'[g] = handler[g]
  BY <1>1
<1>3. \A g \in Handlers : Judged(handler'[g])
  BY <1>1 DEF LockInv
<1>4. Timed(order')
  BY DEF LockInv
<1> QED BY <1>2, <1>3, <1>4 DEF LockInv, Holds, Judged, Timed, AtTable, Preorders!KindOf

\* A request takes the lock that is free, and has read the order.
LEMMA LockTaken ==
  ASSUME PreorderInv, LockInv, NEW h \in Handlers, NEW x, x.read.order = order, Judged(x),
         ~Preorders!Locked(Preorders!OrderOps),
         handler' = [handler EXCEPT ![h] = x], UNCHANGED order
  PROVE  LockInv'
<1>1. \A g \in Handlers : handler'[g] = IF g = h THEN x ELSE handler[g]
  BY DEF PreorderInv, RowsTyped
<1>2. \A g \in Handlers : ~Holds(handler[g])
  BY Unlocked
<1>3. \A g \in Handlers : Holds(handler'[g]) => g = h
  BY <1>1, <1>2
<1>4. \A g \in Handlers : Holds(handler'[g]) => handler'[g].read.order = order'
  BY <1>1, <1>2
<1>5. \A g \in Handlers : Judged(handler'[g])
  BY <1>1 DEF LockInv
<1>6. Timed(order')
  BY DEF LockInv
<1>7. \A g, k \in Handlers : Holds(handler'[g]) /\ Holds(handler'[k]) => g = k
  BY <1>3
<1> QED
  BY <1>4, <1>5, <1>6, <1>7 DEF LockInv, Holds, Judged, Timed, AtTable, Preorders!KindOf

\* The order is written, and nobody holds its lock any more.
LEMMA LockFree ==
  ASSUME LockInv, Timed(order'), \A g \in Handlers : ~Holds(handler'[g]),
         \A g \in Handlers : handler'[g] \in {handler[g], Preorders!Idle}
  PROVE  LockInv'
<1>1. \A g \in Handlers : Judged(handler'[g])
  BY IdleHolds DEF LockInv
<1> QED BY <1>1 DEF LockInv, Holds, Judged, Timed, AtTable, Preorders!KindOf

\* The one who holds the lock ends, or someone ends while nobody holds it.
LEMMA NobodyHolds ==
  ASSUME PreorderInv, LockInv, NEW h \in Handlers,
         handler' = [handler EXCEPT ![h] = Preorders!Idle],
         Holds(handler[h]) \/ ~Preorders!Locked(Preorders!OrderOps)
  PROVE  /\ \A g \in Handlers : ~Holds(handler'[g])
         /\ \A g \in Handlers : handler'[g] \in {handler[g], Preorders!Idle}
<1>1. \A g \in Handlers : handler'[g] = IF g = h THEN Preorders!Idle ELSE handler[g]
  BY DEF PreorderInv, RowsTyped
<1>2. \A g \in Handlers : g # h => ~Holds(handler[g])
  BY Unlocked DEF LockInv
<1> QED BY <1>1, <1>2, IdleHolds

\* An order that is only added to keeps its time.
LEMMA StaysTimed ==
  ASSUME NEW o, NEW p, o # None, Timed(o), p.kind = o.kind, o.booked => p.booked,
         p.at = o.at \/ p.at \in Nat
  PROVE  Timed(p)
<1>1. AtTable(o) => AtTable(p)
  BY DEF AtTable, Preorders!KindOf
<1> QED BY <1>1, PreorderFacts DEF Timed

LEMMA AddLocks ==
  ASSUME PreorderInv, LockInv, NEW h \in Handlers, Preorders!AddWrite(h)
  PROVE  LockInv'
<1> DEFINE x == handler[h]
<1>1. /\ handler' = [handler EXCEPT ![h] = Preorders!Idle] /\ x.pc = "add"
      /\ ~Preorders!Locked(Preorders!OrderOps)
  BY DEF Preorders!AddWrite, Preorders!Finish, Preorders!Become, Preorders!At
<1>2. x.kind \in {"dine_in", None} /\ x.at \in Nat
  BY <1>1 DEF PreorderInv, ReadFits, AddFits
<1>3. CASE UNCHANGED order
  BY <1>1, <1>3, IdleHolds, LockElsewhere
<1> DEFINE new == [status |-> "pending", kind |-> x.kind, booked |-> x.kind = "dine_in",
                   at |-> IF x.kind = None THEN x.at ELSE None, dishes |-> {x.dish}]
           more == [order EXCEPT !.dishes = @ \cup {x.dish}, !.booked = @ \/ x.kind = "dine_in",
                                 !.at = IF x.kind = None THEN x.at ELSE @]
<1>4. CASE order' = new
  <2>1. new.kind = x.kind /\ new.at = IF x.kind = None THEN x.at ELSE None
    OBVIOUS
  <2> HIDE DEF new, x
  <2>2. Timed(new)
    BY <1>2, <2>1, PreorderFacts DEF Timed, AtTable, Preorders!KindOf
  <2> QED BY <1>1, <1>4, <2>2, NobodyHolds, LockFree
<1>5. CASE order # None /\ order' = more
  <2>1. order \in Preorders!OrderRow
    BY <1>5 DEF PreorderInv, RowsTyped
  <2>2. more.kind = order.kind /\ more.at = IF x.kind = None THEN x.at ELSE order.at
    BY <2>1 DEF Preorders!OrderRow
  <2>3. order.booked => more.booked
    BY <2>1 DEF Preorders!OrderRow
  <2> HIDE DEF more, x
  <2>4. Timed(order)
    BY DEF LockInv
  <2>5. Timed(more)
    BY <1>2, <1>5, <2>2, <2>3, <2>4, StaysTimed
  <2> QED BY <1>1, <1>5, <2>5, NobodyHolds, LockFree
<1> QED BY <1>3, <1>4, <1>5 DEF Preorders!AddWrite

LEMMA RemoveLocks ==
  ASSUME PreorderInv, LockInv, NEW h \in Handlers, NEW d, Preorders!Remove(h, d)
  PROVE  LockInv'
<1> DEFINE fewer == [order EXCEPT !.dishes = @ \ {d}]
<1>1. order # None /\ order' = fewer /\ handler' = handler /\ ~Preorders!Locked(Preorders!OrderOps)
  BY DEF Preorders!Remove
<1>2. order \in Preorders!OrderRow
  BY <1>1 DEF PreorderInv, RowsTyped
<1>3. fewer.kind = order.kind /\ fewer.booked = order.booked /\ fewer.at = order.at
  BY <1>2 DEF Preorders!OrderRow
<1> HIDE DEF fewer
<1>4. Timed(order)
  BY DEF LockInv
<1>5. Timed(fewer)
  BY <1>1, <1>3, <1>4, StaysTimed
<1> QED BY <1>1, <1>5, Unlocked, LockFree

LEMMA FulfilLocks ==
  ASSUME PreorderInv, LockInv, NEW h \in Handlers, Preorders!FulfilWrite(h)
  PROVE  LockInv'
<1> DEFINE x == handler[h]
           new == [order EXCEPT !.kind = x.kind, !.booked = x.kind = "dine_in",
                                !.at = IF x.kind = "dine_in" THEN None ELSE x.at]
<1>1. /\ handler' = [handler EXCEPT ![h] = Preorders!Idle] /\ order' = new
      /\ x.pc = "commit" /\ x.op = "fulfil"
  BY DEF Preorders!FulfilWrite, Preorders!Finish, Preorders!Become, Preorders!At
<1>2. FulfilFits(x)
  BY <1>1 DEF PreorderInv, ReadFits
<1>3. order \in Preorders!OrderRow
  BY <1>1, <1>2 DEF PreorderInv, RowsTyped, RowsLast, FulfilFits
<1>4. new.kind = x.kind /\ new.at = IF x.kind = "dine_in" THEN None ELSE x.at
  BY <1>3 DEF Preorders!OrderRow
<1> HIDE DEF new
<1>5. Timed(new)
  BY <1>2, <1>4, PreorderFacts DEF FulfilFits, Timed, AtTable, Preorders!KindOf
<1>6. Holds(x)
  BY <1>1 DEF Holds, Preorders!OrderOps
<1> HIDE DEF x
<1> QED BY <1>1, <1>5, <1>6, NobodyHolds, LockFree DEF x

LEMMA ConfirmReadLocks ==
  ASSUME PreorderInv, LockInv, NEW h \in Handlers, Preorders!ConfirmRead(h)
  PROVE  LockInv'
<1> DEFINE at == IF AtTable(order) THEN booking.at
                 ELSE Preorders!FulfillmentAt(Preorders!KindOf(order), order.at)
           x == [Preorders!Idle EXCEPT !.pc = "commit", !.op = "confirm", !.at = at,
                                       !.read = Preorders!Read(h)]
<1>1. /\ ~AtTable(order) => Preorders!OpenFor(Preorders!KindOf(order), at)
      /\ Preorders!AllServed(order.dishes, at) /\ ~Preorders!Locked(Preorders!OrderOps)
      /\ handler' = [handler EXCEPT ![h] = x] /\ UNCHANGED order
  BY DEF Preorders!ConfirmRead, Preorders!Become, AtTable
<1>2. x.read.order = order
  BY DEF Preorders!Idle, Preorders!Read
<1>3. ~AtTable(order) /\ order.at # None => at = order.at
  BY DEF Preorders!FulfillmentAt
<1> HIDE DEF at, x
<1>4. Judged(x)
  BY <1>1, <1>2, <1>3 DEF Judged
<1> QED BY <1>1, <1>2, <1>4, LockTaken

LEMMA FulfilReadLocks ==
  ASSUME PreorderInv, LockInv, NEW h \in Handlers, NEW k, Preorders!FulfilRead(h, k)
  PROVE  LockInv'
<1> DEFINE at == IF k = "dine_in" THEN booking.at ELSE clock + Delay[k]
           x == [Preorders!Idle EXCEPT !.pc = "commit", !.op = "fulfil", !.kind = k,
                                       !.at = at, !.read = Preorders!Read(h)]
<1>1. /\ handler' = [handler EXCEPT ![h] = x] /\ UNCHANGED order
      /\ ~Preorders!Locked(Preorders!OrderOps)
  BY DEF Preorders!FulfilRead, Preorders!Become
<1>2. x.read.order = order /\ x.op = "fulfil"
  BY DEF Preorders!Idle, Preorders!Read
<1> HIDE DEF x
<1>3. Judged(x)
  BY <1>2 DEF Judged
<1> QED BY <1>1, <1>2, <1>3, LockTaken

\* What the commit of a confirmation finds, and leaves.
LEMMA ConfirmOf ==
  ASSUME PreorderInv, LockInv, NEW h \in Handlers, Preorders!ConfirmWrite(h)
  PROVE  /\ Holds(handler[h]) /\ Judged(handler[h]) /\ handler[h].read.order = order
         /\ handler[h].pc = "commit" /\ handler[h].op = "confirm"
         /\ order # None /\ Timed(order)
         /\ order'.kind = order.kind /\ order'.booked = order.booked
         /\ order'.at = order.at /\ order'.dishes = order.dishes
         /\ handler' = [handler EXCEPT ![h] = Preorders!Idle]
<1> DEFINE x == handler[h]
<1>1. /\ handler' = [handler EXCEPT ![h] = Preorders!Idle]
      /\ order' = [order EXCEPT !.status = "confirmed"] /\ x.pc = "commit" /\ x.op = "confirm"
  BY DEF Preorders!ConfirmWrite, Preorders!Finish, Preorders!Become, Preorders!At
<1>2. Holds(x)
  BY <1>1 DEF Holds, Preorders!OrderOps
<1>3. ConfirmFits(x)
  BY <1>1 DEF PreorderInv, ReadFits
<1>4. order \in Preorders!OrderRow /\ order # None
  BY <1>1, <1>3 DEF PreorderInv, RowsTyped, RowsLast, ConfirmFits
<1>5. /\ order'.kind = order.kind /\ order'.booked = order.booked
      /\ order'.at = order.at /\ order'.dishes = order.dishes
  BY <1>1, <1>4 DEF Preorders!OrderRow
<1> QED BY <1>1, <1>2, <1>4, <1>5 DEF LockInv

LEMMA ConfirmLocks ==
  ASSUME PreorderInv, LockInv, NEW h \in Handlers, Preorders!ConfirmWrite(h)
  PROVE  LockInv'
<1>1. /\ Holds(handler[h]) /\ order # None /\ Timed(order)
      /\ order'.kind = order.kind /\ order'.booked = order.booked /\ order'.at = order.at
      /\ handler' = [handler EXCEPT ![h] = Preorders!Idle]
  BY ConfirmOf
<1>2. Timed(order')
  BY <1>1, StaysTimed
<1> QED BY <1>1, <1>2, NobodyHolds, LockFree

LEMMA BookLocks ==
  ASSUME PreorderInv, LockInv, NEW h \in Handlers, NEW t, Preorders!Book(h, t)
  PROVE  LockInv'
<1> DEFINE new == [order EXCEPT !.kind = "dine_in", !.booked = TRUE, !.at = None]
<1>1. handler' = handler /\ ~Preorders!Locked(Preorders!OrderOps)
  BY DEF Preorders!Book
<1>2. CASE UNCHANGED order
  <2>1. Timed(order')
    BY <1>2 DEF LockInv
  <2> QED BY <1>1, <2>1, Unlocked, LockFree
<1>3. CASE order # None /\ order' = new
  <2>1. order \in Preorders!OrderRow
    BY <1>3 DEF PreorderInv, RowsTyped
  <2>2. new.kind = "dine_in"
    BY <2>1 DEF Preorders!OrderRow
  <2> HIDE DEF new
  <2>3. Timed(new)
    BY <2>2, PreorderFacts DEF Timed, AtTable, Preorders!KindOf
  <2> QED BY <1>1, <1>3, <2>3, Unlocked, LockFree
<1> QED BY <1>2, <1>3 DEF Preorders!Book

\* Requests of which the lock of the order is no concern
LEMMA OtherLocks ==
  ASSUME PreorderInv, LockInv, NEW h \in Handlers,
         \/ \E d \in DOMAIN Dishes : Preorders!AddRead(h, d)
         \/ \E t \in Times : Preorders!MoveRead(h, t)
         \/ Preorders!MoveWrite(h) \/ Preorders!Cancel(h) \/ Preorders!Rollback(h)
  PROVE  LockInv'
<1>1. ASSUME NEW x, handler' = [handler EXCEPT ![h] = x], x.pc = "add" \/ x.op = "move", UNCHANGED order
      PROVE  LockInv'
  <2>1. ~Holds(x) /\ Judged(x)
    BY <1>1 DEF Holds, Judged, Preorders!OrderOps
  <2> QED BY <1>1, <2>1, LockElsewhere
<1>2. ASSUME NEW d \in DOMAIN Dishes, Preorders!AddRead(h, d) PROVE LockInv'
  <2> DEFINE x == [Preorders!Idle EXCEPT
                     !.pc = "add", !.op = "add", !.dish = d,
                     !.at = Preorders!ServiceTime(booking # None),
                     !.kind = IF IF order = None THEN booking # None
                                 ELSE Preorders!KindOf(order) = "dine_in"
                              THEN "dine_in" ELSE None,
                     !.read = Preorders!Read(h)]
  <2>1. handler' = [handler EXCEPT ![h] = x] /\ UNCHANGED order
    BY <1>2 DEF Preorders!AddRead, Preorders!Become
  <2>2. x.pc = "add"
    BY DEF Preorders!Idle
  <2> HIDE DEF x
  <2> QED BY <1>1, <2>1, <2>2
<1>3. ASSUME NEW t \in Times, Preorders!MoveRead(h, t) PROVE LockInv'
  <2> DEFINE x == [Preorders!Idle EXCEPT !.pc = "commit", !.op = "move", !.at = t,
                                         !.read = Preorders!Read(h)]
  <2>1. handler' = [handler EXCEPT ![h] = x] /\ UNCHANGED order
    BY <1>3 DEF Preorders!MoveRead, Preorders!Become
  <2>2. x.op = "move"
    BY DEF Preorders!Idle
  <2> HIDE DEF x
  <2> QED BY <1>1, <2>1, <2>2
<1>4. CASE Preorders!MoveWrite(h) \/ Preorders!Rollback(h)
  <2>1. handler' = [handler EXCEPT ![h] = Preorders!Idle] /\ UNCHANGED order
    BY <1>4 DEF Preorders!MoveWrite, Preorders!Rollback, Preorders!Finish, Preorders!Become
  <2> QED BY <2>1, IdleHolds, LockElsewhere
<1>5. CASE Preorders!Cancel(h)
  <2>1. UNCHANGED <<order, handler>>
    BY <1>5 DEF Preorders!Cancel
  <2> QED BY <2>1 DEF LockInv, Holds, Judged, Timed, AtTable, Preorders!KindOf
<1> QED BY <1>2, <1>3, <1>4, <1>5

LEMMA NextLock ==
  ASSUME PreorderInv, LockInv, [Preorders!Next]_(Preorders!vars)
  PROVE  LockInv'
<1>1. ASSUME UNCHANGED <<order, handler>> PROVE LockInv'
  BY <1>1 DEF LockInv, Holds, Judged, Timed, AtTable, Preorders!KindOf
<1>2. ASSUME Preorders!Tick \/ UNCHANGED Preorders!vars PROVE LockInv'
  BY <1>1, <1>2 DEF Preorders!Tick, Preorders!vars
<1>3. ASSUME NEW h \in Handlers, NEW d \in DOMAIN Dishes, Preorders!AddRead(h, d) \/ Preorders!Remove(h, d)
      PROVE  LockInv'
  BY <1>3, OtherLocks, RemoveLocks
<1>4. ASSUME NEW h \in Handlers, NEW k \in Preorders!Kinds, Preorders!FulfilRead(h, k)
      PROVE  LockInv'
  BY <1>4, FulfilReadLocks
<1>5. ASSUME NEW h \in Handlers, NEW t \in Times, Preorders!Book(h, t) \/ Preorders!MoveRead(h, t)
      PROVE  LockInv'
  BY <1>5, BookLocks, OtherLocks
<1>6. ASSUME NEW h \in Handlers,
             \/ Preorders!AddWrite(h) \/ Preorders!FulfilWrite(h)
             \/ Preorders!ConfirmRead(h) \/ Preorders!ConfirmWrite(h)
             \/ Preorders!MoveWrite(h) \/ Preorders!Cancel(h) \/ Preorders!Rollback(h)
      PROVE  LockInv'
  BY <1>6, AddLocks, FulfilLocks, ConfirmReadLocks, ConfirmLocks, OtherLocks
<1> QED BY <1>2, <1>3, <1>4, <1>5, <1>6 DEF Preorders!Next

\* Only the commit of a confirmation confirms an order.
LEMMA OnlyConfirmWrite ==
  ASSUME PreorderInv, [Preorders!Next]_(Preorders!vars),
         order # None, order.status = "pending", order'.status = "confirmed"
  PROVE  \E h \in Handlers : Preorders!ConfirmWrite(h)
<1>1. order \in Preorders!OrderRow
  BY DEF PreorderInv, RowsTyped
<1>2. ASSUME NEW h \in Handlers, NEW d, Preorders!Remove(h, d) PROVE FALSE
  BY <1>1, <1>2 DEF Preorders!Remove, Preorders!OrderRow
<1>3. ASSUME NEW h \in Handlers, NEW t, Preorders!Book(h, t) PROVE FALSE
  BY <1>1, <1>3 DEF Preorders!Book, Preorders!OrderRow
<1>4. ASSUME NEW h \in Handlers, Preorders!AddWrite(h) PROVE FALSE
  BY <1>1, <1>4 DEF Preorders!AddWrite, Preorders!OrderRow
<1>5. ASSUME NEW h \in Handlers, Preorders!FulfilWrite(h) PROVE FALSE
  BY <1>1, <1>5 DEF Preorders!FulfilWrite, Preorders!OrderRow
<1>6. ~UNCHANGED order
  OBVIOUS
<1> QED
  BY <1>2, <1>3, <1>4, <1>5, <1>6
  DEF Preorders!Next, Preorders!vars, Preorders!Tick, Preorders!AddRead, Preorders!FulfilRead,
      Preorders!MoveRead, Preorders!ConfirmRead, Preorders!MoveWrite, Preorders!Cancel,
      Preorders!Rollback

\* A pickup or delivery that becomes confirmed has a time, at which its dishes
\* are on the menu and the kitchen takes orders of its kind: whatever other
\* requests made of the order until then, and whichever rows theirs were read
\* from (services/restaurant.py:3050-3116, 2150-2383, 2801-2816).
THEOREM TakeawayIsInTime == Preorders!Spec => TakeawayInTime
<1> DEFINE Confirmed ==
      /\ order # None /\ order.status = "pending" /\ order'.status = "confirmed"
      /\ Preorders!KindOf(order') # "dine_in"
           InTime ==
      LET s == Fulfillment[Preorders!KindOf(order')] IN
      /\ order'.at # None
      /\ \A d \in order'.dishes : Preorders!OnTheMenu(d, order'.at)
      /\ Preorders!DayOf(order'.at) \in s.days
      /\ s.open <= Preorders!TimeOf(order'.at)
      /\ Preorders!TimeOf(order'.at) < s.close[Preorders!DayOf(order'.at)] - s.cutoff
<1>1. ASSUME PreorderInv, LockInv, [Preorders!Next]_(Preorders!vars), Confirmed PROVE InTime
  <2>1. PICK h \in Handlers : Preorders!ConfirmWrite(h)
    BY <1>1, OnlyConfirmWrite
  <2>2. /\ Judged(handler[h]) /\ handler[h].read.order = order
        /\ handler[h].pc = "commit" /\ handler[h].op = "confirm" /\ Timed(order)
        /\ order'.kind = order.kind /\ order'.booked = order.booked
        /\ order'.at = order.at /\ order'.dishes = order.dishes
    BY <1>1, <2>1, ConfirmOf
  <2>3. Preorders!KindOf(order') = Preorders!KindOf(order) /\ ~AtTable(order)
    BY <1>1, <2>2 DEF Preorders!KindOf, AtTable
  <2>4. order.at # None
    BY <1>1, <2>2, <2>3 DEF Timed
  <2>5. Preorders!OpenFor(Preorders!KindOf(order), order.at) /\ Preorders!AllServed(order.dishes, order.at)
    BY <2>2, <2>3, <2>4 DEF Judged
  <2>6. \A d \in order.dishes : Preorders!OnTheMenu(d, order.at)
    BY <2>5, ServedIsOnTheMenu
  <2>7. LET s == Fulfillment[Preorders!KindOf(order)] IN
        /\ Preorders!DayOf(order.at) \in s.days /\ s.open <= Preorders!TimeOf(order.at)
        /\ Preorders!TimeOf(order.at) < s.close[Preorders!DayOf(order.at)] - s.cutoff
    BY <2>5 DEF Preorders!OpenFor, Preorders!ScheduleStatus
  <2> QED BY <2>2, <2>3, <2>4, <2>6, <2>7
<1> HIDE DEF Confirmed, InTime
<1>2. ASSUME PreorderInv, LockInv, [Preorders!Next]_(Preorders!vars)
      PROVE  [Confirmed => InTime]_(Preorders!vars)
  BY <1>1, <1>2
<1>3. Preorders!Init => LockInv
  BY IdleHolds DEF Preorders!Init, LockInv, Timed, Preorders!Idle
<1>4. Preorders!Spec => [][Confirmed => InTime]_(Preorders!vars)
  BY <1>2, <1>3, InitPreorder, NextPreorder, NextLock, PTL DEF Preorders!Spec
<1> QED BY <1>4, PTL DEF TakeawayInTime, Preorders!TakeawayInTime, Confirmed, InTime
=============================================================================
