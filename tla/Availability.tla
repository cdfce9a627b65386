---------------------------- MODULE Availability ----------------------------
(***************************************************************************)
(* Asking for a table and holding the answer against the caller: the       *)
(* availability check with its alternatives                                *)
(* (app/services/restaurant.py check_availability), the offer that the     *)
(* check leaves in the memory of the call (app/availability_offer.py), and *)
(* what cites it: a booking on a chosen table, and a new party size in the *)
(* draft (app/call_memory.py) or of a booking.  A change of a booking is   *)
(* judged by the draft in memory and carried out on the row, later; the    *)
(* draft may not describe that row.  Others book, cancel and change the    *)
(* booking meanwhile, and the process restarts.                            *)
(*                                                                         *)
(* A transaction is one step: Bookings shows what its statements may miss. *)
(* Its confirmation gate is in CallMemory and Amendments; one change is    *)
(* under way at a time, those that overlap with it are ChangedElsewhere.   *)
(* The query's limit of five tables is not reached by the instances.       *)
(***************************************************************************)
EXTENDS Schedule, FiniteSetsExt, SequencesExt

CONSTANTS
  Tables,          \* table number -> [capacity, location]
  AreaMax,         \* dining area -> max_phone_party
  MaxPhoneParty,   \* topic.reservations max_phone_party
  Turnover,        \* minutes kept free after the booking before, in ticks
  OfferTTL,        \* OFFER_TTL in ticks
  TurnAge,         \* PARTY_CHANGE_MAX_TURN_AGE
  Starts, MaxNow,  \* when the instance starts, and its last instant, in day 0
  Asked,           \* the times callers ask for
  Parties,         \* the party sizes callers name
  Edits,           \* what callers save in the draft: {[at, party]}
  Requests,        \* the changes of a booking callers ask for
  Foreign,         \* what others make of the booking: {[table, at, party]}
  None,            \* no offer, no booking, no error
  MaxTurns,        \* bound on the caller's turns
  MaxChecks,       \* bound on the checks that are recorded
  MaxOthers        \* bound on bookings of other calls

VARIABLES
  now,       \* the clock, in ticks
  others,    \* bookings of other calls: {[table, at]}
  mine,      \* the booking the call is about: [table, at, party] or None
  draft,     \* reservation_draft in memory, None if memory is empty
  row,       \* reservation_draft on the row of the call
  change,    \* an update_confirmed_booking before its transaction, or None
  offer,     \* last_availability_offer of the call
  turn,      \* confirmation_turn of the call
  answer,    \* the answer to the last check
  checks     \* the checks that were recorded, in order, for the properties

memory == <<mine, draft, row, change>>
vars == <<now, others, memory, offer, turn, answer, checks>>

Locations == DOMAIN AreaMax
NoPreference == ""
Places == Locations \cup {NoPreference}

Query == [at : Asked, party : Parties, location : Places]
Booking == [table : DOMAIN Tables, at : Asked, party : Parties]

\* held: the draft has the id of a confirmed booking.
Draft == [party : Parties \cup {0}, at : Asked \cup {None}, held : BOOLEAN]

\* What is not named is None, a party 0.  The room the check is compared with
\* (asked) is the request's alone; the query of the tables also understands the
\* words of a preference, or finds none in them, and else takes the row's.
Request ==
  {r \in [at : Asked \cup {None}, party : Parties \cup {0}, asked : Places, location : Places] :
     r.asked # NoPreference => r.location \in {r.asked, NoPreference}}

ASSUME AvailabilityAssumption ==
  /\ DOMAIN Tables \subseteq Nat /\ IsFiniteSet(DOMAIN Tables)
  /\ \A k \in DOMAIN Tables : /\ Tables[k].capacity \in Nat \ {0}
                              /\ Tables[k].location \in Locations
  /\ NoPreference \notin Locations
  /\ Asked \subseteq Nat /\ \A t \in Asked : t + Stay - 1 \in Instants
  /\ Parties \subseteq Nat \ {0} /\ Requests \subseteq Request /\ Foreign \subseteq Booking
  /\ Edits \subseteq [party : Parties \cup {0, None}, at : Asked \cup {None}]
  /\ None \notin Booking \cup Draft
  /\ OfferTTL \in Nat /\ TurnAge \in Nat /\ Turnover \in Nat
  /\ None \notin Nat \cup {"past_booking", "booking_too_far_ahead", "large_party", "restaurant_closed"}
  /\ Starts \subseteq 4..MaxNow /\ MaxNow < DayTicks

-----------------------------------------------------------------------------
(* The tables a query finds. *)

\* validate_standard_reservation_party_size
PartyError(n) == IF n \in 1..MaxPhoneParty THEN None ELSE "large_party"

\* The same, but the patio is asked about the time of arrival only.
ClosedAreasAtArrival(t, n) ==
  {l \in Locations :
     n > AreaMax[l] \/ (l = "patio" /\ ~ScheduleStatus("patio", t, 0, FALSE))}

\* The areas get_available_tables leaves out: too small a limit for the party,
\* and the patio when its hours do not cover the whole stay.
ClosedAreas(t, n) ==
  {l \in Locations :
     n > AreaMax[l] \/ (l = "patio" /\ ~ScheduleStatus("patio", t, Stay, FALSE))}

\* NOT EXISTS in _table_select_sql
Taken(k, t, bs) == \E b \in bs : b.table = k /\ b.at < t + Stay /\ b.at + Stay > t - Turnover

\* What get_available_tables raises before it looks at the tables.
FirstError(errors) ==
  LET raised == {i \in 1..Len(errors) : errors[i] \notin {None, ""}}
  IN  IF raised = {} THEN None ELSE errors[CHOOSE i \in raised : \A j \in raised : i <= j]

TablesError(t, n, clock) ==
  FirstError(<<ParseError(t, clock), PartyError(n),
               IF ReservationOpen(t) THEN None ELSE "restaurant_closed">>)

\* The rows; bs are the bookings the query counts.
TablesAt(t, n, location, bs) ==
  IF location \in ClosedAreas(t, n) THEN {}
  ELSE {k \in DOMAIN Tables :
          /\ Tables[k].capacity >= n
          /\ location \in {NoPreference, Tables[k].location}
          /\ Tables[k].location \notin ClosedAreas(t, n)
          /\ ~Taken(k, t, bs)}

\* ORDER BY capacity, table_number
Smallest(ks) ==
  CHOOSE k \in ks : \A j \in ks :
    \/ Tables[k].capacity < Tables[j].capacity
    \/ Tables[k].capacity = Tables[j].capacity /\ k <= j

-----------------------------------------------------------------------------
(* The check and its alternatives. *)

\* seating_limits, of a location with tables: its largest does not suffice.
TooMany(n, location) ==
  LET there == {k \in DOMAIN Tables : Tables[k].location = location}
  IN  there # {} /\ \A k \in there : n > Tables[k].capacity

\* Mutant: the tables of a candidate are those of every room.
NextInAnyRoom(acc, q, t, clock, bs) ==
  IF acc.error # None \/ Len(acc.found) = 2 \/ ~ReservationOpen(t) THEN acc
  ELSE [acc EXCEPT !.error = TablesError(t, q.party, clock),
                   !.found = IF TablesAt(t, q.party, NoPreference, bs) = {} THEN @
                             ELSE Append(@, [at |-> t, location |-> q.location])]

\* The loop over nearby times.  A candidate at which the restaurant is closed
\* is passed over; looking for its tables may raise, and that ends the check.
NextAlternative(acc, q, t, clock, bs) ==
  IF acc.error # None \/ Len(acc.found) = 2 \/ ~ReservationOpen(t) THEN acc
  ELSE [acc EXCEPT !.error = TablesError(t, q.party, clock),
                   !.found = IF TablesAt(t, q.party, q.location, bs) = {} THEN @
                             ELSE Append(@, [at |-> t, location |-> q.location])]

\* One hour before and after, two hours, half an hour.
TimeAlternatives(q, clock, bs) ==
  LET start == [found |-> <<>>, error |-> None]
      Try(acc, d) == NextAlternative(acc, q, q.at + d, clock, bs)
      Around(acc, d) == Try(Try(acc, -d), d)
  IN  Around(Around(Around(start, 2), 4), 1)

\* One alternative for each other location that has a table at that time.
LocationAlternatives(q, bs) ==
  SetToSeq({[at |-> q.at, location |-> Tables[k].location] :
              k \in {j \in TablesAt(q.at, q.party, NoPreference, bs) :
                       Tables[j].location # q.location}})

\* Two at most, of which one keeps the time if another room is free.
Kept(times, places) ==
  [times EXCEPT !.found =
     IF @ # <<>> /\ places # <<>> THEN <<Head(@), Head(places)>>
     ELSE SubSeq(@ \o places, 1, Min({2, Len(@ \o places)}))]

\* _availability_alternatives: without a preferred location there are none.
Alternatives(q, impossible, clock, bs) ==
  IF q.location = NoPreference THEN [found |-> <<>>, error |-> None]
  ELSE Kept(IF impossible THEN [found |-> <<>>, error |-> None] ELSE TimeAlternatives(q, clock, bs),
            LocationAlternatives(q, bs))

Impossible(n, location) ==
  location # NoPreference /\ TooMany(n, location)

Failed(q, error) == [query |-> q, tables |-> {}, alternatives |-> <<>>, error |-> error]

\* The tables, or what the caller may have instead.
Answered(q, found, alts) ==
  IF found # {} THEN [Failed(q, None) EXCEPT !.tables = found]
  ELSE IF alts.error # None THEN Failed(q, alts.error)
  ELSE [Failed(q, None) EXCEPT !.alternatives = alts.found]

\* check_availability
Availability(q, clock, bs) ==
  LET impossible == Impossible(q.party, q.location)
      error == FirstError(<<ParseError(q.at, clock), PartyError(q.party)>>)
  IN  IF error # None THEN Failed(q, error)
      ELSE IF ~ReservationOpen(q.at) THEN Failed(q, None)
      ELSE Answered(q, IF impossible THEN {} ELSE TablesAt(q.at, q.party, q.location, bs),
                    Alternatives(q, impossible, clock, bs))

Bookings == others \cup (IF mine = None THEN {} ELSE {[table |-> mine.table, at |-> mine.at]})

-----------------------------------------------------------------------------
(* Citing the offer. *)

Expired(o) == now > o.made + OfferTTL

\* require_offered_table
OfferedTable(k, t, n) ==
  /\ offer # None /\ ~Expired(offer)
  /\ offer.query.at = t /\ offer.query.party = n
  /\ k \in offer.tables

\* require_fresh_availability_for_party_change
FreshForParty(t, n, location) ==
  /\ offer # None /\ ~Expired(offer)
  /\ offer.turn > 0 /\ turn - offer.turn <= TurnAge
  /\ offer.query.at = t /\ offer.query.party = n
  /\ \/ location = NoPreference
     \/ offer.query.location \in {NoPreference, location}
  /\ offer.tables # {}

-----------------------------------------------------------------------------
(* The draft. *)

Empty == [party |-> 0, at |-> None, held |-> FALSE]
Describing(b) == [party |-> b.party, at |-> b.at, held |-> TRUE]

\* get_reservation_draft without and with hydrate_call_memory before it
Loaded == IF draft = None THEN Empty ELSE draft
Hydrated == IF draft = None THEN row ELSE draft

\* Mutant: a new time that comes with the party is not looked at.
OldSlot(d, t) == d.at

\* The time a new party must have been checked for
Slot(d, t) == IF t # None THEN t ELSE d.at

-----------------------------------------------------------------------------
\* The table is free for a booking, as others make and change them.
Standing(b, bs) ==
  TablesError(b.at, b.party, now) = None /\ b.table \in TablesAt(b.at, b.party, NoPreference, bs)

\* The call has no booking yet, or is about one of an earlier call.
Init ==
  /\ now \in Starts
  /\ others = {}
  /\ mine \in {None} \cup {b \in Foreign : Standing(b, {})}
  /\ draft = None /\ row = Empty /\ change = None
  /\ offer = None /\ turn = 0 /\ answer = None /\ checks = <<>>

Tick ==
  /\ now < MaxNow
  /\ now' = now + 1
  /\ UNCHANGED <<others, memory, offer, turn, answer, checks>>

\* A caller turn: hydrate_call_memory and begin_caller_turn
BeginTurn ==
  /\ turn < MaxTurns
  /\ turn' = turn + 1 /\ draft' = Hydrated
  /\ UNCHANGED <<now, others, mine, row, change, offer, answer, checks>>

\* The answer, and remember_availability_offer; a check that raises records
\* nothing.
Remember(a) ==
  /\ answer' = a
  /\ \/ /\ a.error = None
        /\ offer' = [query |-> a.query, tables |-> a.tables, turn |-> turn, made |-> now]
        /\ checks' = Append(checks, offer') /\ draft' = Loaded
     \/ a.error # None /\ UNCHANGED <<offer, checks, draft>>

\* The check tool.
Check(q) ==
  /\ Len(checks) < MaxChecks
  /\ Remember(Availability(q, now, Bookings))
  /\ UNCHANGED <<now, others, mine, row, change, turn>>

\* Another call books a table, or gives its table back.
OtherBooks(k, t) ==
  /\ Cardinality(others) < MaxOthers
  /\ t \in Asked /\ ~Taken(k, t, Bookings)
  /\ others' = others \cup {[table |-> k, at |-> t]}
  /\ UNCHANGED <<now, memory, offer, turn, answer, checks>>

OtherCancels(b) ==
  /\ others' = others \ {b}
  /\ UNCHANGED <<now, memory, offer, turn, answer, checks>>

\* The booking is changed by another call, or by a request that overlaps.
ChangedElsewhere(b) ==
  /\ mine # None /\ Standing(b, others)
  /\ mine' = b
  /\ UNCHANGED <<now, others, draft, row, change, offer, turn, answer, checks>>

\* update_reservation_draft: refused when the draft has a booking.  A party that
\* was named before changes on a check only.  The save to the row may fail.
UpdateDraft(e) ==
  /\ ~Hydrated.held
  /\ e.party \in Parties => PartyError(e.party) = None
  /\ e.party \in Parties /\ Hydrated.party \notin {0, e.party} =>
       \E l \in Places : FreshForParty(Slot(Hydrated, e.at), e.party, l)
  /\ draft' = [Hydrated EXCEPT !.party = IF e.party # None THEN e.party ELSE @,
                               !.at = IF e.at # None THEN e.at ELSE @]
  /\ row' \in {row, draft'}
  /\ UNCHANGED <<now, others, mine, change, offer, turn, answer, checks>>

\* get_reservation_draft: sync_confirmed_draft_from_booking
Refresh ==
  /\ Hydrated.held
  /\ draft' = Describing(mine) /\ row' \in {row, draft'}
  /\ UNCHANGED <<now, others, mine, change, offer, turn, answer, checks>>

\* The booking as a transaction leaves it, and the draft that it merges into the
\* row; the request may be cancelled before set_active_booking.
Written(b) ==
  /\ mine' = b /\ row' = Describing(b)
  /\ draft' \in {Loaded, Describing(b)}

\* create_booking on a table the caller chose: the location no longer counts.
BookChosen(k, t, n) ==
  /\ mine = None
  /\ OfferedTable(k, t, n)
  /\ TablesError(t, n, now) = None
  /\ k \in TablesAt(t, n, NoPreference, Bookings)
  /\ Written([table |-> k, at |-> t, party |-> n])
  /\ UNCHANGED <<now, others, change, offer, turn, answer, checks>>

\* create_booking in a preferred location, or anywhere.
BookAny(t, n, location) ==
  LET ks == TablesAt(t, n, location, Bookings)
  IN  /\ mine = None
      /\ TablesError(t, n, now) = None
      /\ ~Impossible(n, location)
      /\ ks # {}
      /\ Written([table |-> Smallest(ks), at |-> t, party |-> n])
      /\ UNCHANGED <<now, others, change, offer, turn, answer, checks>>

\* update_confirmed_booking before its transaction; the call for the readback is
\* judged in the same way.  The local tool hydrates first.
AskChange(r, d) ==
  /\ mine # None /\ change = None /\ Len(checks) <= MaxChecks
  /\ d \in {Loaded, Hydrated}
  /\ r.party \notin {0, d.party} => FreshForParty(Slot(d, r.at), r.party, r.asked)
  /\ draft' = d
  /\ change' = [request |-> r, draft |-> d, turn |-> turn, clock |-> now]
  /\ UNCHANGED <<now, others, mine, row, offer, turn, answer, checks>>

\* The booking it is to become; what the request does not name stays.
WantedAt == IF change.request.at # None THEN change.request.at ELSE mine.at
WantedParty == IF change.request.party # 0 THEN change.request.party ELSE mine.party

\* changing_slot or location_changed
Requeried ==
  \/ change.request.at # None \/ change.request.party # 0
  \/ change.request.location \notin {NoPreference, Tables[mine.table].location}

\* Its transaction.  With no table left it asks for alternatives, and that check
\* is recorded where the session is bound (not behind the HTTP routes).
WriteChange ==
  LET location == change.request.location
      ks == TablesAt(WantedAt, WantedParty, location, others)
      alternatives == Availability([at |-> WantedAt, party |-> WantedParty, location |-> location],
                                   now, others)
  IN  /\ change # None /\ change' = None
      /\ Requeried => TablesError(WantedAt, WantedParty, now) = None
      /\ \/ /\ ~Requeried
            /\ Written(mine) /\ UNCHANGED <<offer, answer, checks>>
         \/ /\ Requeried /\ ks # {}
            /\ Written([table |-> Smallest(ks), at |-> WantedAt, party |-> WantedParty])
            /\ UNCHANGED <<offer, answer, checks>>
         \/ /\ Requeried /\ ks = {}
            /\ \/ Remember(alternatives)
               \/ answer' = alternatives /\ UNCHANGED <<offer, checks, draft>>
            /\ UNCHANGED <<mine, row>>
      /\ UNCHANGED <<now, others, turn>>

\* The change is refused by the gate, or rolled back.
DropChange ==
  /\ change # None /\ change' = None
  /\ UNCHANGED <<now, others, mine, draft, row, offer, turn, answer, checks>>

\* The process restarts: the offer is nowhere else, the turn comes back.
Restart ==
  /\ offer' = None /\ draft' = None /\ change' = None
  /\ UNCHANGED <<now, others, mine, row, turn, answer, checks>>

Next ==
  \/ Tick
  \/ BeginTurn
  \/ \E q \in Query : Check(q)
  \/ \E k \in DOMAIN Tables, t \in Asked : OtherBooks(k, t)
  \/ \E b \in others : OtherCancels(b)
  \/ \E b \in Foreign : ChangedElsewhere(b)
  \/ \E e \in Edits : UpdateDraft(e)
  \/ Refresh
  \/ \E k \in DOMAIN Tables, t \in Asked, n \in Parties : BookChosen(k, t, n)
  \/ \E t \in Asked, n \in Parties, l \in Places : BookAny(t, n, l)
  \/ \E r \in Requests, d \in {Loaded, Hydrated} : AskChange(r, d)
  \/ WriteChange \/ DropChange
  \/ Restart

Spec == Init /\ [][Next]_vars

-----------------------------------------------------------------------------

(* No stay is accepted that the restaurant's hours cut short: at every      *)
(* instant of it the restaurant is open, and on the patio the patio is.     *)
(* The code looks at the first and the last instant of a stay only          *)
(* (services/restaurant.py:773).                                            *)
DeclaredOpen(t) ==
  /\ \A i \in 1..Len(Exceptions) :
       LET e == Exceptions[i] IN
       IF Holiday(e) THEN DayOf(t) = DayOf(e.from) => e.from <= t /\ t < e.to
       ELSE t < e.from \/ e.to <= t
  /\ \/ \E i \in 1..Len(Exceptions) : Holiday(Exceptions[i]) /\ DayOf(t) = DayOf(Exceptions[i].from)
     \/ LET day == Regular[DayOf(t)] IN
        day.status = "open" /\ day.open <= TimeOf(t) /\ TimeOf(t) < day.close

StayIsOpen ==
  mine # None =>
    /\ \A u \in mine.at..(mine.at + Stay - 1) : DeclaredOpen(u)
    /\ Tables[mine.table].location = "patio" =>
         \A u \in mine.at..(mine.at + Stay - 1) : ScheduleStatus("patio", u, 0, FALSE)

(* Whatever the answer offers instead can be had: asking for an alternative  *)
(* at once finds a table (783-866).                                         *)
AlternativesAreBookable ==
  [][answer' # answer /\ answer' # None =>
       \A i \in DOMAIN answer'.alternatives :
         LET alt == answer'.alternatives[i]
             q == [at |-> alt.at, party |-> answer'.query.party, location |-> alt.location]
             seen == IF change' = change THEN Bookings ELSE others
         IN  Availability(q, now, seen).tables # {}]_vars

(* "Party-size edits must cite a check from this many confirmation turns ago *)
(* or fewer" (availability_offer.py:11): a booking's party size changes only *)
(* if a check of this call, recent and young when the change was asked for,  *)
(* found a table for that party at the time the booking then has, provided   *)
(* that the draft the change was judged by describes the booking it meets.   *)
(* The code compares with that draft (services/restaurant.py:1206), which    *)
(* may be of another booking, of none, or out of date.                       *)
PartyChangesAreCited ==
  [][change # None /\ change' = None /\ mine' # mine /\ mine'.party # mine.party
        /\ change.draft = Describing(mine) =>
       \E i \in DOMAIN checks :
         LET o == checks[i] IN
         /\ o.query.at = mine'.at /\ o.query.party = mine'.party /\ o.tables # {}
         /\ o.turn > 0 /\ change.turn - o.turn <= TurnAge
         /\ change.clock - o.made <= OfferTTL]_vars

(* "When a preferred location is full, keep one location alternative if      *)
(* another room is free at the requested time." (services/restaurant.py:796) *)
LocationAlternativeIsKept ==
  [][\A q \in Query :
       /\ Check(q)
       /\ q.location # NoPreference /\ TablesError(q.at, q.party, now) = None
       /\ q.location \notin ClosedAreas(q.at, q.party)
       /\ TablesAt(q.at, q.party, q.location, Bookings) = {}
       /\ LocationAlternatives(q, Bookings) # <<>>
       => \E i \in DOMAIN answer'.alternatives : answer'.alternatives[i].at = q.at]_vars
=============================================================================
