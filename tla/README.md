# A TLA+ verification of restaurant-agent

restaurant-agent answers a restaurant's telephone. A language model talks to
the caller and acts through tools: an HTTP API (`app/tool_api.py`) for the
hosted voice agent, and local tools (`app/tools/db.py`) for the agent in this
repository. Both call one service (`app/services/restaurant.py`) over
PostgreSQL. The language model is not trusted: what it may write is limited by
a server-owned gate (`app/pending_confirmation.py`) that wants a readback and a
later "yes" of the caller, kept in the memory of the call (`app/call_memory.py`).
How it talks is steered by a reducer (`app/behavior.py`) that the Retell
WebSocket handler (`app/retell_handler.py`) runs for each turn.

This directory models the program in TLA+, checks it with TLC and proves the
properties that matter most with TLAPS. Part 1 is the inventory, part 2 the
modules, part 3 the runs, part 4 the proofs, part 5 what is missing and the plan.

## 1. Inventory

| Component | State | Operations | Talks to | What makes it correct | Module |
|---|---|---|---|---|---|
| Reservation write path (`services/restaurant.py` 404-1904, `db/schema.sql`) | `bookings`, `voice_action_idempotency`, `call_sessions.state` | create, change, cancel a booking; the ledger around each | gate, call memory, orders | no two bookings of one table and time; one effect and one answer per key; a cancelled booking stays cancelled; nobody waits for ever | Bookings |
| Call memory (`call_memory.py`, `reservation_draft.py`, `caller_turn.py`) | `_memory[call]`: draft, turn number, last affirmation, pending readbacks | hydrate, caller turn, update draft, set active booking | `call_sessions` (its durable copy), gate | what is restored is not newer than what was said; the draft knows the booking | CallMemory |
| Confirmation gate (`pending_confirmation.py`) | records in call memory and in the row | register, require, clear, reverse | call memory, every write | a write has the details of a readback that a later yes covered; a readback is used once; a stopped cancellation is not carried out | Confirmation, CallMemory, Amendments |
| Orders (`services/restaurant.py` 2107-3145) | `orders`, `order_items`, `draft_version` | add, change, remove item, notes, fulfilment, summary, confirm | gate, bookings, schedule | what is confirmed is what was read back, and can be served | Orders, Preorder |
| Availability (`services/restaurant.py` 585-866, 1135-1476, `availability_offer.py`) | the last offer and the draft, in call memory; the draft in the row | check, remember, require; update the draft; change the booking | schedule, tables, create and change | what is offered can be had; no stay is cut short; a party changes on a check for that party and time | Availability |
| Restaurant knowledge (`restaurant_knowledge.py`) | a fixed document | schedule, menu and policy queries | everything | opening hours agree with the document at every boundary | Schedule |
| Retell handler (`retell_handler.py`, `call_flags.py`, `behavior_store.py`) | per connection: the response in work, its task, the behaviour state; the control flags; `call_sessions.behavior_state` | receive, interrupt, respond, end or transfer, save, reconnect | agent, behaviour | one response at a time; a stale one is not spoken; every turn is answered; a call is ended by the answer that asked for it | ResponseTurns, RetellHandler |
| Behaviour (`behavior.py`, `turn_evidence.py`) | `BehaviorState` of a call | reduce a turn to a state and a directive | handler | a call ends for a cause; pace and tone follow the caller and do not flap | Behavior |
| Local agent (`agent/`, chat and Vapi routes of `main.py`, `tools/db.py`) | messages of a conversation | one turn, with or without a stream | the same service | a write once per turn; what the caller said is kept; a turn ends | LocalAgent |
| Knowledge gaps (`services/restaurant.py` 3364-3558, `knowledge_search.py`) | `knowledge_gaps`, `operator_knowledge` | search, log, resolve | dashboard, voice tools | what operators see and what callers hear agree | KnowledgeGaps |
| Provisioning (`scripts/provision_retell.py`) | none of its own; the Retell account | list, update, buy | Retell | no number is bought twice or without confirmation, and the report is true | Provisioning |
| Rate limiter (`rate_limit.py`) | times of recent requests per key | check | web routes | at most `limit` requests in any window | RateLimit |
| HTTP application (`main.py`, `retell_ws_auth.py`, `call_analytics.py`) | minted calls, `call_sessions`, `provider_webhook_events`, `call_events` | mint, connect, webhook, cleanup at start-up | Retell, handler | an event counts once; a call that ended does not go on | Calls |
| Connection pool (`db_pool.py`) | at most 10 connections | acquire, release | every operation | who waits for a connection gets one | ConnectionPool |
| Voice tool API (`tool_api.py`) | none of its own; updates call memory after the service returns | one handler per tool | service, memory | memory agrees with what was committed | with the component it calls |
| Settings file (`restaurant_settings.py`), spoken text, speech synthesis, pages and reports, schema and seed data, evaluation and release scripts | | | | | none: part 5 |

The hard behaviours are these; `PROJECT.json` lists them one by one as hazards.

* **Concurrent transactions.** Operations run in READ COMMITTED transactions,
  and no constraint of the schema forbids overlapping bookings: the locks the
  code takes must do it. Which locks, in which order, and what a statement sees
  when it has waited, decides everything.
* **Retries.** The voice platform repeats a call that timed out, while the first
  one may still be running. The ledger must make them one. Retell also repeats
  and reorders its webhooks, and the provisioning script is run again after a
  purchase whose answer was lost.
* **Two copies of a call's state.** Memory changes at once, the row is merged
  later, by whichever handler gets there, with a patch computed earlier.
  Requests about one call overlap at every `await`.
* **Restarts.** Memory is lost, the row stays, transactions roll back, and the
  next request hydrates from a row that may be older than what memory held.
* **The gate across all of that.** It is tested in memory, but its fields are
  saved, restored and overwritten by the mechanisms above.
* **Interruptions.** A caller speaks while an answer is produced: the task that
  produces it is cancelled at an await, its effects must stay or go as a whole.
* **Time.** Hours, cutoffs, releases, offers and tokens are tested against a
  clock that goes on between the test and the write.

## 2. Modules

```
Bookings ──────────── MCBookings, MCLive     BookingsProofs
Confirmation   what the gate promises
    ↑ implemented by
CallMemory ────────── MCCallMemory           CallMemoryProofs
Amendments ────────── MCAmendments           AmendmentsProofs
Orders ────────────── MCOrders               OrdersProofs
Schedule   pure operators over the hours
    ├── Availability ─┐
    └── Preorder ─────┴ Visits ── MCTables   VisitsProofs
ResponseTurns
    ↑ implemented by
RetellHandler ──┐
Behavior ───────┴ Talk ── MCTalk             TalkProofs
Calls ──────────┐
KnowledgeGaps   │
Provisioning    ├ Outside ── MCOutside       OutsideProofs
RateLimit       │
LocalAgent ─────┘
RetellHandler, LocalAgent ── MCLive
ConnectionPool ────── MCLive                 ConnectionPoolProofs
```

`Visits`, `Talk` and `Outside` put components side by side that meet the same
guests, the same call or the same outer world, and share constants but no variables: each extends one
component and instantiates the others. Their proof modules have a section for each component.

A component's module has its state, one action per operation or per stretch of a
coroutine between two awaits, and its properties. It is parameterised: sets of
attempts, calls, keys, tables, requests, connections; durations and limits; and the
bounds, whose names begin with `Max`. Apart from sets of ids, bounds appear in guards only.

**Stories.** The MC modules instantiate components for TLC. A run asks one question of
several instances: the variable `story` is chosen in the initial state, and
a behaviour moves the instance that its story names and leaves the others as they
are. So parts that do not share state can be checked in one run, and one component with
several sets of parameters (requests that overlap on a short instance, requests one at a time on
a long one), without the product of their states. A property that only one story is about
names it.

### Bookings

An *attempt* is one execution of `create_booking`, `update_confirmed_booking`
or `cancel_booking`. A retry is another attempt with the same request. The
position `pc` of an attempt is the statement it executes next:

| Action | Code |
|---|---|
| `Submit` | the checks before the transaction (a change or a cancellation meets the gate here too) |
| `ClaimKey`, `ReplayKey` | `INSERT ... ON CONFLICT DO NOTHING` into the ledger; the answer that was stored, or a conflict |
| `CheckCreate`, `Recheck` | the call's present booking and the gate, inside the transaction |
| `LockRow` | `SELECT ... FOR UPDATE` of the booking, and what its status allows |
| `SelectTables`, `LockTable` | the table query in two steps: the snapshot its `NOT EXISTS` sees, and the row `FOR UPDATE SKIP LOCKED LIMIT 1` takes |
| `WriteBooking` | INSERT or UPDATE of the booking; a creation uses up its readback here |
| `MergeSession` | the upsert of `call_sessions`, which waits for the row |
| `Commit`, `Settle` | the ledger entry is completed and the transaction commits, with or without an effect on the booking |
| `Rollback` | a statement fails, a check on data fails, the task is cancelled |
| `Restart` | the process dies |
| `CallerTurn` | the caller speaks or something is read back: what the gate accepts changes |

A lock is not a variable. It is held by the attempt whose `pc` lies between the
statement that takes it and the end of its transaction (`KeyHeld`, `RowLocked`,
`TableLocked`, `SessionLocked`), so that no step can forget to release one.

`SelectTables` and `LockTable` are apart because PostgreSQL evaluates the query
on the snapshot of the statement's start and locks the row afterwards; when the
locked row itself has not been modified, the condition is not evaluated again.
No operation of this program modifies a row of `tables`. `missed` records,
for an attempt between these steps and then for the booking it makes, which
bookings were placed in between. It is a history variable: nothing reads it
except `NoUnseenOverlap`.

Abstractions. A request carries `wants`, the tables that pass every filter that
does not depend on other bookings (capacity, room, the number the caller chose,
closed areas). `session[c]` is the booking id in the reservation draft of
`call_sessions.state`. `approved` is what the gate of a call would accept, per
action; how it comes to accept it is the subject of CallMemory. The payload of
a new booking names no table and no room, as in the code. A change of the time
carries the complete new start; `Same` stands for a change of the party's size,
which looks for a table again at the start the booking has, and `NoSlot` for a
change that leaves the start alone, which moves the booking only if its table is
not in the room that is asked for. The second connection that a change uses to
look for alternatives is a pure read and part of `LockTable`. The order that a
new booking attaches belongs to the module Orders; a failing check on it
is one of the reasons of `Rollback`.

### Confirmation and CallMemory

`Confirmation` is the promise, in three actions: details are read back, the
caller says yes to what was read back so far, and a booking is made from a
readback that a yes covers.

`CallMemory` is one call: its memory, its row in `call_sessions`, and any number
of requests about it. A step is what a coroutine does between two awaits.

| Action | Code |
|---|---|
| `Arrive`, `ReadRow`, `Hydrated` | `hydrate_call_memory`: test whether memory is empty, await the row, store what it held over memory as it is by then; an error counts as an empty row |
| `CallerTurn` | `process_caller_turn`: the turn number and the classification, in memory only |
| `SaveDraft`, `Persist` | the draft in memory, and its patch of the row after the await |
| `ReadBack`, `Persist` | `get_reservation_draft` registers the pending record and persists the gate's fields |
| `ShowDraft`, `ApplyBooking`, `Persist` | `get_reservation_draft` of a booked draft: reload the booking, overwrite memory, persist |
| `OtherReadback` | a readback of another action: it does not hydrate, and persists all gate fields |
| `ReadSession`, `CheckGate`, `Insert`, `Commit`, `Remember` | `create_booking` and, after its commit, `set_active_booking` |
| `Fail`, `Restart` | an error or a cancelled task at any await; the process dies |

A state row or a patch has two groups of keys, those of `pending_state_patch`
and those of `flatten_draft`; the `||` of JSON objects replaces a group that is
present (`Merged`). The time to live of a record is a choice: `CheckGate` may
find any record expired and drop it. `said`, `readbacks`, `agreed` and `booked`
are the history the promise is about. The identity of a record (`created_at`
in the code) is the number of its readback. `overlapped` is one more history variable, here and in Amendments:
two requests were under way at the same time. `SpentOnceIfSerial` and `CancellationStoodIfSerial`
claim something only of the behaviours in which that has not happened yet.

Left out here: the tables and idempotency keys (Bookings has them; each creation
here has a key of its own), the pending records of other actions, which
appear by the row they persist, and the booking that hydration may also find
through an order.

### Orders

The orders of one call and any number of requests about it, each write in a
transaction of its own. Like an attempt in Bookings, a request has a position,
and a lock is held by a request whose position is `write`.

| Action | Code |
|---|---|
| `Arrive`, `Look` | a request; what `add_order_item` and `add_guest_note` read before they have a lock |
| `Choose` | the order, and for `update_order_item` and `remove_order_item` the item, that `SELECT ... FOR UPDATE` picks from its snapshot |
| `LockForChange`, `LockToBook`, `CheckConfirm` | the lock is free: the row is read again and judged as it is now |
| `InsertOrder` | the insertion of a draft and the unique index on pending drafts |
| `AddItem`, `ChangeItem`, `SetNotes`, `SetFulfillment`, `Book`, `ConfirmOrder` | the statements after the lock, and the commit |
| `CancelBooking` | the booking of the call is cancelled; its orders stay |
| `ReadRow`, `ReadItems` | the two statements of `get_order_summary`, which takes no lock; the second registers the readback |
| `Turn` | what the gate would accept changes: the caller says yes or no, a record expires, memory is lost and restored |
| `Fail` | a check on data fails, a statement is aborted, the task or process dies |

The gate is one number, `accepts`: the readback `confirm_order` would match now.
`Turn` sets it to any readback that came before the caller's last yes. That is what CallMemory
proves of the gate for `create_booking`; the record of `confirm_order` is
handled by the same functions. An item costs its quantity, so the total
tells items apart; modifiers and an item's notes would only be more content of
the payload. Whether paid items need the caller's approval is a choice at each
addition. Left out: name and phone on an order (not in the payload), notes sent together
with an item, an order found by the booking of another call, the ledger.

### Amendments

The one confirmed reservation of a call, its gate's fields in memory and in the row,
and any number of requests that read back, confirm, or answer a readback.

| Action | Code |
|---|---|
| `Arrive`, `ReadRow` | a request; hydration when memory is empty (a cancellation does not hydrate) |
| `CallerTurn` | `process_caller_turn`: turn number and classification, then the model goes on |
| `StopCancellation`, `Invalidate`, `LookUp`, `InvalidateAgain` | a "no" to a pending cancellation: the record is cleared in memory, the row is told, the reservation is read without a lock, and the caller hears that it was stopped; an error at either await leads to a second try |
| `ReadBack`, `Persist` | the readback of a change or a cancellation; the row never gets the record of a cancellation (`StatePatch`) |
| `CheckFirst`, `CheckAgain` | the gate before and inside the transaction; an expired record is dropped |
| `Lock`, `Write`, `ClearRecord`, `Commit`, `TakePatch` | `SELECT ... FOR UPDATE`, the statements, the record consumed in memory, the commit or its failure, and the patch of the row with memory as it is after that |
| `Crash` | memory and requests are gone, the transaction is rolled back |

### Schedule, Availability and Preorder

`Schedule` has no state: `operating_status`, `schedule_status`, the service periods of
a dish, the hours, days and cutoffs of areas and fulfilment, the reservation
window and the rule that a stay must end while the restaurant is open. Time is counted in ticks of half an hour, the finest step in which the fixture and
the code move a time.

The code looks at the first and the last instant of a stay. That this is enough depends on the data, and `ScheduleAssumption` names
what it takes: a closure is longer than a stay (`ClosuresAreLong`), the restaurant does not open shortly after midnight
(`DaysBeginLate`), and a day with the hours of a holiday has no other exception (`HolidaysAreAlone`; the list is searched from its
start, and the first exception that speaks for an instant decides). All three are true of
`db/fixtures/harbor_and_hearth.v1.json`; the code that loads the document does not test them.

| Availability | Code |
|---|---|
| `Tick`, `BeginTurn`, `Restart` | the clock; a caller turn; memory is lost |
| `Check` | `check_availability`: the free tables; if there are none and a room was preferred, nearby times in that room and other rooms at that time, two of them; the offer that the answer leaves in call memory |
| `OtherBooks`, `OtherCancels` | other calls |
| `BookChosen`, `BookAny` | `create_booking` with a table the caller chose, which must cite an offer, and without |
| `UpdateDraft`, `Refresh` | `update_reservation_draft`: a party that was named before changes on a fresh check only, and nothing changes once the draft has a booking; `get_reservation_draft` of a booked draft loads the booking. Their save to the row may fail |
| `AskChange` | `update_confirmed_booking` up to its transaction: a party that differs from that of the draft *in memory* must cite a fresh check, for the time that is asked for or else the draft's |
| `WriteChange`, `DropChange` | its transaction: time, party and room against the row as it is by then, and with no table left the check for alternatives, which is recorded only where a session is bound; the gate refuses, or a statement fails |
| `ChangedElsewhere` | the booking is changed by another call or by an overlapping request |

A request carries two rooms. The check for a party's change is compared with the room that is asked for (`asked`, 1214); the query
of the tables also understands the words of a preference, or falls back to the draft in the row (`location`, 1308). `change` is the
request between the two, with the draft, the turn and the time it was judged by.

| Preorder | Code |
|---|---|
| `AddRead`, `AddWrite` | `add_order_item`: the service time is computed from rows without a lock, the item is written under the order's lock |
| `FulfilRead`/`FulfilWrite`, `ConfirmRead`/`ConfirmWrite` | `set_order_fulfillment` and `confirm_order`: under the order's lock, but the reservation is read without one |
| `MoveRead`/`MoveWrite`, `Cancel`, `Book` | the reservation moves under its own lock, and looks at the confirmed order without one; it is cancelled; it is made and takes a pending order along |
| `Remove`, `Rollback`, `Tick` | an item is removed; a transaction fails; the clock |

`skew` is a history variable: some commit rested on a row that another commit changed after it was read.

### ResponseTurns, RetellHandler and Behavior

`ResponseTurns` is what Retell may rely on: answers are for the newest question, and
nothing follows a complete answer. `RetellHandler` has the connections of one
call; a reconnection is another connection, and an old one may still be going down.

| Action | Code |
|---|---|
| `Connect`, `Lose`, `Close`, `Closed` | accept and load the snapshot; the socket breaks; the loop learns of it and cancels the task |
| `Receive`, `Cancelled` | a request opens the gate for its id and waits until the task before it has ended |
| `Start`, `CallerTurn`, `Chunk`, `RequestControl`, `Complete`, `Error` | the stages of the task: greeting, the turn's own answer, the model's stream, a tool that asks to end or transfer, the final event |
| `Emit`, `Sent`, `Marked` | `send_response`: the gate is asked, the event goes out, the state is committed after an await; the greeting is marked and its save awaited |
| `Unwind`, `Swallow` | the cancellation is seen at the next await; or it meets an `except` and is swallowed |
| `Land` | a save reaches the database; saves are not ordered |

`Behavior` is `reduce_behavior`, as one action `Turn`. Its input is an observation: what the regular expressions find in the
words (a boundary, a wish for a human, a complaint, a pace that is asked for, ...), the measured words
and duration, and whether staff are on duty. The state has the counters, rates, wishes and the phase
of the call; the directive has what the answer is told. `heard` and `tally` are history that only properties read.

### LocalAgent

| Action | Code |
|---|---|
| `Arrive` | a message: the history is copied, a streamed one stored at once, the action scope derived |
| `CallerTurn`, `Retry`, `Answer`, `Abandon` | an answer without the model; the second attempt of `run_agent`; the answer, stored in the history; cancellation or an error |
| `CallTools`, `ToolLimit`, `RunTool`, `BatchDone` | the graph: reads first, at most so many rounds, one tool call after the other; a write goes through the ledger under a key made of the scope |
| `ClearSession` | `DELETE /session` |

The model is unconstrained: it may ask for any tools, any number of times.

### KnowledgeGaps, Provisioning, RateLimit, Calls, ConnectionPool

| Action | Code |
|---|---|
| `Search`, `Report`, `Log` | look a question up in the document and in the operators' answers; the tool that logs it; the upsert, which waits for a resolution's lock |
| `Submit`, `LockGap`, `FindFaq`, `WriteFaq`, `Commit`, `Abort` | `resolve_knowledge_gap`, statement by statement; the unique index lets one of two insertions wait and fail |
| `Begin`, `Page`, `Decide` | a run of the provisioning script: settings, the pages of the listing, what to do |
| `Update`, `Sell`, `Refuse` | Retell carries a request out, once, or not |
| `Answered`, `Fail` | the answer arrives, or a timeout or error |
| `Admit`, `Refuse`, `Tick`, `Restart` (RateLimit) | `SlidingWindowLimiter.check`; the clock; the process forgets |
| `Dial`, `WebCall`, `HangUp` | calls begin and end at Retell |
| `Connect`, `Disconnect`, `Turn` | the WebSocket with the token or a minted call; a turn or tool call that writes the row |
| `Webhook`, `Restart` (Calls) | one delivery, in one transaction; the start-up cleanup, whose statements may be cut short |
| `Begin`, `Grant`, `End`, `Fail` | an operation asks for a connection, gets it in its turn, and gives it back |
| `LookForAlternatives`, `GiveBack` | a change asks for another one inside its transaction |

## 3. Runs

| Run | Stories | Shows | Distinct states |
|---|---|---|---|
| `bookings` | 3 attempts that make bookings which compete for two tables (2 calls, 2 keys, one key for two requests); that move, enlarge or cancel one booking or book its new place; that cancel it twice | `TypeOK`, `NoUnseenOverlap`, `SameKeySameAnswer`, `LedgerMatchesBookings`, `CancelledIsFinal` | 1.0 million |
| `memory` | 2 overlapping handlers, one restart; or one at a time, with 2 sets of details, 2 readbacks, 3 turns, one restart | `ImplementsConfirmation`, `NextYesConfirms`, `SpentOnceIfSerial` | 3.0 million |
| `orders` | 2 requests at a time that add, remove, switch between pickup and delivery, read back and confirm (2 readbacks); or that add, change, annotate, confirm, and book a table | `ConfirmedAsReadBack`, `TakeawayIsFrozen`, `SureChangesOnly`, `DeliveryHasAddress`, `TotalIsOfItems` | 1.1 million |
| `amendments` | requests one at a time over 3 turns, 3 readbacks and one crash; or 2 that overlap, with 2 turns and 2 readbacks, and 2 sets of details | `DoneAsAgreed`, `CancellationStoodIfSerial`, `CancelledIsFinal` | 4.3 million |
| `talk` | the reducer over four kinds of turns (ends and handoffs, tone, wishes, measured pace); one connection with chunks, threats and a swallowed cancellation; two connections | `EndIsEarned`, `PaceIsSteady`, `AskedPaceWins`, `ToneIsHeld`, `ImplementsTurns`, `ControlIsOwn`, `CommittedWasDelivered` | 1.1 million |
| `tables` | checks and bookings at every edge of hours, areas, a closure and a holiday; moves of a booking to these edges, with and without a room; changes of its party, with drafts that describe it or not, and offers that age and are replaced; pre-orders over a day, one at a time; pre-orders that overlap | `StayIsOpen`, `AlternativesAreBookable`, `PartyChangesAreCited`, `ServedUnlessSkewed`, `TakeawayInTime` | 1.9 million |
| `outside` | two calls with their webhooks; two operators and one question; two runs of the script, with an exact number, any number, a number at hand; a limiter of two in three ticks; chats that overlap, are interrupted, or use every tool | `EventOnce`, `EndedStaysEnded`, `NewestResolutionIsTold`, `AccountIsAsTold`, `NeverOverLimit`, `OncePerTurn`, `UtteranceSurvives` | 1.9 million |
| `live` | under fairness: a pool of 3 with 4 operations, 2 of them changes; 2 attempts to write; one connection; 2 chat messages | `EveryAttemptIsAnswered`, `EachQueryRuns`, `NotStuck`, `EveryTurnIsAnswered`, `EveryTurnEnds` | 57 thousand |
| `bookings_readme` | as `bookings` | **violated**: `NoDoubleBooking` | |
| `memory_yes` | as `memory` | **violated**: `LatestUtteranceIsYes` | |
| `amendments_stop` | as `amendments` | **violated**: `CancellationStood` | |
| `tables_nearby` | as `tables`, with two tables | **violated**: `LocationAlternativeIsKept` | |

**Bounds**, and why they are enough to be interesting. *Bookings*: three attempts are a pair that
race and a third that holds what one of them needs; two tables make SKIP LOCKED
choose another; two calls share a table and one call meets its own retry; a key
is used for two requests. The time units are chosen so that two starts overlap
(0 and 1 with a duration of 3) or just miss the turnover gap (0 and 4 with 3 and 1).
*CallMemory, Amendments*: two handlers give every pair of overlapping requests, and one
restart lets an older row meet newer requests; two sets of details separate a
readback of one from a yes to the other; three turns are a yes, a no and what
comes after. *Orders*: a draft of three versions
can be created, changed, read back and changed once more while a confirmation waits,
and a second order can be created by a request that found none. *Behavior* needs no
bound: its counters are capped by the code, and `Observations` is cut into four sets, each complete
for what its properties are about; `MaxSamples` is the code's 5, `Lookback` what `ToneIsHeld`
looks at. *RetellHandler*: four requests are an answer that is interrupted, by one that is interrupted too,
and one that finds both; two connections are an old one that is still going down and its successor.
*Times* have days of 14 ticks, in which every edge (opening, closing, cutoff, a patio that closes
earlier, a closure in the day) has an instant on both sides. *Calls*: with a retention of 2 and a delivery of 1 the cleanup meets events that may
still be repeated, and does not forget them; `TimesAssumption` asks for that, the code's values are 30 days (by default) and
less than a day. *LocalAgent*: the cap of the history is 4 or 8 entries for the code's 40, so
that it is reached; two rounds of tools for its three. *Provisioning*: an exact number, any number, and a number that is at hand
already are the three ways `execute` may go. *ConnectionPool*: 3 connections for 10; fewer changes than
connections is a condition of the properties, not of the code (see below).

Between them the passing runs take every action. Symmetry is used over attempts, handlers,
connections and operators, in runs without liveness only; no definition
distinguishes these values. Where a bound may stop a behaviour the run says `CHECK_DEADLOCK FALSE`; `bookings`, `memory` and `orders`
can always go on.

**Properties.** *Tables and the ledger.* `NoUnseenOverlap` says exactly how far the locks go: two
confirmed bookings of a table overlap only if the query of one ran before the
other committed and reached the table row after. `SameKeySameAnswer` and
`LedgerMatchesBookings` are the exactly-once promise of the ledger, across
retries, rollbacks and crashes. `CancelledIsFinal` says that no change that is
under way resurrects a cancelled booking.

*What the caller agreed to.* `ImplementsConfirmation` is a
refinement: whatever is restored, overwritten or lost, a booking has the details
of a readback that a later yes covered. `NextYesConfirms` says that a pending
record is never ahead of the turn counter: if it were, a caller's yes would
be refused as a "same-turn" confirmation. `SpentOnceIfSerial` is single use
across crashes, as long as requests do not overlap. `DoneAsAgreed` is the same promise for changes and cancellations, whose
records are handled differently, and `CancellationStoodIfSerial` says that none is carried out of which the
caller was told it was stopped, or that was read back before a crash.

*Orders.* `ConfirmedAsReadBack` says that what is confirmed is, item for item and with its
total, a payload that was read back before a yes, although the readback may be torn
between two statements, a stale `add_order_item` may overwrite the address, and a
reservation may take the order over without a new version. `TakeawayIsFrozen` and
`SureChangesOnly` are about requests that chose an order while it was a draft and
get its lock when it is confirmed. `DeliveryHasAddress` and `TotalIsOfItems` relate
the confirmed row to details and items that several requests write.
`ServedUnlessSkewed` relates dishes, clock and reservation: what is confirmed can be served when it is due, as long as no commit
rested on a row that changed after it was read. It thus says nothing once a confirmation and a move of the reservation have
crossed (see below). `TakeawayInTime` has no such condition: the row that a commit leaves confirmed is a takeaway the kitchen can make,
although it was judged at an earlier step, and dishes, kind and time are changed by other requests from what those read without a lock.

*Availability.* `StayIsOpen` (no booking, and no move of one, runs into a time when the restaurant or the patio is closed), `AlternativesAreBookable` (what
is offered can be had: asking for it finds a table) and `PartyChangesAreCited`. "Party-size edits must cite" a check
(`availability_offer.py:11`), but the code compares the new party with the draft in memory and not with the booking. The property
says what follows from that: the booking gets another party only on a young check for it, at the time the booking then has, *provided that*
the draft the change was judged by describes the booking that the transaction meets. Without the proviso it is false.

*Talking.* `ImplementsTurns` is the refinement of ResponseTurns by the handler. `ControlIsOwn` says that a call is ended or transferred by the answer
whose generation asked for it, though flags outlive tasks and connections. `CommittedWasDelivered` says that strikes and
silences are counted only for answers that were given. `EndIsEarned`, `PaceIsSteady`, `AskedPaceWins` and `ToneIsHeld`
are about the counters of many turns, against a history kept apart from the reducer's state.

*Outside.* `EventOnce` and `EndedStaysEnded` hold whatever the order and number of deliveries, with a cleanup that is
cut short in between. `NewestResolutionIsTold` relates gaps, published answers and commits. `AccountIsAsTold` is what
operators may believe of the script's reports while answers get lost. `NeverOverLimit` is about every window,
not only those that end with a request. `OncePerTurn` and `UtteranceSurvives` are about the two attempts of a turn and about interruptions.

*Liveness.* `EveryAttemptIsAnswered`: the locks of a transaction never form a cycle. `EachQueryRuns`: who waits for a
connection gets one. `EveryTurnIsAnswered`: each request of Retell is answered unless a newer one replaces it or the line goes
down. `EveryTurnEnds`: a model that always asks for tools is stopped.

**Four disagreements** of the code with its own words have a run:

1. `NoDoubleBooking`. README.md:47 promises that locking the selected table
   prevents a double booking. Two creations whose table queries overlap in time
   can still take the same table: the second query took its snapshot before the
   first committed, and finds the table row unlocked after it. `NoUnseenOverlap`
   is what does hold.
2. `LatestUtteranceIsYes`. `pending_confirmation.py:3` says writes need the
   latest utterance to be a yes. The utterance is not written to the row, so a
   restart after the caller's "no" can restore an earlier "yes". `ImplementsConfirmation`
   is what does hold.
3. `CancellationStood`. `services/restaurant.py:1746` says "I stopped the pending cancellation", having read the
   status without a lock; a `cancel_booking` past its gate commits after it. `CancellationStoodIfSerial` is what does hold.
4. `LocationAlternativeIsKept`. `services/restaurant.py:796` promises to keep an alternative in another room. For a request within the
   next two hours one of the nearby times is past, looking for its tables raises `past_booking`, and the whole check fails.

Others were met while modelling; they are in the models, and no property claims the contrary:

* The draft of a call accepts updates although its booking is confirmed, when memory does not know of the booking
  (`call_memory.py:107`). Two overlapping creations of one call with different keys spend one readback (`services/restaurant.py:960`).
* The second removal of an item is answered as done and advances the version (`services/restaurant.py:2448`, 2496).
* `update_order_item` and `remove_order_item` change an item of an order they have not locked, when the item they name does not exist yet at
  their first look (`services/restaurant.py:2448`, 2903, 2958); part 4 has the consequences.
* A pre-order can be confirmed for a reservation that moves meanwhile: each transaction locks one row and reads the other
  (`services/restaurant.py:3077`, 1326). `skew` marks these, and `ServedUnlessSkewed` excludes them.
* The party of a booking can change without any check for it, against `availability_offer.py:11` and its docstring at 97. `lookup_booking`
  finds a booking of an earlier call and leaves the draft as it is; `update_reservation_draft` takes a party unchecked when the draft
  has none (`call_memory.py:129`); then `update_confirmed_booking` to that party finds no difference (`services/restaurant.py:1206`). The same
  happens after a `set_active_booking` that never ran, and with memory that was not hydrated after a restart the new party must cite a check even if it is the old one.
  Availability has these behaviours; `PartyChangesAreCited` excludes them by its proviso.
* Saves of the behaviour state reach the row in any order (`retell_handler.py:186`), and an ended state is lost when a late
  packet precedes its commit (`retell_handler.py:182`). A handoff is dropped when staff hours end during the call (`behavior.py:1145`);
  "I'll connect you" can be said although the directive is to end the call (`behavior.py:837`).
* Once a history has reached its cap, two turns with the same words share an action scope (`agent/runner.py:147`), and the second is
  answered from the ledger with the result of the first. A chat turn that overlaps another overwrites its history.
* A one-word question can be resolved but is never found again (`knowledge_search.py:141`).
* As many changes at once as the pool has connections block each other for ever (`services/restaurant.py:1362`), since a change without a table asks for a second
  connection inside its transaction, and asyncpg waits without a limit. Below that number, `NotStuck` holds.
* Data of a call whose end was never reported is kept for ever (`call_analytics.py:172`).

**Fairness** is assumed by `live` only. Weak fairness of the steps of an attempt, of a handler's task and loop and of a chat
turn: a step is a statement that PostgreSQL executes or a
coroutine that the event loop resumes, and both are run when they can; the model and the tools answer or fail (they have time limits). A statement
that waits for a lock is not enabled until the lock is free; weak
fairness is enough since a waiting attempt keeps no other from
releasing what it holds, and there are only finitely many attempts. Saves land or fail in the end. The pool grants a
free connection (weakly fair), a query on an inner connection ends (weakly), and a transaction ends (strongly fair: it may look for
alternatives again and again in the model, but has finitely many statements in the code). Nothing is
assumed of callers, of Retell, of failures or of restarts. In `live` a behaviour moves one instance; the others stay in their initial states, in which
no fair action is enabled.

## 4. Proofs

Every safety property of a passing run is a theorem; a run shows it on a small instance, the theorem holds for all values of
the constants that satisfy the named assumptions:

* `NumbersAssumption`, `RequestsAssumption`, `SeededAssumption`, `LedgerAssumption` (Bookings): the duration is positive, a request has the
  shape its operation gives it, the seed has no overlapping bookings, and `None` is no entry of the ledger.
* `BoundsAssumption`, `NoneAssumption` (CallMemory), `AmendmentsAssumption`, `OrdersAssumption`: the bounds are numbers, an item has a
  positive quantity, `None` is no value that may be stored.
* `ScheduleAssumption`: the three facts about the fixture that part 2 explains. `AvailabilityAssumption` and `PreorderAssumption`
  (Visits): tables have capacities and rooms, the times that are asked for lie in the calendar.
* `TalkAssumption`: what can be heard in a turn is an observation, and a request of Retell is of a known kind.
* `PartsAssumption` (Outside): the assumptions of its parts. Topics of questions are finite sets of words; the script's settings have their types;
  the runs of the script are finitely many; the limit and the window are positive; a history has room for an entry.
  `TimesAssumption` (Calls): Retell stops delivering an event before the retention of its data ends.
* `PoolAssumption` (ConnectionPool): the pool is not empty.

An invariant of the system is seldom inductive. Below is, for each theorem, what had to be added and why it is so.

**`BookingsProofs`**

* `TypeCorrect`: `Spec => []TypeOK`. `TypeOK` is inductive as it stands since it
  contains `Ready`, which says what an attempt carries from one statement to the
  next (an attempt about to write a placement has locked a table).
* `OverlapsAreUnseen`: `Spec => []NoUnseenOverlap`. A commit
  that places a booking on a table must know that no conflicting booking is
  there except those it missed. `TableInv` adds two facts about attempts:
  `TableLocksExclude` (two attempts past their lock hold different tables) and
  `ChoiceIsVacant` (a table that an attempt has seen free or has locked carries
  no conflicting booking other than those in its `missed`). The second is
  preserved by the commit of another attempt for two reasons, which are the two
  halves of the mechanism: while the table is only *seen* free, the commit adds
  itself to `missed`; once it is *locked*, the other cannot have it.
* `CancelledStaysCancelled`: `Spec => CancelledIsFinal`. The invariant `RowInv`
  says that two attempts past their row lock have different bookings, that the
  booking an attempt has locked is confirmed, and that a new id is used by nobody
  else.
* `OneAnswerPerKey`: `Spec => []SameKeySameAnswer`. `KeyInv`: two transactions never work under one key (`KeysExclude`), nothing
  is stored under a key while one does (`KeyIsUnused`), and who has been told of a success was told what is
  stored (`AnswerIsStored`). A rollback gives the key back with nothing under it, which is why a retry may take it.
* `LedgerIsTrue`: `Spec => []LedgerMatchesBookings`. `LedgerInv`: every booking that was not seeded has exactly one entry that
  claims its creation, and what an entry claims of a booking is so. It rests on `RowInv` (the new id is new when the
  entry is written) and on `Lasting` (no row disappears, no cancelled row changes), so that an answer that was true when it was stored is true for good.

**`CallMemoryProofs`**

* `TypeCorrect`: `Spec => []TypeOK`. It includes that memory and row name only
  bookings that were committed.
* `NextYesSuffices`: `Spec => []NextYesConfirms`.
* `KeepsThePromise`: `Spec => ImplementsConfirmation`. Every step maps to a step
  of Confirmation or to a stutter.
* `UsedOnce`: `Spec => []SpentOnceIfSerial`.

The second and third use one inductive invariant, `Inv`. Copies of the gate's
fields exist in memory, in the row, in the row as a handler has read it and in
the patch it will write; any of them may replace any other. So the invariant
says the same of *every copy*: its pending record names a readback that was made, is
not ahead of that copy's turn, and if the copy would accept it, then
a yes covers it. Copies travel as a whole, which is why this is preserved, and
why a patch that left a field out would break it (the mutant `GateWithoutTurn`). `UsedOnce` has the same shape with another claim, `SerialInv`:
as long as requests have come one at a time, no copy that can still be restored or consulted holds a record that was used. The step that
matters is the commit: memory is cleared before it, and its patch clears the row together with it, so that neither
order of a crash leaves the record in either.

**`AmendmentsProofs`**

* `OnlyAsAgreed`: `Spec => []DoneAsAgreed`. The idea of CallMemory again: `Inv` says the same of every copy of
  the gate (memory, row, the row as it was read, a patch on its way), here for each kind of record: it is that of a readback of this kind
  with these details, and if the copy would accept it, a yes covers it (`RecordFits`). What a request carries from
  the gate to the commit is `Covered`. Both only get truer as the talk goes on (`CopyStays`, `RequestStays`), so a step needs
  to be looked at only for what it writes (`StepFits`).
* `CancelledForGood`: `Spec => CancelledIsFinal`. The invariant is `Alone`: who is past the lock is alone there and the
  reservation is still confirmed.
* `StoppedIsStopped`: `Spec => []CancellationStoodIfSerial`. `StandInv`: the record of a cancellation is never in the row nor in a patch of it
  (`Durable`: only changes are saved), so a crash ends it; and while requests have come one at a time, neither memory nor a request
  past the gate holds the record of a cancellation that the caller was told is stopped.

**`OrdersProofs`**

* `DeliveriesHaveAddress`, `ChangesAreSure`: the invariant `Ordered` holds whatever is asked for. A row that a request has locked is
  as the request has found it (`Knows`), because its lock has one holder (`LockedOnce`); so what it writes was
  allowed by the row it changes, although it chose the order long before.
* `TotalsAddUp`, `TakeawayStays`, `ConfirmedWasReadBack` need more, `Accounted`: the items of an order change only under its lock. That holds
  only for requests that name an item some tool has told of: these three theorems have the hypothesis `[]NamesKnownItems`. It is
  not idle. `update_order_item` and `remove_order_item` look for the item's order, and when they find none fall back to the
  call's current one (`services/restaurant.py:2448`); they lock that one, and later change the item by its id alone (2903, 2958).
  A request with the id of an item that does not exist yet, and is added to another order between the two statements,
  changes an order whose lock it does not hold. An id that no tool has returned can only be invented by the language model. The
  instances of `orders` ask for the first item only, which comes into being together with the first order, and stay clear of this; an instance that
  asks for the second one meets it.

**`TalkProofs`**

* `RefinesTurns`: `Spec => ImplementsTurns`, `ControlStaysOwn`: `Spec => []ControlIsOwn`, `DeliveredFirst`: `Spec => CommittedWasDelivered`.
  All use one invariant, `Inv`: what each task knows of the gate and of the wire. A task's id is at most the gate's; while the loop waits for a cancelled task,
  gate and wire are apart, and the task is not of the gate's id; a task of the gate's id that may still speak has no
  complete answer of that id on the wire before it; an event it has sent is what the wire shows; the state it will commit has been
  staged. A connection's step leaves that of the others alone (`OthersKeep`), although they share the control flags and the saves.
* `EndsAreEarned`, `ToneKept`, `AskedPaceKept`: the reducer's state is compared with a history of turns that is kept apart from it. `ReducerInv` says
  that its counters are not ahead of the history (`Kept`), that holds and streaks have not run out before the
  turns that let them run out (`Remembers`: the hold left and the plain turns since make three), and that
  the directive shows the state (`Shows`).
* `PaceStaysSteady`: `Spec => PaceIsSteady`. The samples in the state are always plausible rates (`PaceInv`); the rest is about the median of
  such a sequence, for any number of samples. `Middles`: its lower middle is not above its upper middle, and at least two of three or more samples lie up to
  the one and from the other on. A median below a threshold thus has two samples below it (`SteadyPace`).

**`OutsideProofs`**

* `CountedOnce`, `EndedForGood` (Calls). `EventOnce` is not inductive, since the cleanup forgets which events were seen. `Counted` adds that
  an event that was counted and is forgotten was sent so long ago that Retell delivers it no more; a new count is thus the first.
  Each statement that writes a row keeps its end (`WrittenRow`), and so does the cleanup.
* `LastAnswerIsTold` (KnowledgeGaps). `Updates` and `Inserts` say that a transaction that is about to commit either updates
  a row that is there, or is the only one to insert one that is not; so its answer is published in either case.
* `WrittenOnce`, `SaidIsKept` (LocalAgent). Whatever a turn in work has written is in the ledger under the scope that both its attempts have
  (`ScopeKept`, `EffectsFit`). In streamed conversations a caller's words enter the history before the model is called and leave it only with the
  whole session or at the cap (`HeardInv`).
* `AccountTold` (Provisioning). `NumberInv` follows a run from its list of the account to its report: a request of it that is still on its way
  has not been answered, only a run with permission to buy has ever sent a purchase, and a field it has read as right
  is still right, because all runs write the same settings.
* `LimitHolds` (RateLimit). `LimiterInv`: admitted requests that are `Limit` apart in order are a window apart in time (`Spread`), and what is forgotten is older than a
  window (`Remembers`). The requests inside any window then have a first one and lie less than `Limit` places after it.

**`VisitsProofs`**

* `OpenThroughout`: `[]StayIsOpen`. Two instants are tested, and the theorem is about all of them. Lemmas about the calendar show that
  both are on one day, have the same hours, and that no closure fits between them.
* `ChangesAreCited`: `PartyChangesAreCited`. The offer in memory is always one of the checks that were recorded, or none (`OfferInv`). A request that is
  under way and names a party other than that of its draft was covered by a check when it was asked for, and stays so, since checks are only added (`CitedInv`).
  If its draft describes the booking it meets, "other than the draft's" means "other than the booking's", and the time that was checked is the one that is written.
* `OffersAreHonest`: `[]AlternativesAreBookable`. A time that the loop over nearby times keeps has a free table that fits, which a request for it would find.
* `DishesAreServed`: `PreorderInv` says of each request what the rows it has read allow it to write (`ReadFits`), and,
  as long as no commit rested on a row that had changed, that order and reservation agree (`OrderFits`).
* `TakeawayIsInTime`: `TakeawayInTime`, whatever `skew` is. `LockInv`: at most one request holds the lock of the order, and the row is still what
  that request has read (`Holds`, `Judged`). So what the commit of a confirmation writes is what its checks were made for. They judge the row's time if it has one, and a takeaway
  always has (`Timed`).

**`ConnectionPoolProofs`**

* `TypeCorrect`: `Spec => []TypeOK`. The queue contains each waiting task once, and only changes hold a connection while they wait for another.
* `NeverStuck`: `Spec => []NotStuck`. With fewer changes than connections, if no holder can go on, all holders are
  changes that wait for their second connection, so fewer than `Size` connections are in use and one is free.

**Model-checked only** are the four liveness properties of `live` (`EachQueryRuns`, `EveryAttemptIsAnswered`, `EveryTurnIsAnswered`, `EveryTurnEnds`), since liveness under fairness
and ENABLED are out of the proof system's reach, and the four properties that the code violates. Of the modules that are instantiated with several
sets of parameters the theorems are about each instance on its own; that a `story` moves one of them at a time is no part of a theorem.

Two definitions of Behavior are written for the proofs, with the meaning of the code: the median is the mean of the lower and the upper
middle, each defined by how many samples lie up to it and from it on, where `statistics.median` sorts; and the filter of the samples says apart that it
leaves a sequence alone in which all are plausible.

## 5. What is not modelled, and the plan

Left out of the modelled parts, each with its reason:

* *RetellHandler*: pings, agent updates and call details are answered without touching the state of a turn; `send_text` has no backpressure to model;
  response ids are taken to grow over a call, as Retell's protocol says.
* *Availability*: the limit of five tables in a query (no instance reaches it). One change of the booking at a time is followed through its two
  stages; others that overlap with it are `ChangedElsewhere`. The answer that the ledger repeats to a retry, with what it leaves in the draft, is in
  Bookings only. The room and the wording of the draft are not part of it: the room a new party in the draft is compared with is a choice.
* *Preorder*: an item that is proposed and not yet approved, and the caller's consent to a change of a confirmed dine-in order
  (Orders has both). A cancelled reservation leaves its confirmed order; nothing says what should become of it.
* *Amendments*: the record's time to live is a choice, as in CallMemory.
* *LocalAgent*: the filters on the wording of an answer.
* *Calls*: session memory that a late turn fills again after the webhook cleared it stays until the next restart.
* *Provisioning*: the parsing and validation of single settings; settings agree with each other or the run ends.

Not planned: the settings file (one file with one setting, read, changed and replaced without an await), speech synthesis,
templates, pages and reports, login and request signing, evaluation and
release scripts, seed data and migrations (run by hand, off line), the ranking of
the search over knowledge text, and the regular expressions that classify and shape spoken
text. They have no interacting state for a model checker to explore.

The plan, in order of importance:

1. A composition of Bookings with CallMemory, in which `approved` is the gate, and the proof that `CallerTurn` of Bookings allows whatever the gate does.
2. The hazards that no property covers yet (`PROJECT.json` lists them): saves of the behaviour state that arrive out of order, the draft that does not know of
   the call's booking, the scope of a turn once the history has reached its cap. The code has no rule for them that could be stated as kept; what holds instead has to be found.
3. An abstract specification of the ledger (an operation takes effect at one moment and is answered with its result) that Bookings implements.
4. Theorems about what every behaviour has besides the properties: type correctness of the modules that have it only inside an invariant.
