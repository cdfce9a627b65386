------------------------------ MODULE RateLimit ------------------------------
(***************************************************************************)
(* The limiter of the local endpoints (app/rate_limit.py): per scope and   *)
(* client it keeps the times of the requests it admitted in the last       *)
(* window.  Nothing is awaited between looking and appending, so a check   *)
(* is one step.  A restart of the process forgets the times.               *)
(***************************************************************************)
EXTENDS Naturals, Sequences

CONSTANTS
  Keys,       \* scope and client
  Limit, Window,
  MaxTime     \* bound on the clock

LimitAssumption ==
  Limit \in Nat \ {0} /\ Window \in Nat \ {0} /\ MaxTime \in Nat

VARIABLES
  now,
  events,     \* [Keys -> times of admitted requests, oldest first]
  admitted    \* [Keys -> all of them since the start], for the properties

vars == <<now, events, admitted>>

Init ==
  /\ now = 0
  /\ events = [k \in Keys |-> <<>>]
  /\ admitted = [k \in Keys |-> <<>>]

\* Mutant: a request counts one tick too short.
ExpiredEarly(e) == e + Window <= now + 1

\* events[0] <= now - window_seconds
Expired(e) == e + Window <= now

\* How many the loop takes from the left: as long as the first one is expired.
Takes(k, n) ==
  /\ \A i \in 1 .. n : Expired(events[k][i])
  /\ n < Len(events[k]) => ~Expired(events[k][n + 1])

Rest(k, n) == SubSeq(events[k], n + 1, Len(events[k]))

Admit(k, n) ==
  /\ Takes(k, n)
  /\ Len(Rest(k, n)) < Limit
  /\ events' = [events EXCEPT ![k] = Append(Rest(k, n), now)]
  /\ admitted' = [admitted EXCEPT ![k] = Append(@, now)]
  /\ UNCHANGED now

\* 429
Refuse(k, n) ==
  /\ Takes(k, n)
  /\ Len(Rest(k, n)) >= Limit
  /\ events' = [events EXCEPT ![k] = Rest(k, n)]
  /\ UNCHANGED <<now, admitted>>

Tick == now < MaxTime /\ now' = now + 1 /\ UNCHANGED <<events, admitted>>

\* The clock is that of the process, too.
Restart ==
  /\ now' = 0
  /\ events' = [k \in Keys |-> <<>>]
  /\ admitted' = events'

Next ==
  \/ Tick \/ Restart
  \/ \E k \in Keys : \E n \in 0 .. Len(events[k]) : Admit(k, n) \/ Refuse(k, n)

Spec == Init /\ [][Next]_vars
-----------------------------------------------------------------------------
(* The requests that a window has, for the property of module Outside.     *)

InWindow(k, t) == {i \in DOMAIN admitted[k] : admitted[k][i] <= t /\ t < admitted[k][i] + Window}
=============================================================================
