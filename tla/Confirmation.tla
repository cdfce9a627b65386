---------------------------- MODULE Confirmation ----------------------------
(***************************************************************************)
(* What the confirmation gate promises for one call and one kind of        *)
(* action: a write is made with details that were read back to the caller, *)
(* and only after the caller has said yes to something since.              *)
(***************************************************************************)
EXTENDS Naturals, Sequences

CONSTANT Details    \* what a readback may contain

VARIABLES
  readbacks,   \* the details read back so far
  agreed,      \* how many of them came before the caller's last yes
  booked       \* the bookings made: their details, and the readback used

vars == <<readbacks, agreed, booked>>

Init == readbacks = <<>> /\ agreed = 0 /\ booked = <<>>

ReadBack(d) ==
  /\ readbacks' = Append(readbacks, d)
  /\ UNCHANGED <<agreed, booked>>

Yes ==
  /\ agreed' = Len(readbacks)
  /\ UNCHANGED <<readbacks, booked>>

Book(i) ==
  /\ booked' = Append(booked, [details |-> readbacks[i], readback |-> i])
  /\ UNCHANGED <<readbacks, agreed>>

Next ==
  \/ \E d \in Details : ReadBack(d)
  \/ Yes
  \/ \E i \in 1..agreed : Book(i)

Spec == Init /\ [][Next]_vars

=============================================================================
