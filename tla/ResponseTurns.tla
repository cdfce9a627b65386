---------------------------- MODULE ResponseTurns ----------------------------
(***************************************************************************)
(* What the caller's side of a connection may rely on (Retell's custom LLM *)
(* protocol as app/retell_handler.py uses it): answers are given to the    *)
(* newest question only, and nothing is said after an answer is complete   *)
(* until there is a new question.                                          *)
(***************************************************************************)
EXTENDS Naturals

CONSTANTS
  Conns,  \* the connections of one call
  Ids     \* response ids

VARIABLES
  asked,  \* [Conns -> response_id of the newest question, 0 before the first]
  said,   \* [Conns -> [id, complete] of the last piece of an answer]
  up      \* [Conns -> whether the line is up]

vars == <<asked, said, up>>

Init ==
  /\ asked = [c \in Conns |-> 0]
  /\ said = [c \in Conns |-> [id |-> 0, complete |-> FALSE]]
  /\ up = [c \in Conns |-> TRUE]

Finished(c) == said[c] = [id |-> asked[c], complete |-> TRUE]

Ask(c) ==
  /\ \E id \in Ids : id > asked[c] /\ asked' = [asked EXCEPT ![c] = id]
  /\ UNCHANGED <<said, up>>

Say(c) ==
  /\ asked[c] > 0 /\ ~Finished(c)
  /\ \E complete \in BOOLEAN :
       said' = [said EXCEPT ![c] = [id |-> asked[c], complete |-> complete]]
  /\ UNCHANGED <<asked, up>>

HangUp(c) == up[c] /\ up' = [up EXCEPT ![c] = FALSE] /\ UNCHANGED <<asked, said>>

Next == \E c \in Conns : Ask(c) \/ Say(c) \/ HangUp(c)

Spec == Init /\ [][Next]_vars

\* Every question is answered to the end, unless a newer one replaces it or
\* the line goes down: Retell never waits forever.
Answered(c, id) == asked[c] = id ~> (Finished(c) \/ asked[c] # id \/ ~up[c])
=============================================================================
