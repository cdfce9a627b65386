---------------------------- MODULE MCAmendments ----------------------------
(* Instances of Amendments for TLC. *)
EXTENDS Amendments, TLC

CONSTANTS d1, d2

\* The behaviours of two instances: requests that come one after the other,
\* over more turns and a restart, and requests that overlap.
Serial == INSTANCE Amendments WITH Details <- {d1}
Overlapping == INSTANCE Amendments WITH MaxTurns <- 2, MaxReadbacks <- 2, MaxRestarts <- 0

VARIABLE story

StoryInit == Init /\ story \in {"serial", "overlapping"}

StoryNext ==
  \/ story = "serial" /\ Serial!Next /\ ~overlapped' /\ UNCHANGED story
  \/ story = "overlapping" /\ Overlapping!Next /\ UNCHANGED story

StorySpec == StoryInit /\ [][StoryNext]_<<vars, story>>

HandlerSymmetry == Permutations(Handlers)
=============================================================================
