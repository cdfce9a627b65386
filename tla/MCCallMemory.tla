---------------------------- MODULE MCCallMemory ----------------------------
(* Instances of CallMemory for TLC. *)
EXTENDS CallMemory, TLC

CONSTANTS d1, d2

AllOperations == {"turn", "draft", "readback", "other", "create"}

\* The behaviours of two instances: requests overlap, or come one at a time
\* and go on for longer.
Overlapping == INSTANCE CallMemory
  WITH Details <- {d1}, MaxTurns <- 2, MaxReadbacks <- 1, MaxRestarts <- 1, MaxBookings <- 1

VARIABLE story

StoryInit == Init /\ story \in {"overlapping", "serial"}

StoryNext ==
  \/ story = "overlapping" /\ Overlapping!Next /\ UNCHANGED story
  \/ story = "serial" /\ Next /\ ~overlapped' /\ UNCHANGED story

StorySpec == StoryInit /\ [][StoryNext]_<<vars, story>>

HandlerSymmetry == Permutations(Handlers)
=============================================================================
