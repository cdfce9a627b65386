-------------------------------- MODULE Talk --------------------------------
(***************************************************************************)
(* How a call is talked: the connections of the call (module               *)
(* RetellHandler) and the reducer that decides, turn by turn, how the      *)
(* agent answers (module Behavior).  RetellHandler has of the reducer's    *)
(* state only what it reads of it, so the two share no variable.           *)
(***************************************************************************)
EXTENDS RetellHandler, Sequences

CONSTANTS
  \* of Behavior, which has None of RetellHandler
  Observations, Locales, Utterances, TransferOwners, MaxSamples, Lookback

VARIABLES state, directive, heard, tally

talkVars == <<state, directive, heard, tally>>

Reducer == INSTANCE Behavior

ASSUME TalkAssumption == KindsAreKnown /\ Reducer!BehaviorAssumption

-----------------------------------------------------------------------------
(* Properties of the reducer; those of the connections are in their module. *)

\* A call is ended for silence only after three silent turns in a row, and
\* for its bounds only in a turn that crossed them, after at least three that
\* did or one that was severe; and once it is to end, no later turn makes it
\* go on or hands it off.
Earned(reason) ==
  \/ reason = "silence" /\ tally'.silent >= 3
  \/ /\ reason = "boundary" /\ tally'.crossing
     /\ \/ tally'.crossings >= 3 \/ tally'.severe

EndIsEarned ==
  [][/\ state.terminal_control # "END_CALL" /\ state'.terminal_control = "END_CALL" =>
          Earned(state'.terminal_reason)
     /\ state.terminal_control = "END_CALL" =>
          state'.terminal_control = "END_CALL" /\ directive'.control = "END_CALL"]_talkVars

\* A pace is inferred only from two samples on its side, so a single noisy
\* utterance never changes how the caller is spoken to, and once inferred it
\* stays while the median is inside its band, so that samples around a
\* threshold do not make it flap.
OnItsSide(pace, sample) ==
  IF pace = "slower" THEN sample <= Reducer!SlowEnter ELSE sample >= Reducer!FastEnter

PaceIsSteady ==
  [][/\ state'.inferred_pace \notin {None, state.inferred_pace} =>
          2 <= Cardinality({i \in DOMAIN state'.speech_rate_samples :
                              OnItsSide(state'.inferred_pace, state'.speech_rate_samples[i])})
     /\ state.inferred_pace = "slower" /\ state'.inferred_pace # "slower" =>
          Reducer!TwiceMedian(state'.speech_rate_samples) >= 2 * Reducer!SlowExit
     /\ state.inferred_pace = "faster" /\ state'.inferred_pace # "faster" =>
          Reducer!TwiceMedian(state'.speech_rate_samples) <= 2 * Reducer!FastExit]_talkVars

\* What the caller asked for beats what was measured: a caller who asked to
\* go slower is never rushed, by the pace, by the mode, or by the reminder,
\* unless they fall silent or the call is ending.
AskedPaceWins ==
  state.explicit_pace = "slower" =>
    /\ directive.pace = "slower"
    /\ directive.mode \in {"guided", "deescalating"}
    /\ \/ directive.controls.reminder_after >= 120
       \/ state.silence_count > 0 \/ directive.control # "CONTINUE"

\* After a complaint or a boundary turn the tone stays de-escalating until
\* the caller has said three ordinary things, and after two failed turns in a
\* row it is at least guided, whatever came before.
IsUpset(o) == o.complaint \/ o.boundary # None
HasFailed(o) == o.kind = "unintelligible" \/ o.confusion \/ o.complaint
PlainAfter(h, i) == {j \in i + 1 .. Len(h) : Reducer!IsPlain(h[j])}

ToneIsHeld ==
  /\ \A i \in DOMAIN heard :
       /\ IsUpset(heard[i])
       /\ Cardinality(PlainAfter(heard, i)) < Reducer!HoldTurns
       => directive.mode = "deescalating"
  /\ /\ Len(heard) >= 2
     /\ \A i \in {Len(heard) - 1, Len(heard)} : HasFailed(heard[i])
     => directive.mode \in {"guided", "deescalating"}
=============================================================================
