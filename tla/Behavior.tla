------------------------------ MODULE Behavior ------------------------------
(***************************************************************************)
(* The behaviour reducer of one call (app/behavior.py): a pure function    *)
(* from the state of the call and what was heard in a turn to the next     *)
(* state and a directive for the answer.  A turn here is one application   *)
(* of reduce_behavior.  What the regular expressions find in the words of  *)
(* a turn is a record (an observation); the wording of prompts, the        *)
(* reasons that are only logged, and the counters nothing reads            *)
(* (turn_index, interruption timestamps) are left out.  Speech rates are   *)
(* thousandths of a word per minute, times are tenths of a second, the     *)
(* values sent to Retell hundredths and tenths.                            *)
(***************************************************************************)
EXTENDS Integers, Sequences, FiniteSets

CONSTANTS
  None,           \* Python's None
  Observations,   \* what can be heard in a turn
  Locales,        \* languages a caller may ask for
  Utterances,     \* the words of a turn, as far as they are compared
  TransferOwners, \* owners whose escalation route is a transfer, not a callback
  MaxSamples,     \* MAX_SPEECH_RATE_SAMPLES
  Lookback        \* bound on the history that only the properties read

VARIABLES
  state,       \* BehaviorState
  directive,   \* BehaviorDirective of the last turn
  heard,       \* the last Lookback observations, for the properties
  tally        \* for the properties too: see Tallied

vars == <<state, directive, heard, tally>>

MinTimedWords == 6
MinSamples == 3
SlowEnter == 105000
SlowExit == 125000
FastEnter == 190000
FastExit == 170000
DecayTurns == 6
EndStrikes == 3
HoldTurns == 3

AtMost(cap, n) == IF n > cap THEN cap ELSE n
AtLeast(floor, n) == IF n < floor THEN floor ELSE n
Down(n) == AtLeast(0, n - 1)
\* The last n elements of a sequence: seq[-n:].
Latest(seq, n) == SubSeq(seq, AtLeast(1, Len(seq) - n + 1), Len(seq))

InitialState ==
  [mode |-> "standard", explicit_pace |-> None, explicit_locale |-> None,
   accessibility |-> {}, repair_streak |-> 0, silence_count |-> 0,
   boundary_strikes |-> 0, explicit_handoff_reason |-> None,
   speech_rate_samples |-> <<>>, inferred_pace |-> None, stable_turns |-> 0,
   boundary_clean_turns |-> 0, deescalation_hold |-> 0, hurry_hold |-> 0,
   interruption_pressure |-> 0, last_utterance |-> None,
   terminal_control |-> None, terminal_reason |-> None]

\* A turn in which nothing was said, and the fields of every observation.
Silence ==
  [kind |-> "silent", pace |-> None, locale |-> None, hurry |-> FALSE,
   handoff |-> None, boundary |-> None, severe |-> FALSE, requested |-> {},
   cleared |-> {}, confusion |-> FALSE, complaint |-> FALSE, identity |-> FALSE,
   utterance |-> None, words |-> 0, duration |-> 0, interrupted |-> FALSE]

Paces == {"slower", "normal", "faster"}
Handoffs == {"human_requested", "manager_requested"}
Boundaries == {"abuse", "off_topic"}
Preferences == {"repeat", "spell", "plain", "one_thing"}
Controls == {"HANDOFF", "END_CALL"}

Observation ==
  [kind : {"silent", "unintelligible", "speech"}, pace : Paces \cup {None},
   locale : Locales \cup {None}, hurry : BOOLEAN, handoff : Handoffs \cup {None},
   boundary : Boundaries \cup {None}, severe : BOOLEAN, requested : SUBSET Preferences,
   cleared : SUBSET Preferences, confusion : BOOLEAN, complaint : BOOLEAN,
   identity : BOOLEAN, utterance : Utterances \cup {None}, words : Nat, duration : Nat,
   interrupted : BOOLEAN]

BehaviorAssumption ==
  /\ Observations \subseteq Observation
  /\ None \notin Paces \cup Handoffs \cup Boundaries \cup Controls \cup Utterances \cup Locales
  /\ MaxSamples \in Nat /\ Lookback \in Nat

\* Nothing is read in a turn that is silent or unintelligible.
Understood(o) ==
  IF o.kind = "speech" THEN [o EXCEPT !.requested = @ \ o.cleared]
  ELSE [Silence EXCEPT !.kind = o.kind, !.interrupted = o.interrupted]

IsPlausible(rate) == 45000 <= rate /\ rate <= 320000

Selected(samples) == SelectSeq(samples, IsPlausible)

\* The reducer itself keeps plausible samples only, so that nothing is dropped
\* from what it has kept.
PlausibleOf(samples) ==
  Latest(IF \A i \in DOMAIN samples : IsPlausible(samples[i]) THEN samples
         ELSE Selected(samples),
         MaxSamples)

\* What a state read back from the database is reduced to.
Sanitize(s) ==
  [s EXCEPT !.repair_streak = AtMost(4, @), !.silence_count = AtMost(3, @),
            !.boundary_strikes = AtMost(EndStrikes, @),
            !.stable_turns = AtMost(2, @),
            !.boundary_clean_turns = AtMost(DecayTurns, @),
            !.deescalation_hold = AtMost(HoldTurns, @),
            !.hurry_hold = AtMost(HoldTurns, @),
            !.interruption_pressure = AtMost(6, @),
            !.speech_rate_samples = PlausibleOf(@),
            !.explicit_handoff_reason =
               IF @ \in Handoffs THEN @ ELSE None,
            !.terminal_reason =
               IF @ \in {"handoff", "boundary", "silence"} THEN @ ELSE None]
-----------------------------------------------------------------------------
(* Speech rate.                                                            *)

\* Words per minute, or None when the sample is too short or implausible.
RateOf(o) == (o.words * 600000) \div o.duration

SpeechRateSample(o) ==
  IF \/ o.words < MinTimedWords
     \/ o.duration < 8
     \/ ~IsPlausible(RateOf(o))
  THEN None ELSE RateOf(o)

SamplesAfter(s, o) ==
  LET sample == SpeechRateSample(o)
  IN IF sample = None THEN s.speech_rate_samples
     ELSE Latest(Append(s.speech_rate_samples, sample), MaxSamples)

Image(samples) == {samples[i] : i \in DOMAIN samples}
UpTo(samples, x) == {i \in DOMAIN samples : samples[i] <= x}
DownTo(samples, x) == {i \in DOMAIN samples : samples[i] >= x}

\* Twice the median, so that the mean of two samples stays an integer: the sum
\* of the lower and the upper middle, which are the same of an odd number.
TwiceMedian(samples) ==
  LET half == (Len(samples) + 1) \div 2
      low == {x \in Image(samples) : half <= Cardinality(UpTo(samples, x))}
      high == {x \in Image(samples) : half <= Cardinality(DownTo(samples, x))}
  IN (CHOOSE x \in low : \A y \in low : x <= y) + (CHOOSE x \in high : \A y \in high : y <= x)

\* As below with one threshold per pace.
UpdateInferredPaceNoHold(previous, samples) ==
  LET m == TwiceMedian(samples)
  IN IF Len(samples) < 1 THEN previous
     ELSE IF m <= 2 * SlowEnter THEN "slower"
     ELSE IF m >= 2 * FastEnter THEN "faster" ELSE None

\* A pace is entered at one threshold and left at another.
UpdateInferredPace(previous, samples) ==
  LET m == TwiceMedian(samples)
  IN CASE Len(samples) < MinSamples -> previous
       [] OTHER ->
            CASE previous = "slower" /\ m >= 2 * FastEnter -> "faster"
              [] previous = "slower" /\ m < 2 * SlowExit -> "slower"
              [] previous = "faster" /\ m <= 2 * SlowEnter -> "slower"
              [] previous = "faster" /\ m > 2 * FastExit -> "faster"
              [] previous = None /\ m <= 2 * SlowEnter -> "slower"
              [] previous = None /\ m >= 2 * FastEnter -> "faster"
              [] OTHER -> None
-----------------------------------------------------------------------------
(* The parts of the next state.                                            *)

UpdateAccessibility(s, o) == (s.accessibility \cup o.requested) \ o.cleared

PressureAfter(s, o) ==
  IF o.interrupted THEN AtMost(6, s.interruption_pressure + 2)
  ELSE Down(s.interruption_pressure)

\* As below, but speech that is not understood leaves the count.
SilenceAfterKept(s, o) ==
  CASE o.kind = "silent" -> AtMost(3, s.silence_count + 1)
    [] o.kind = "unintelligible" -> s.silence_count
    [] OTHER -> 0

SilenceAfter(s, o) == IF o.kind = "silent" THEN AtMost(3, s.silence_count + 1) ELSE 0

\* The same words twice in a row.
IsRepetition(s, o) == o.utterance # None /\ o.utterance = s.last_utterance

NeedsRepair(s, o) ==
  \/ o.kind = "unintelligible"
  \/ "repeat" \in o.requested
  \/ o.confusion \/ o.complaint
  \/ IsRepetition(s, o)

\* An ordinary turn: understood, within bounds, and not for a person.
IsPlain(o) == o.kind = "speech" /\ o.boundary = None /\ o.handoff = None

\* A failed turn adds to the streak; two plain turns take one off.
RepairAfter(s, o) ==
  CASE NeedsRepair(s, o) ->
         [streak |-> AtMost(4, s.repair_streak + 1), stable |-> 0]
    [] ~NeedsRepair(s, o) /\ IsPlain(o) /\ s.stable_turns + 1 >= 2 ->
         [streak |-> Down(s.repair_streak), stable |-> 0]
    [] ~NeedsRepair(s, o) /\ IsPlain(o) /\ s.stable_turns + 1 < 2 ->
         [streak |-> s.repair_streak, stable |-> s.stable_turns + 1]
    [] OTHER -> [streak |-> s.repair_streak, stable |-> s.stable_turns]

\* As below, with any turn letting the hold run out.
DeescalationAfterAnyTurn(s, o) ==
  IF o.complaint \/ o.boundary # None THEN HoldTurns ELSE Down(s.deescalation_hold)

DeescalationAfter(s, o) ==
  CASE o.complaint \/ o.boundary # None -> HoldTurns
    [] ~o.complaint /\ IsPlain(o) -> Down(s.deescalation_hold)
    [] OTHER -> s.deescalation_hold

HurryAfter(s, o) ==
  CASE o.hurry -> HoldTurns
    [] ~o.hurry /\ o.kind = "speech" -> Down(s.hurry_hold)
    [] OTHER -> s.hurry_hold

\* A boundary turn is a strike, a severe one all of them; DecayTurns clean
\* turns take one strike off.
BoundaryAfter(s, o) ==
  LET clean == IsPlain(o) /\ ~o.complaint /\ s.boundary_strikes > 0
      turns == s.boundary_clean_turns + 1
  IN CASE o.boundary # None ->
            [strikes |-> IF o.severe THEN EndStrikes
                         ELSE AtMost(EndStrikes, s.boundary_strikes + 1),
             clean |-> 0]
       [] clean /\ turns >= DecayTurns ->
            [strikes |-> Down(s.boundary_strikes), clean |-> 0]
       [] clean /\ turns < DecayTurns ->
            [strikes |-> s.boundary_strikes, clean |-> turns]
       [] OTHER ->
            [strikes |-> s.boundary_strikes,
             clean |-> IF s.boundary_strikes = 0 THEN 0
                       ELSE s.boundary_clean_turns]
-----------------------------------------------------------------------------
(* Ending the call or handing it off.                                      *)

\* The owner a handoff is for, and whether the call can be transferred to
\* it now: staff_open stands for a configured number inside staff hours.
Owner(reason) ==
  IF reason = "manager_requested" THEN "manager_callback" ELSE "staff"
CanTransfer(reason, staff_open) ==
  reason # None /\ Owner(reason) \in TransferOwners /\ staff_open

\* A handoff already decided keeps its reason while no other is asked for.
HandoffReason(s, o) ==
  IF o.handoff # None THEN o.handoff
  ELSE IF s.terminal_control = "HANDOFF" THEN s.explicit_handoff_reason ELSE None

Terminal(control, reason) == [control |-> control, reason |-> reason]

\* A handoff that can no longer be made is forgotten; then, unless the call
\* already has one, this turn may give it a terminal control.
TerminalAfter(s, o, staff_open, strikes, silence) ==
  LET can == CanTransfer(HandoffReason(s, o), staff_open)
      kept == IF s.terminal_control = "HANDOFF" /\ ~can
              THEN Terminal(None, None)
              ELSE Terminal(s.terminal_control, s.terminal_reason)
  IN CASE kept.control # None -> kept
       [] kept.control = None /\ o.handoff # None /\ can ->
            Terminal("HANDOFF", "handoff")
       [] OTHER ->
            CASE o.boundary # None /\ strikes >= EndStrikes ->
                   Terminal("END_CALL", "boundary")
              [] ~(o.boundary # None /\ strikes >= EndStrikes) /\ silence >= 3 ->
                   Terminal("END_CALL", "silence")
              [] OTHER -> kept

ChooseMode(next, guided_now) ==
  LET inferred == IF next.explicit_pace = None THEN next.inferred_pace ELSE None
      guided == \/ next.explicit_pace = "slower"
                \/ next.accessibility # {}
                \/ guided_now
                \/ next.repair_streak >= 2
                \/ inferred = "slower"
      concise == \/ next.explicit_pace = "faster"
                 \/ next.hurry_hold > 0
                 \/ next.interruption_pressure >= 3
                 \/ inferred = "faster"
  IN CASE next.deescalation_hold > 0 -> "deescalating"
       [] next.deescalation_hold = 0 /\ guided -> "guided"
       [] next.deescalation_hold = 0 /\ ~guided /\ concise -> "concise"
       [] OTHER -> "standard"
-----------------------------------------------------------------------------
(* The directive.                                                          *)

\* What is said without asking the language model, or None.
DirectReply(next, o, reason, can) ==
  IF reason # None
  THEN IF can THEN "connecting"
       ELSE IF Owner(reason) = "manager_callback" THEN "manager_unavailable"
       ELSE "transfer_unavailable"
  ELSE IF next.terminal_control = "END_CALL"
  THEN IF next.terminal_reason = "silence" THEN "not_heard" ELSE "ending"
  ELSE IF o.identity THEN "virtual_host"
  ELSE IF next.silence_count = 1 THEN "take_your_time"
  ELSE IF next.silence_count = 2 THEN "still_there"
  ELSE IF o.boundary # None
  THEN IF next.boundary_strikes = 1 THEN "first_warning" ELSE "last_warning"
  ELSE IF o.kind = "unintelligible" THEN "say_again" ELSE None

\* As below, with the pace set aside after an interruption.
RetellValuesUnpaced(mode, pace, recent, silence, terminal) ==
  [responsiveness |-> IF recent THEN 85 ELSE 70, interruption_sensitivity |-> 65,
   reminder_after |-> IF silence = 0 THEN 80 ELSE 60]

\* responsiveness and interruption_sensitivity in hundredths, the reminder
\* in tenths of a second.
RetellValues(mode, pace, recent, silence, terminal) ==
  LET base == CASE mode = "standard" -> <<70, 65, 80>>
                [] mode = "concise" -> <<85, 80, 60>>
                [] mode = "guided" -> <<50, 60, 110>>
                [] mode = "deescalating" -> <<45, 80, 100>>
      paced == CASE pace = "slower" -> <<AtMost(45, base[1]), base[2], AtLeast(120, base[3])>>
                 [] pace = "faster" -> <<AtLeast(88, base[1]), base[2], AtMost(60, base[3])>>
                 [] OTHER -> base
      yielded == IF recent
                 THEN <<AtLeast(85, paced[1]), AtLeast(90, paced[2]), paced[3]>>
                 ELSE paced
      reminder == IF terminal THEN 0
                  ELSE CASE silence = 0 -> yielded[3]
                         [] silence = 1 -> AtMost(60, yielded[3])
                         [] silence >= 2 -> 40
  IN [responsiveness |-> yielded[1], interruption_sensitivity |-> yielded[2],
      reminder_after |-> reminder]

EffectivePace(next) ==
  CASE next.explicit_pace = "normal" -> None
    [] next.explicit_pace \in {"slower", "faster"} -> next.explicit_pace
    [] OTHER -> next.inferred_pace

-----------------------------------------------------------------------------
(* One turn.                                                               *)

NextState(s, o, staff_open) ==
  LET repair == RepairAfter(s, o)
      boundary == BoundaryAfter(s, o)
      samples == SamplesAfter(s, o)
      silence == SilenceAfter(s, o)
      terminal == TerminalAfter(s, o, staff_open, boundary.strikes, silence)
      next ==
        [mode |-> s.mode,
         explicit_pace |-> IF o.pace # None THEN o.pace ELSE s.explicit_pace,
         explicit_locale |-> IF o.locale # None THEN o.locale ELSE s.explicit_locale,
         accessibility |-> UpdateAccessibility(s, o),
         repair_streak |-> repair.streak,
         silence_count |-> silence,
         boundary_strikes |-> boundary.strikes,
         explicit_handoff_reason |->
           IF terminal.control = "HANDOFF" THEN HandoffReason(s, o) ELSE None,
         speech_rate_samples |-> samples,
         inferred_pace |-> UpdateInferredPace(s.inferred_pace, samples),
         stable_turns |-> repair.stable,
         boundary_clean_turns |-> boundary.clean,
         deescalation_hold |-> DeescalationAfter(s, o),
         hurry_hold |-> HurryAfter(s, o),
         interruption_pressure |-> PressureAfter(s, o),
         last_utterance |-> IF o.kind = "speech" THEN o.utterance ELSE s.last_utterance,
         terminal_control |-> terminal.control,
         terminal_reason |-> terminal.reason]
  IN [next EXCEPT !.mode = ChooseMode(next, o.confusion \/ IsRepetition(s, o))]

Directive(s, next, o, staff_open) ==
  LET reason == HandoffReason(s, o)
      can == CanTransfer(reason, staff_open)
      control == IF next.terminal_control = None THEN "CONTINUE" ELSE next.terminal_control
  IN [mode |-> next.mode,
      control |-> control,
      direct_reply |-> DirectReply(next, o, reason, can),
      transfer |-> control = "HANDOFF" /\ can,
      pace |-> EffectivePace(next),
      controls |-> RetellValues(next.mode, EffectivePace(next),
                                o.interrupted \/ next.interruption_pressure >= 3,
                                next.silence_count, control # "CONTINUE")]

\* Silent turns in a row and boundary turns so far, at most 3 of each, whether
\* one was severe, and whether the last turn was one.
Tallied(o) ==
  [silent |-> IF o.kind = "silent" THEN AtMost(3, tally.silent + 1) ELSE 0,
   crossings |-> IF o.boundary = None THEN tally.crossings ELSE AtMost(3, tally.crossings + 1),
   severe |-> tally.severe \/ o.severe,
   crossing |-> o.boundary # None]

\* reduce_behavior for one observation.
Turn(observation, staff_open) ==
  LET s == Sanitize(state)
      o == Understood(observation)
      next == NextState(s, o, staff_open)
  IN /\ state' = next
     /\ directive' = Directive(s, next, o, staff_open)
     /\ heard' = Latest(Append(heard, o), Lookback)
     /\ tally' = Tallied(o)

Init ==
  /\ state = InitialState
  /\ directive = [mode |-> "standard", control |-> "CONTINUE", direct_reply |-> None,
                  transfer |-> FALSE, pace |-> None,
                  controls |-> RetellValues("standard", None, FALSE, 0, FALSE)]
  /\ heard = <<>>
  /\ tally = [silent |-> 0, crossings |-> 0, severe |-> FALSE, crossing |-> FALSE]

Next == \E o \in Observations, staff_open \in BOOLEAN : Turn(o, staff_open)

Spec == Init /\ [][Next]_vars
=============================================================================
