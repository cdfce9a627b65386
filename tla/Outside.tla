------------------------------ MODULE Outside ------------------------------
(***************************************************************************)
(* The parts of the program that meet the world outside one by one,        *)
(* together: the webhooks and sockets of calls (module Calls), the         *)
(* questions nobody could answer (KnowledgeGaps), the number that a script *)
(* provisions (Provisioning), the limiter of the local endpoints           *)
(* (RateLimit) and the turns of the local agent (LocalAgent).  They share  *)
(* no state.                                                               *)
(***************************************************************************)
EXTENDS Calls, Sequences

CONSTANTS
  \* of KnowledgeGaps, which has the calls and None of Calls
  Operators, Questions, Answers, Topic, Words, Within, MaxResolutions,
  \* of Provisioning
  Runs, Numbers, Keys, Settings,
  \* of RateLimit: scopes with their clients, and a clock of its own
  Clients, Limit, Window, MaxClock,
  \* of LocalAgent
  Requests, Runners, Messages, Tools, HistoryCap, MaxIterations, MaxTurns, MaxClears

VARIABLES
  gaps, knowledge, caller, told, resolver, resolutions,
  setting, account, run, posted, answer,
  time, events, admitted,
  history, request, turns, ledger, effects, version, replays, answered, clears

gapVars == <<gaps, knowledge, caller, told, resolver, resolutions>>
numberVars == <<setting, account, run, posted, answer>>
limitVars == <<time, events, admitted>>
agentVars == <<history, request, turns, ledger, effects, version, replays, answered, clears>>

Gaps == INSTANCE KnowledgeGaps
Number == INSTANCE Provisioning WITH sent <- posted
Limiter == INSTANCE RateLimit WITH Keys <- Clients, now <- time, MaxTime <- MaxClock
Agent == INSTANCE LocalAgent WITH session <- history

ASSUME PartsAssumption ==
  /\ Gaps!KnowledgeAssumption /\ Number!ConfigAssumption /\ IsFiniteSet(Runs)
  /\ Limiter!LimitAssumption /\ Agent!LocalAgentAssumption

-----------------------------------------------------------------------------
(* Properties of the parts, more about them in their modules.              *)

\* The answer committed last for a question is the published one.
NewestResolutionIsTold == Gaps!NewestResolutionIsTold

\* However often the script is run, alone or twice at once, and whatever answers
\* are lost or late, the account is what the operators told and were told: a run
\* that says the number is unchanged, updated or purchased has told the truth;
\* with an exact number configured no other is bought; and a run buys one number
\* at most, and only if purchases were confirmed to it.
TellsTheTruth(r) ==
  \E n \in Number!Owned :
    /\ IF Number!Configured # None THEN n = Number!Configured ELSE n = answer[r]
    /\ Number!IsOurs(account[n])

AccountIsAsTold ==
  /\ \A r \in Runs : run[r].result \in Number!Successes => TellsTheTruth(r)
  /\ Number!Configured # None => Number!Bought \subseteq {Number!Configured}
  /\ Cardinality(Number!Bought) <= Cardinality({r \in Runs : run[r].buy})

\* Wherever a window is laid, not only where one ends with a request, it has
\* at most the limit of admitted requests.
NeverOverLimit ==
  \A k \in Clients : \A t \in 0 .. time : Cardinality(Limiter!InWindow(k, t)) <= Limit

\* A tool's write is done once on a turn.
OncePerTurn == Agent!OncePerTurn

\* What was said on a streamed turn stays in the history.
UtteranceSurvives == Agent!UtteranceSurvives
=============================================================================
