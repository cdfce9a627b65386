------------------------------- MODULE MCTalk -------------------------------
(* Instances for TLC of what decides how the agent talks (module Talk): four  *)
(* stories of the behaviour reducer and two of the connections of a call.  A  *)
(* behaviour moves one of them.                                               *)
EXTENDS Talk, TLC

CONSTANTS c1, c2, words

VARIABLE story

-----------------------------------------------------------------------------
\* The observations below are records of Behavior, whatever its Observations.
NoTurns == INSTANCE Behavior WITH Observations <- {}
Silence == NoTurns!Silence

Unclear == [Silence EXCEPT !.kind = "unintelligible"]
Speech == [Silence EXCEPT !.kind = "speech"]
Abuse == [Speech EXCEPT !.boundary = "abuse"]
Threat == [Speech EXCEPT !.boundary = "abuse", !.severe = TRUE]
OffTopic == [Speech EXCEPT !.boundary = "off_topic"]
Human == [Speech EXCEPT !.handoff = "human_requested"]
Manager == [Speech EXCEPT !.handoff = "manager_requested"]
Complaint == [Speech EXCEPT !.complaint = TRUE]
Confused == [Speech EXCEPT !.confusion = TRUE]
Hurry == [Speech EXCEPT !.hurry = TRUE]
Identity == [Speech EXCEPT !.identity = TRUE]
Barge == [Speech EXCEPT !.interrupted = TRUE]
Same == [Speech EXCEPT !.utterance = words]
AskRepeat == [Speech EXCEPT !.requested = {"repeat"}]
NoRepeat == [Speech EXCEPT !.requested = {"repeat"}, !.cleared = {"repeat"}]
AskPace(p) == [Speech EXCEPT !.pace = p]
\* Ten words in the given tenths of a second: 60 is 100 words per minute.
Timed(tenths) == [Speech EXCEPT !.words = 10, !.duration = tenths]

\* The ways a call ends or is handed off.
EndingTurns == {Silence, Unclear, Speech, Abuse, Threat, Human, Manager}

\* The tone and the guidance of answers.
ToneTurns == {Unclear, Speech, OffTopic, Complaint, Confused}

\* What the caller asks for, against hurry and interruptions.
AskingTurns == {Silence, Speech, Complaint, Hurry, Barge, Same, AskRepeat,
                NoRepeat} \cup
               {AskPace(p) : p \in {"slower", "normal", "faster"}}

\* The pace: slow, around the slow threshold, normal, around the fast
\* threshold, fast, and too short to count; a question about the agent.
PaceTurns == {Timed(tenths) : tenths \in {60, 50, 40, 34, 30, 5}} \cup {Identity}

EveryTurn == EndingTurns \cup ToneTurns \cup AskingTurns \cup PaceTurns

Ending == INSTANCE Behavior WITH Observations <- EndingTurns, Lookback <- 0
Tone == INSTANCE Behavior WITH Observations <- ToneTurns
Asking == INSTANCE Behavior WITH Observations <- AskingTurns, Lookback <- 0
Pace == INSTANCE Behavior WITH Observations <- PaceTurns, Lookback <- 0

-----------------------------------------------------------------------------
\* One connection at a time, over every kind of request.
OneConnection == Cardinality({c \in Conns : loop[c] # "absent"}) <= 1

\* Two connections at a time, over fewer requests of two kinds.
Two ==
  INSTANCE RetellHandler
    WITH Kinds <- {"silent", "speech"}, MaxId <- 3, MaxChunks <- 0, MaxStray <- 0

StoryInit ==
  /\ Init /\ Reducer!Init
  /\ story \in {"ending", "tone", "asking", "pace", "one connection", "two connections"}

StoryNext ==
  \/ story = "ending" /\ Ending!Next /\ UNCHANGED <<story, vars>>
  \/ story = "tone" /\ Tone!Next /\ UNCHANGED <<story, vars>>
  \/ story = "asking" /\ Asking!Next /\ UNCHANGED <<story, vars>>
  \/ story = "pace" /\ Pace!Next /\ UNCHANGED <<story, vars>>
  \/ story = "one connection" /\ Next /\ OneConnection' /\ UNCHANGED <<story, talkVars>>
  \/ story = "two connections" /\ Two!Next /\ UNCHANGED <<story, talkVars>>

StorySpec == StoryInit /\ [][StoryNext]_<<story, vars, talkVars>>

ConnSymmetry == Permutations(Conns)
=============================================================================
