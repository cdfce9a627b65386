----------------------------- MODULE MCOutside -----------------------------
(* Instances for TLC of the parts that meet the world outside (module         *)
(* Outside), in several stories.  A behaviour moves one of the parts.         *)
EXTENDS Outside, TLC

CONSTANTS a, b, o1, o2, coat, n1, n2, pilot, yes, no, k1, k2

VARIABLE story

-----------------------------------------------------------------------------
\* One question of two words that two calls may ask and two operators answer.
MCTopic == coat :> "unknown"
MCWords == coat :> {1, 2}

\* Two runs of the script: to buy an exact number, to buy any number, and to
\* bind a number that the account has.
Empty == [n \in {n1, n2, pilot} |-> None]
Bought ==
  [Empty EXCEPT ![pilot] = [type |-> "retell-twilio", agents |-> "other",
                            nickname |-> "ours", fallback |-> "ours"]]
MCSettings ==
  {[number |-> n1, fallback |-> FALSE, account |-> Empty],
   [number |-> None, fallback |-> FALSE, account |-> Empty],
   [number |-> pilot, fallback |-> TRUE, account |-> Bought]}

\* Messages of one session that overlap, a caller who interrupts, and one turn
\* with every tool; a cap of six entries for forty.
Interrupted ==
  INSTANCE LocalAgent
    WITH Runners <- {"stream"}, MaxIterations <- 1, MaxClears <- 1, session <- history
OneTurn ==
  INSTANCE LocalAgent
    WITH Requests <- {o1}, Tools <- {"summary", "add", "confirm"},
         MaxTurns <- 1, MaxClears <- 1, session <- history

ASSUME Interrupted!LocalAgentAssumption /\ OneTurn!LocalAgentAssumption

-----------------------------------------------------------------------------
Chatting == IF story = "one turn" THEN OneTurn!Init ELSE Agent!Init

StoryInit ==
  /\ story \in {"calls", "gaps", "number", "limiter", "chat", "interrupted", "one turn"}
  /\ Init /\ Gaps!Init /\ Number!Init /\ Limiter!Init /\ Chatting
  /\ story = "number" \/ setting.number = n1

StoryNext ==
  /\ UNCHANGED story
  /\ \/ story = "calls" /\ Next /\ UNCHANGED <<gapVars, numberVars, limitVars, agentVars>>
     \/ story = "gaps" /\ Gaps!Next /\ UNCHANGED <<vars, numberVars, limitVars, agentVars>>
     \/ story = "number" /\ Number!Next /\ UNCHANGED <<vars, gapVars, limitVars, agentVars>>
     \/ story = "limiter" /\ Limiter!Next /\ UNCHANGED <<vars, gapVars, numberVars, agentVars>>
     \/ story = "chat" /\ Agent!Next /\ UNCHANGED <<vars, gapVars, numberVars, limitVars>>
     \/ story = "interrupted" /\ Interrupted!Next /\ UNCHANGED <<vars, gapVars, numberVars, limitVars>>
     \/ story = "one turn" /\ OneTurn!Next /\ UNCHANGED <<vars, gapVars, numberVars, limitVars>>

StorySpec ==
  StoryInit /\ [][StoryNext]_<<story, vars, gapVars, numberVars, limitVars, agentVars>>

Symmetry ==
  UNION {Permutations(S) : S \in {{a, b}, {o1, o2}}}
=============================================================================
