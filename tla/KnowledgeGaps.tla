--------------------------- MODULE KnowledgeGaps ---------------------------
(***************************************************************************)
(* What the restaurant learns from questions it cannot answer              *)
(* (app/services/restaurant.py, app/knowledge_search.py): a caller's       *)
(* question is looked up in the fixture and then among the answers of the  *)
(* operators; one that finds nothing becomes a row of knowledge_gaps, and  *)
(* an operator who resolves it writes a row of operator_knowledge in one   *)
(* READ COMMITTED transaction.  A question is its text in lower case, of   *)
(* at most 300 characters, so that question_normalized, LOWER(question)    *)
(* and the question itself tell the same questions apart; one restaurant.  *)
(***************************************************************************)
EXTENDS Naturals, Sequences, FiniteSets

CONSTANTS
  Calls, Operators, Questions, Answers,
  None,
  Topic,           \* question -> what find_topic says: known, ambiguous, stale, unknown
  Words,           \* question -> its content words (tokens)
  Within,          \* {<<q, r>>}: the text of q is part of that of r
  MaxResolutions   \* bound on committed resolutions

KnowledgeAssumption ==
  /\ Topic \in [Questions -> {"known", "ambiguous", "stale", "unknown"}]
  /\ \A q \in Questions : IsFiniteSet(Words[q])
  /\ MaxResolutions \in Nat
  /\ None \notin [status : {"unresolved", "resolved"}, answer : Answers \union {None}]
  /\ None \notin [answer : Answers, source : Calls \X Questions]

VARIABLES
  gaps,          \* knowledge_gaps: [Calls \X Questions -> row or None]
  knowledge,     \* operator_knowledge: [Questions -> row or None]
  caller,        \* per call: what the tool is about to log
  told,          \* per call: the last answer of restaurant_info
  resolver,      \* per operator: the transaction that resolves a gap
  resolutions    \* committed resolutions, in order

vars == <<gaps, knowledge, caller, told, resolver, resolutions>>

Ids == Calls \X Questions
Idle == [pc |-> "idle", gap |-> None, answer |-> None, found |-> FALSE]

Init ==
  /\ gaps = [g \in Ids |-> None]
  /\ knowledge = [q \in Questions |-> None]
  /\ caller = [c \in Calls |-> None]
  /\ told = [c \in Calls |-> [question |-> None, outcome |-> None]]
  /\ resolver = [o \in Operators |-> Idle]
  /\ resolutions = <<>>

QuestionOf(o) == resolver[o].gap[2]

-----------------------------------------------------------------------------
(* Looking a question up.                                                  *)

PhraseMatch(q, r) ==
  /\ Cardinality(Words[q]) >= 2 /\ Cardinality(Words[r]) >= 2
  /\ q = r \/ <<q, r>> \in Within \/ <<r, q>> \in Within

\* search_faq_rows: the row must say the same words, or share two words and
\* three quarters of its own.
Hit(q, r) ==
  LET overlap == Cardinality(Words[q] \cap Words[r])
  IN  \/ PhraseMatch(q, r)
      \/ overlap >= 2 /\ 4 * overlap >= 3 * Cardinality(Words[r])

Points(q, r) ==
  Cardinality(Words[q] \cap Words[r]) + (IF PhraseMatch(q, r) THEN 100 ELSE 0)

Hits(q) == {r \in Questions : knowledge[r] # None /\ Hit(q, r)}
Best(q) == {r \in Hits(q) : \A s \in Hits(q) : Points(q, s) <= Points(q, r)}

\* What restaurant_info answers; reading the operators' rows may fail.
Outcome(q, readable) ==
  IF Topic[q] # "unknown" THEN Topic[q]
  ELSE IF ~readable THEN "unavailable"
  ELSE IF Best(q) # {} THEN "answered" ELSE "unknown"

\* The search tool: what it cannot answer it logs next.
Search(c, q, readable) ==
  /\ caller[c] = None
  /\ told' = [told EXCEPT ![c] = [question |-> q, outcome |-> Outcome(q, readable)]]
  /\ caller' = IF Outcome(q, readable) \in {"stale", "unavailable", "unknown"}
               THEN [caller EXCEPT ![c] = q] ELSE caller
  /\ UNCHANGED <<gaps, knowledge, resolver, resolutions>>

\* The log tool is also called by itself, with any question.
Report(c, q) ==
  /\ caller[c] = None
  /\ caller' = [caller EXCEPT ![c] = q]
  /\ UNCHANGED <<gaps, knowledge, told, resolver, resolutions>>

GapLocked(g) ==
  \E o \in Operators : resolver[o].gap = g /\ resolver[o].pc \in {"faq", "write", "commit"}

\* As below, with a question asked again put back on the list.
Reopened(row) ==
  IF row = None THEN [status |-> "unresolved", answer |-> None]
  ELSE [row EXCEPT !.status = "unresolved"]

\* INSERT ... ON CONFLICT DO UPDATE of the excerpt only.
Logged(row) ==
  IF row = None THEN [status |-> "unresolved", answer |-> None] ELSE row

\* log_unknown_question, which waits for a resolution of that row; or the
\* tool fails, or the call is over.
Log(c) ==
  /\ caller[c] # None
  /\ LET g == <<c, caller[c]>>
     IN  \/ ~GapLocked(g) /\ gaps' = [gaps EXCEPT ![g] = Logged(@)]
         \/ gaps' = gaps
  /\ caller' = [caller EXCEPT ![c] = None]
  /\ UNCHANGED <<knowledge, told, resolver, resolutions>>

-----------------------------------------------------------------------------
(* resolve_knowledge_gap                                                   *)

Submit(o, g, a) ==
  /\ resolver[o].pc = "idle" /\ gaps[g] # None
  /\ Len(resolutions) < MaxResolutions
  /\ resolver' = [resolver EXCEPT ![o] = [Idle EXCEPT !.pc = "gap", !.gap = g, !.answer = a]]
  /\ UNCHANGED <<gaps, knowledge, caller, told, resolutions>>

GoTo(o, label) ==
  /\ resolver' = [resolver EXCEPT ![o].pc = label]
  /\ UNCHANGED <<gaps, knowledge, caller, told, resolutions>>

LockGap(o) == resolver[o].pc = "gap" /\ ~GapLocked(resolver[o].gap) /\ GoTo(o, "faq")

\* A committed row is locked by whoever selected it for update.
FaqLocked(q) ==
  \E o \in Operators : /\ resolver[o].pc \in {"write", "commit"} /\ resolver[o].found
                       /\ QuestionOf(o) = q

\* SELECT ... FOR UPDATE does not see a row that is not committed.
FindFaq(o) ==
  /\ resolver[o].pc = "faq" /\ ~FaqLocked(QuestionOf(o))
  /\ resolver' = [resolver EXCEPT ![o].pc = "write",
                                  ![o].found = knowledge[QuestionOf(o)] # None]
  /\ UNCHANGED <<gaps, knowledge, caller, told, resolutions>>

\* An INSERT of this question that has not committed yet.
Inserting(q) ==
  \E o \in Operators : /\ resolver[o].pc = "commit" /\ ~resolver[o].found
                       /\ QuestionOf(o) = q

\* uq_operator_knowledge_restaurant_question_ci
MayInsert(o) == ~Inserting(QuestionOf(o)) /\ knowledge[QuestionOf(o)] = None

\* UPDATE of the row that was found, or INSERT, which waits for another INSERT
\* of this question and fails if that commits (Abort).
WriteFaq(o) ==
  /\ resolver[o].pc = "write"
  /\ resolver[o].found \/ MayInsert(o)
  /\ GoTo(o, "commit")

Row(g, a) == [answer |-> a, source |-> g]

\* UPDATE knowledge_gaps, COMMIT.
Commit(o) ==
  LET x == resolver[o]
      q == QuestionOf(o)
  IN  /\ x.pc = "commit"
      /\ knowledge' = IF x.found \/ knowledge[q] = None
                      THEN [knowledge EXCEPT ![q] = Row(x.gap, x.answer)] ELSE knowledge
      /\ gaps' = [gaps EXCEPT ![x.gap] = [status |-> "resolved", answer |-> x.answer]]
      /\ resolutions' = Append(resolutions, [gap |-> x.gap, answer |-> x.answer])
      /\ resolver' = [resolver EXCEPT ![o] = Idle]
      /\ UNCHANGED <<caller, told>>

\* The unique index, the database or the request fails: all is rolled back.
Abort(o) ==
  /\ resolver[o].pc # "idle"
  /\ resolver' = [resolver EXCEPT ![o] = Idle]
  /\ UNCHANGED <<gaps, knowledge, caller, told, resolutions>>

Next ==
  \/ \E c \in Calls, q \in Questions : (\E r \in BOOLEAN : Search(c, q, r)) \/ Report(c, q)
  \/ \E c \in Calls : Log(c)
  \/ \E o \in Operators, g \in Ids, a \in Answers : Submit(o, g, a)
  \/ \E o \in Operators : LockGap(o) \/ FindFaq(o) \/ WriteFaq(o) \/ Commit(o) \/ Abort(o)

Spec == Init /\ [][Next]_vars
-----------------------------------------------------------------------------
(* Properties.                                                             *)

\* What operators see and what callers hear agree, when several operators
\* resolve gaps of one question at once: a resolved gap has a published row for
\* its question, the row says what the gap it names was resolved with, and it
\* is that of the last resolution that was committed: none that was answered
\* as done is lost to another one.
NewestResolutionIsTold ==
  /\ \A g \in Ids : gaps[g] # None /\ gaps[g].status = "resolved" => knowledge[g[2]] # None
  /\ \A q \in Questions : knowledge[q] # None =>
       LET row == knowledge[q] IN
       row.source[2] = q /\ gaps[row.source] = [status |-> "resolved", answer |-> row.answer]
  /\ \A i \in DOMAIN resolutions :
       (\A j \in i + 1 .. Len(resolutions) : resolutions[j].gap[2] # resolutions[i].gap[2])
       => knowledge[resolutions[i].gap[2]].source = resolutions[i].gap
=============================================================================
