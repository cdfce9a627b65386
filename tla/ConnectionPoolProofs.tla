------------------------ MODULE ConnectionPoolProofs ------------------------
(* Proofs of ConnectionPool: the queue of waiting tasks is well formed, and *)
(* fewer changes at a time than connections cannot block the pool.          *)
EXTENDS ConnectionPool, FiniteSetTheorems, SequenceTheorems, TLAPS

Labels == {"idle", "first", "one", "second", "two"}
Asking == At("first") \union At("second")

\* A task that is appended waits once, if it did not wait before.
LEMMA AppendOnce ==
  ASSUME NEW S, NEW T, NEW q \in Seq(S), NEW e \in T, e \notin S, S \subseteq T,
         \A i, j \in 1 .. Len(q) : i # j => q[i] # q[j]
  PROVE  /\ Append(q, e) \in Seq(T)
         /\ \A i, j \in 1 .. Len(Append(q, e)) : i # j => Append(q, e)[i] # Append(q, e)[j]
<1>1. q \in Seq(T)
  OBVIOUS
<1>2. \A i \in 1 .. Len(q) : q[i] \in S
  OBVIOUS
<1>3. Len(Append(q, e)) = Len(q) + 1 /\ Len(q) \in Nat
  OBVIOUS
<1>4. \A i \in 1 .. Len(q) + 1 : Append(q, e)[i] = IF i = Len(q) + 1 THEN e ELSE q[i]
  OBVIOUS
<1> QED BY <1>1, <1>2, <1>3, <1>4

\* A sequence is over any set its elements are in.
LEMMA Narrowed ==
  ASSUME NEW S, NEW T, NEW q \in Seq(S), \A i \in 1 .. Len(q) : q[i] \in T
  PROVE  q \in Seq(T)
OBVIOUS

\* The tail of a queue without repetition has lost its head.
LEMMA TailOnce ==
  ASSUME NEW S, NEW q \in Seq(S), q # <<>>,
         \A i, j \in 1 .. Len(q) : i # j => q[i] # q[j]
  PROVE  /\ Head(q) \in S
         /\ Tail(q) \in Seq(S \ {Head(q)})
         /\ \A i, j \in 1 .. Len(Tail(q)) : i # j => Tail(q)[i] # Tail(q)[j]
<1>1. Len(q) \in Nat \ {0} /\ Head(q) = q[1] /\ Len(Tail(q)) = Len(q) - 1
  OBVIOUS
<1>2. \A i \in 1 .. Len(q) - 1 : Tail(q)[i] = q[i + 1]
  OBVIOUS
<1>3. \A i \in 1 .. Len(q) - 1 : Tail(q)[i] \in S \ {Head(q)}
  BY <1>1, <1>2
<1>4. Tail(q) \in Seq(S \ {Head(q)})
  <2>1. Tail(q) \in Seq(S)
    BY HeadTailProperties
  <2>2. \A i \in 1 .. Len(Tail(q)) : Tail(q)[i] \in S \ {Head(q)}
    BY <1>1, <1>3
  <2> QED BY <2>1, <2>2, Narrowed
<1> QED BY <1>1, <1>2, <1>4

\* The type of the pool holds of every reachable state.
THEOREM TypeCorrect == Spec => []TypeOK
<1>1. Init => TypeOK
  BY DEF Init, TypeOK, At
<1>2. TypeOK /\ [Next]_vars => TypeOK'
  <2> SUFFICES ASSUME TypeOK, [Next]_vars PROVE TypeOK'
    OBVIOUS
  <2> USE DEF TypeOK, At
  <2>1. CASE Grant
    <3> DEFINE t == Head(waiting)
    <3>1. /\ t \in Asking
          /\ Tail(waiting) \in Seq(Asking \ {t})
          /\ \A i, j \in 1 .. Len(Tail(waiting)) : i # j => Tail(waiting)[i] # Tail(waiting)[j]
      BY <2>1, TailOnce DEF Grant, Asking
    <3>2. t \in Tasks /\ (pc[t] = "first" \/ (pc[t] = "second" /\ t \in Changes))
      BY <3>1 DEF Asking
    <3>3. /\ waiting' = Tail(waiting)
          /\ pc' = [pc EXCEPT ![t] = IF pc[t] = "first" THEN "one" ELSE "two"]
      BY <2>1 DEF Grant
    <3>4. Asking \ {t} = Asking'
      BY <3>2, <3>3 DEF Asking
    <3>5. waiting' \in Seq(Asking')
      BY <3>1, <3>3, <3>4
    <3>6. (At("second") \union At("two"))' \subseteq Changes /\ pc' \in [Tasks -> Labels]
      BY <3>2, <3>3 DEF Labels
    <3> QED BY <3>1, <3>3, <3>5, <3>6 DEF Asking, Labels
  <2>2. ASSUME NEW t \in Tasks, Begin(t) PROVE TypeOK'
    <3>1. t \notin Asking /\ Asking' = Asking \union {t}
      BY <2>2 DEF Begin, Ask, Asking
    <3>2. /\ Append(waiting, t) \in Seq(Asking')
          /\ \A i, j \in 1 .. Len(Append(waiting, t)) :
               i # j => Append(waiting, t)[i] # Append(waiting, t)[j]
      BY <3>1, AppendOnce DEF Asking
    <3> QED BY <2>2, <3>2 DEF Begin, Ask, Asking
  <2>3. ASSUME NEW t \in Tasks, LookForAlternatives(t) PROVE TypeOK'
    <3>1. t \notin Asking /\ Asking' = Asking \union {t}
      BY <2>3 DEF LookForAlternatives, Ask, Asking
    <3>2. /\ Append(waiting, t) \in Seq(Asking')
          /\ \A i, j \in 1 .. Len(Append(waiting, t)) :
               i # j => Append(waiting, t)[i] # Append(waiting, t)[j]
      BY <3>1, AppendOnce DEF Asking
    <3> QED BY <2>3, <3>2 DEF LookForAlternatives, Nests, Ask, Asking
  <2>4. ASSUME NEW t \in Tasks, GiveBack(t) \/ End(t) \/ Fail(t) PROVE TypeOK'
    <3>1. Asking' = Asking /\ waiting' = waiting
      BY <2>4 DEF GiveBack, End, Fail, Asking
    <3>2. (At("second") \union At("two"))' \subseteq Changes /\ pc' \in [Tasks -> Labels]
      BY <2>4 DEF GiveBack, End, Fail, Labels
    <3> QED BY <3>1, <3>2 DEF Asking, Labels
  <2>5. CASE UNCHANGED vars
    BY <2>5 DEF vars
  <2> QED BY <2>1, <2>2, <2>3, <2>4, <2>5 DEF Next
<1> QED BY <1>1, <1>2, PTL DEF Spec

\* For every number of tasks and connections: with fewer changes under way than
\* the pool has connections, the holders never all wait for one another.
THEOREM NeverStuck == Spec => []NotStuck
<1>1. TypeOK => NotStuck
  <2> SUFFICES ASSUME TypeOK, Cardinality(Changes) < Size,
                      ~ \E t \in Holders : pc[t] \in {"one", "two"}
               PROVE  InUse < Size
    BY DEF NotStuck
  <2>1. At("two") = {} /\ Holders \subseteq Changes
    BY DEF At, Holders, TypeOK
  <2>2. IsFiniteSet(Changes)
    BY PoolAssumption, FS_Subset
  <2>3. Cardinality(Holders) <= Cardinality(Changes) /\ Cardinality(Holders) \in Nat
    BY <2>1, <2>2, FS_Subset, FS_CardinalityType
  <2>4. Cardinality(At("two")) = 0
    BY <2>1, FS_EmptySet
  <2>5. Cardinality(Changes) \in Nat
    BY <2>2, FS_CardinalityType
  <2> QED BY <2>3, <2>4, <2>5, PoolAssumption DEF InUse
<1> QED BY <1>1, TypeCorrect, PTL
=============================================================================
