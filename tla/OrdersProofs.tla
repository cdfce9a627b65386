---------------------------- MODULE OrdersProofs ----------------------------
(***************************************************************************)
(* Proofs about Orders.  Two parts of an inductive invariant.  Ordered     *)
(* holds whatever is asked for: a row that a request has locked stays as   *)
(* the request has found it, so that what it then writes is what it was    *)
(* allowed to write.  Accounted needs NamesKnownItems: items change only   *)
(* under the lock of their order, so that totals and readbacks stay true.  *)
(***************************************************************************)
EXTENDS Orders, FiniteSetTheorems, SequenceTheorems, WellFoundedInduction, TLAPS

Labels == {"idle", "look", "choose", "lock", "lockItem", "insert", "write", "row", "items"}

Payloads ==
  [order : OrderIds, version : Nat, kind : Kinds, booking : BOOLEAN, address : BOOLEAN,
   total : Amounts, items : [Quantities -> Nat]]

Handling ==
  [pc : Labels, ask : Requests \cup {None}, order : {0} \cup OrderIds, row : Row \cup {None},
   dineIn : BOOLEAN, address : BOOLEAN]

TypeOK ==
  /\ orders \in [OrderIds -> Row \cup {None}]
  /\ items \in [ItemIds -> Item \cup {None}]
  /\ created \in 0 .. MaxItems
  /\ handler \in [Handlers -> Handling]
  /\ readbacks \in Seq(Payloads)
  /\ agreed \in 0 .. Len(readbacks)
  /\ accepts \in 0 .. agreed

\* The ids of orders and of items are given out one after the other.
Numbered ==
  /\ \E n \in 0 .. MaxOrders : Existing = 1 .. n
  /\ \A i \in ItemIds : items[i] # None => i <= created /\ items[i].order \in Existing

Changes == {"add", "update", "remove", "notes", "guest", "fulfil"}

\* What a request knows at its position, x being its local variables.
Knows(x) ==
  /\ x.pc # "idle" => x.ask \in Requests
  /\ x.pc \in {"look", "choose"} /\ x.ask.op \notin {"update", "remove"} => x.order = 0
  /\ x.pc \in {"lock", "lockItem", "row"} => x.order \in Existing
  /\ x.pc = "items" => x.row \in Row /\ x.order \in OrderIds
  /\ x.pc = "lockItem" => x.ask.op \in {"update", "remove"}
  /\ x.pc = "write" =>
       IF x.order = 0 THEN x.ask.op \in {"add", "book"}
       ELSE /\ x.order \in Existing
            /\ x.ask.op \in Changes /\ orders[x.order].status = "confirmed" =>
                 /\ x.ask.op # "fulfil" /\ KindOf(orders[x.order]) = "dine_in" /\ x.ask.sure
            /\ x.ask.op = "book" => CanAttach(orders[x.order])
            /\ x.ask.op = "confirm" =>
                 /\ orders[x.order].status = "pending"
                 /\ KindOf(orders[x.order]) = "delivery" => orders[x.order].address

\* The lock of an order has one holder.
LockedOnce ==
  \A g, h \in Handlers :
    /\ handler[g].pc = "write" /\ handler[h].pc = "write"
    /\ handler[g].order = handler[h].order /\ handler[g].order # 0
    => g = h

Ordered ==
  /\ TypeOK /\ Numbered /\ LockedOnce /\ DeliveryHasAddress
  /\ \A h \in Handlers : Knows(handler[h])

\* The item that is asked for is one of the order that is or will be locked.
OwnItem(x) ==
  x.pc \in {"lock", "lockItem", "write"} /\ x.ask.op \in {"update", "remove"}
    /\ items[x.ask.item] # None => items[x.ask.item].order = x.order

\* What is about to be confirmed is what was read back before a yes.
AsReadBack(x) ==
  x.pc = "write" /\ x.ask.op = "confirm" =>
    \E n \in 1 .. agreed : readbacks[n] = Payload(orders[x.order], items, x.order)

Accounted ==
  /\ TotalIsOfItems
  /\ \A h \in Handlers : OwnItem(handler[h]) /\ AsReadBack(handler[h])

-----------------------------------------------------------------------------
(* Numbers, requests, totals and payloads. *)

\* Every nonempty set of naturals has a least element.
LEMMA LeastNatural ==
  ASSUME NEW S \in SUBSET Nat, S # {}
  PROVE \E m \in S : \A n \in S : m <= n
<1>1. \E R : IsWellFoundedOn(R, Nat) /\ \A m, n \in Nat : <<n, m>> \in R <=> n < m
  <2>1. \A m, n \in Nat : <<n, m>> \in OpToRel(<, Nat) <=> n < m
    BY DEF OpToRel
  <2> QED BY NatLessThanWellFounded, <2>1
<1>2. PICK R : IsWellFoundedOn(R, Nat) /\ \A m, n \in Nat : <<n, m>> \in R <=> n < m
  BY <1>1
<1>3. PICK m \in S : \A n \in S : ~(<<n, m>> \in R)
  BY <1>2, WFMin
<1>4. ASSUME NEW n \in S PROVE m <= n
  <2>1. m \in Nat /\ n \in Nat /\ ~(<<n, m>> \in R)
    BY <1>3
  <2>2. ~(n < m)
    BY <1>2, <2>1
  <2> QED BY <2>1, <2>2
<1> QED BY <1>4

\* A nonempty set of ids has a greatest one.
LEMMA LatestIsIn ==
  ASSUME NEW m \in Nat, NEW S \in SUBSET (1 .. m), S # {}
  PROVE  Max(S) \in S /\ Latest(S) \in S
<1> DEFINE T == {m - x : x \in S}
<1>1. T \in SUBSET Nat /\ T # {}
  <2>1. \A x \in S : m - x \in Nat
    OBVIOUS
  <2> QED BY <2>1
<1>2. PICK y \in T : \A z \in T : y <= z
  BY <1>1, LeastNatural
<1>3. PICK x \in S : y = m - x
  BY <1>2
<1>4. \A z \in S : x >= z
  <2> SUFFICES ASSUME NEW z \in S PROVE x >= z
    OBVIOUS
  <2>1. m - z \in T
    OBVIOUS
  <2> QED BY <1>2, <1>3, <2>1
<1> QED BY <1>3, <1>4 DEF Max, Latest

\* What a request of a kind has.
LEMMA RequestTyped ==
  ASSUME NEW r \in Requests
  PROVE  /\ r.op \in Changes \cup {"confirm", "summary", "book"}
         /\ r.op \in {"update", "remove"} => r.item \in ItemIds
         /\ r.op \in {"add", "update"} => r.quantity \in Quantities
         /\ r.op \in {"add", "update", "remove", "notes", "guest"} => r.sure \in BOOLEAN
         /\ r.op = "guest" => r.sure = FALSE
         /\ r.op = "fulfil" => r.kind \in Kinds
BY OrdersAssumption DEF Request, Changes

LEMMA KindTyped == ASSUME NEW row \in Row PROVE KindOf(row) \in Kinds
BY DEF Row, KindOf, Kinds

\* A total is one of the amounts.
LEMMA TotalTyped ==
  ASSUME NEW its \in [ItemIds -> Item \cup {None}], NEW o, NEW row
  PROVE  TotalOf(row, its, o) \in Amounts
<1> DEFINE S == Committed(its, o)
           f == [i \in S |-> its[i].quantity]
<1>1. S \in SUBSET ItemIds /\ f \in [S -> Quantities]
  BY DEF Committed, Item
<1>2. f \in UNION {[T -> Quantities] : T \in SUBSET ItemIds}
  BY <1>1
<1>3. ItemTotal(its, o) = SumFunction(f)
  BY DEF ItemTotal
<1> QED BY <1>2, <1>3 DEF TotalOf, Amounts

LEMMA PayloadTyped ==
  ASSUME NEW its \in [ItemIds -> Item \cup {None}], NEW o \in OrderIds, NEW row \in Row
  PROVE  Payload(row, its, o) \in Payloads
<1>1. ASSUME NEW q \in Quantities
      PROVE  Cardinality({i \in Committed(its, o) : its[i].quantity = q}) \in Nat
  <2>1. IsFiniteSet(ItemIds)
    BY OrdersAssumption, FS_Interval DEF ItemIds
  <2>2. {i \in Committed(its, o) : its[i].quantity = q} \subseteq ItemIds
    BY DEF Committed
  <2> QED BY <2>1, <2>2, FS_Subset, FS_CardinalityType
<1>2. TotalOf(row, its, o) \in Amounts /\ KindOf(row) \in Kinds
  BY TotalTyped, KindTyped
<1>3. row.version \in Nat /\ row.booking \in BOOLEAN /\ row.address \in BOOLEAN
  BY DEF Row
<1> QED BY <1>1, <1>2, <1>3 DEF Payload, Payloads

\* Neither depends on the items of other orders.
LEMMA OtherItems ==
  ASSUME NEW its \in [ItemIds -> Item \cup {None}], NEW new \in [ItemIds -> Item \cup {None}],
         NEW o, NEW row,
         \A i \in ItemIds : its[i] # new[i] =>
           /\ its[i] # None => its[i].order # o
           /\ new[i] # None => new[i].order # o
  PROVE  TotalOf(row, its, o) = TotalOf(row, new, o) /\ Payload(row, its, o) = Payload(row, new, o)
<1>1. Committed(its, o) = Committed(new, o)
  BY DEF Committed
<1>2. \A i \in Committed(its, o) : its[i] = new[i]
  BY DEF Committed
<1>3. [i \in Committed(its, o) |-> its[i].quantity] = [i \in Committed(new, o) |-> new[i].quantity]
  BY <1>1, <1>2
<1>4. TotalOf(row, its, o) = TotalOf(row, new, o)
  BY <1>3 DEF TotalOf, ItemTotal
<1>5. ASSUME NEW q \in Quantities
      PROVE  {i \in Committed(its, o) : its[i].quantity = q}
               = {i \in Committed(new, o) : new[i].quantity = q}
  BY <1>1, <1>2
<1>6. [q \in Quantities |-> Cardinality({i \in Committed(its, o) : its[i].quantity = q})]
        = [q \in Quantities |-> Cardinality({i \in Committed(new, o) : new[i].quantity = q})]
  BY <1>5
<1> QED BY <1>4, <1>6 DEF Payload

-----------------------------------------------------------------------------
(* Steps that leave the database alone. *)

\* A chosen order exists.
LEMMA Chosen ==
  ASSUME Ordered, NEW h \in Handlers, handler[h].pc = "choose", Choice(h) # 0
  PROVE  Choice(h) \in Existing
<1>1. /\ \A S \in SUBSET (1 .. MaxOrders) : S # {} => Latest(S) \in S
      /\ Latest({}) = 0 /\ MaxOrders \in Nat
  BY LatestIsIn, OrdersAssumption DEF Latest
<1>2. Existing \in SUBSET (1 .. MaxOrders) /\ Pending \in SUBSET (1 .. MaxOrders) /\ Pending \subseteq Existing
  BY DEF Existing, Pending, OrderIds
<1>3. Current # 0 => Current \in Existing
  BY <1>1, <1>2 DEF Current
<1>4. Attachable # 0 => Attachable \in Existing
  <2>1. {o \in Existing : CanAttach(orders[o])} \in SUBSET (1 .. MaxOrders)
    BY <1>2
  <2> QED BY <1>1, <2>1 DEF Attachable
<1>5. ItemThere(h) => items[handler[h].ask.item].order \in Existing
  BY RequestTyped DEF ItemThere, Op, Ordered, Numbered, Knows
<1> QED BY <1>1, <1>2, <1>3, <1>4, <1>5 DEF Choice

\* A request moves on and takes a lock, if any, that is free.
LEMMA QuietFits ==
  ASSUME Ordered, NEW h \in Handlers, NEW x \in Handling, Become(h, x), UNCHANGED db,
         Knows(x), x.pc = "write" /\ x.order # 0 => ~OrderLocked(x.order),
         readbacks' \in Seq(Payloads), agreed' \in 0 .. Len(readbacks'), accepts' \in 0 .. agreed'
  PROVE  Ordered'
<1>1. handler' \in [Handlers -> Handling] /\ handler'[h] = x
      /\ \A g \in Handlers \ {h} : handler'[g] = handler[g]
  BY DEF Become, Ordered, TypeOK
<1>2. TypeOK'
  BY <1>1 DEF Ordered, TypeOK, db
<1>3. Numbered' /\ DeliveryHasAddress'
  BY DEF Ordered, Numbered, DeliveryHasAddress, Existing, db
<1>4. \A g \in Handlers : Knows(handler[g])'
  <2>1. \A y : Knows(y) => Knows(y)'
    BY DEF Knows, Existing, db
  <2> QED BY <1>1, <2>1 DEF Ordered
<1>5. LockedOnce'
  BY <1>1 DEF LockedOnce, Ordered, OrderLocked
<1> QED BY <1>2, <1>3, <1>4, <1>5 DEF Ordered

\* A request that is done holds nothing.
LEMMA IdleKnows == Idle \in Handling /\ Knows(Idle) /\ Idle.pc = "idle"
BY DEF Idle, Handling, Labels, Knows

LEMMA FinishFits ==
  ASSUME Ordered, NEW h \in Handlers, Finish(h), UNCHANGED db,
         readbacks' \in Seq(Payloads), agreed' \in 0 .. Len(readbacks'), accepts' \in 0 .. agreed'
  PROVE  Ordered'
BY QuietFits, IdleKnows DEF Finish

\* The gate as it was.
LEMMA GateTyped ==
  ASSUME Ordered, UNCHANGED gate
  PROVE  readbacks' \in Seq(Payloads) /\ agreed' \in 0 .. Len(readbacks') /\ accepts' \in 0 .. agreed'
BY DEF Ordered, TypeOK, gate

LEMMA ArriveFits == ASSUME Ordered, NEW h \in Handlers, Arrive(h) PROVE Ordered'
<1>1. PICK r \in Requests :
        Become(h, [Idle EXCEPT !.ask = r,
                               !.pc = IF r.op \in {"add", "guest"} THEN "look" ELSE "choose"])
  BY DEF Arrive
<1> DEFINE x == [Idle EXCEPT !.ask = r,
                             !.pc = IF r.op \in {"add", "guest"} THEN "look" ELSE "choose"]
<1>2. x \in Handling /\ Knows(x) /\ x.pc # "write"
  BY DEF Idle, Handling, Labels, Knows
<1>3. UNCHANGED db /\ UNCHANGED gate /\ Become(h, x)
  BY <1>1 DEF Arrive
<1> HIDE DEF x
<1> QED BY <1>2, <1>3, GateTyped, QuietFits

LEMMA LookFits == ASSUME Ordered, NEW h \in Handlers, Look(h) PROVE Ordered'
<1> DEFINE o == Current
           has == booking # "none"
           dine == IF o = 0 THEN has
                   ELSE KindOf(orders[o]) = "dine_in" /\ (orders[o].booking \/ has)
           placed == o # 0 /\ orders[o].address
           x == [handler[h] EXCEPT !.pc = "choose", !.dineIn = dine, !.address = placed]
           y == [handler[h] EXCEPT !.pc = "choose"]
<1>1. handler[h] \in Handling /\ Knows(handler[h])
  BY DEF Ordered, TypeOK
<1>2. UNCHANGED db /\ UNCHANGED gate /\ handler[h].pc = "look"
  BY DEF Look, At
<1>3. dine \in BOOLEAN
  OBVIOUS
<1>4. placed \in BOOLEAN
  OBVIOUS
<1>5. Become(h, x) \/ Become(h, y) \/ Finish(h)
  BY DEF Look, GoTo
<1> HIDE DEF dine, placed
<1>6. x \in Handling /\ Knows(x) /\ x.pc # "write"
  BY <1>1, <1>2, <1>3, <1>4 DEF Handling, Labels, Knows
<1>7. y \in Handling /\ Knows(y) /\ y.pc # "write"
  BY <1>1, <1>2 DEF Handling, Labels, Knows
<1> HIDE DEF x, y
<1> QED BY <1>2, <1>5, <1>6, <1>7, GateTyped, QuietFits, FinishFits

LEMMA ChooseFits == ASSUME Ordered, NEW h \in Handlers, Choose(h) PROVE Ordered'
<1>1. handler[h] \in Handling /\ Knows(handler[h]) /\ handler[h].pc = "choose" /\ handler[h].ask \in Requests
  BY DEF Ordered, TypeOK, Choose, Knows
<1>2. UNCHANGED db /\ UNCHANGED gate
  BY DEF Choose
<1>3. CASE Choice(h) # 0
  <2> DEFINE label == CASE Op(h) = "summary" -> "row"
                        [] ItemThere(h)      -> "lockItem"
                        [] OTHER             -> "lock"
             x == [handler[h] EXCEPT !.order = Choice(h), !.pc = label]
  <2>1. Choice(h) \in Existing /\ Existing \subseteq OrderIds
    BY <1>1, <1>3, Chosen DEF Existing
  <2>2. label \in {"row", "lock", "lockItem"} /\ (label = "lockItem" => ItemThere(h))
    OBVIOUS
  <2>3. Become(h, x)
    BY <1>3 DEF Choose
  <2>4. ItemThere(h) => handler[h].ask.op \in {"update", "remove"}
    BY <1>1 DEF ItemThere, Op
  <2> HIDE DEF label
  <2>5. x \in Handling /\ Knows(x) /\ x.pc # "write"
    BY <1>1, <2>1, <2>2, <2>4 DEF Handling, Labels, Knows
  <2> HIDE DEF x
  <2> QED BY <1>2, <2>3, <2>5, GateTyped, QuietFits
<1>4. CASE Choice(h) = 0
  <2> DEFINE x == [handler[h] EXCEPT !.pc = "insert"]
             y == [handler[h] EXCEPT !.pc = "write"]
  <2>1. \/ Finish(h)
        \/ Op(h) = "add" /\ Become(h, x)
        \/ Op(h) = "book" /\ Become(h, y)
    BY <1>4 DEF Choose, GoTo
  <2>2. CASE Finish(h)
    BY <1>2, <2>2, GateTyped, FinishFits
  <2>3. CASE Op(h) = "add" /\ Become(h, x)
    <3>1. x \in Handling /\ Knows(x) /\ x.pc # "write"
      BY <1>1 DEF Handling, Labels, Knows
    <3> QED BY <1>2, <2>3, <3>1, GateTyped, QuietFits
  <2>4. CASE Op(h) = "book" /\ Become(h, y)
    <3>1. handler[h].ask.op = "book" /\ handler[h].order = 0
      BY <1>1, <2>4 DEF Op, Knows
    <3>2. y \in Handling /\ Knows(y) /\ y.order = 0
      BY <1>1, <3>1 DEF Handling, Labels, Knows
    <3> QED BY <1>2, <2>4, <3>2, GateTyped, QuietFits
  <2> QED BY <2>1, <2>2, <2>3, <2>4
<1> QED BY <1>3, <1>4

\* A change finds its order as it may be changed.
LEMMA LockForChangeFits ==
  ASSUME Ordered, NEW h \in Handlers, LockForChange(h)
  PROVE  Ordered'
<1> DEFINE n == handler[h]
           o == n.order
           x == [n EXCEPT !.pc = "choose"]
           y == [n EXCEPT !.pc = "write"]
<1>1. /\ n \in Handling /\ Knows(n) /\ n.pc \in {"lock", "lockItem"} /\ n.ask \in Requests
      /\ n.ask.op \in Changes /\ Op(h) = n.ask.op /\ o \in Existing /\ o # 0 /\ ~OrderLocked(o)
  BY DEF Ordered, TypeOK, LockForChange, Knows, Changes, Op, Existing, OrderIds
<1>2. UNCHANGED db /\ UNCHANGED gate
  BY DEF LockForChange
<1>3. \/ n.pc = "lockItem" /\ Become(h, x)
      \/ Finish(h)
      \/ Allowed(h, orders[o]) /\ Become(h, y)
  BY DEF LockForChange, GoTo
<1>4. CASE n.pc = "lockItem" /\ Become(h, x)
  <2>1. x \in Handling /\ Knows(x) /\ x.pc # "write"
    BY <1>1, <1>4 DEF Handling, Labels, Knows
  <2> QED BY <1>2, <1>4, <2>1, GateTyped, QuietFits
<1>5. CASE Finish(h)
  BY <1>2, <1>5, GateTyped, FinishFits
<1>6. CASE Allowed(h, orders[o]) /\ Become(h, y)
  <2>1. orders[o].status = "confirmed" =>
          n.ask.op # "fulfil" /\ KindOf(orders[o]) = "dine_in" /\ n.ask.sure
    BY <1>1, <1>6 DEF Allowed
  <2>2. y \in Handling
    BY <1>1 DEF Handling, Labels
  <2>3. /\ y.pc = "write" /\ y.order = o /\ y.ask = n.ask /\ n.ask.op # "book" /\ n.ask.op # "confirm"
    BY <1>1 DEF Handling, Changes
  <2> HIDE DEF y
  <2>4. Knows(y)
    BY <1>1, <2>1, <2>3 DEF Knows
  <2> QED BY <1>1, <1>2, <1>6, <2>2, <2>3, <2>4, GateTyped, QuietFits
<1> QED BY <1>3, <1>4, <1>5, <1>6

LEMMA LockToBookFits == ASSUME Ordered, NEW h \in Handlers, LockToBook(h) PROVE Ordered'
<1> DEFINE n == handler[h]
           o == n.order
           p == IF CanAttach(orders[o]) THEN o ELSE 0
           x == [n EXCEPT !.pc = "write", !.order = p]
<1>1. /\ n \in Handling /\ n.ask \in Requests /\ n.ask.op = "book"
      /\ o \in Existing /\ ~OrderLocked(o)
  BY DEF Ordered, TypeOK, LockToBook, Knows, Op, At
<1>2. UNCHANGED db /\ UNCHANGED gate /\ Become(h, x)
  BY DEF LockToBook
<1>3. p \in {0} \cup OrderIds /\ (p # 0 => p = o /\ CanAttach(orders[o])) /\ 0 \notin OrderIds
  BY <1>1 DEF Existing, OrderIds
<1> HIDE DEF p
<1>4. x \in Handling /\ x.pc = "write" /\ x.order = p /\ x.ask = n.ask
  BY <1>1, <1>3 DEF Handling, Labels
<1> HIDE DEF x
<1>5. Knows(x)
  BY <1>1, <1>3, <1>4 DEF Knows, Changes
<1> QED BY <1>1, <1>2, <1>3, <1>4, <1>5, GateTyped, QuietFits

LEMMA InsertOrderFits == ASSUME Ordered, NEW h \in Handlers, InsertOrder(h) PROVE Ordered'
<1> DEFINE n == handler[h]
           x == [n EXCEPT !.pc = "write", !.order = 0]
<1>1. n \in Handling /\ n.ask \in Requests /\ n.ask.op = "add"
  BY DEF Ordered, TypeOK, InsertOrder, Knows, Op, At
<1>2. UNCHANGED db /\ UNCHANGED gate /\ (Become(h, x) \/ Finish(h))
  BY DEF InsertOrder
<1>3. x \in Handling /\ x.order = 0 /\ Knows(x)
  BY <1>1 DEF Handling, Labels, Knows
<1> HIDE DEF x
<1> QED BY <1>2, <1>3, GateTyped, QuietFits, FinishFits

LEMMA ReadRowFits == ASSUME Ordered, NEW h \in Handlers, ReadRow(h) PROVE Ordered'
<1> DEFINE n == handler[h]
           row == orders[n.order]
           x == [n EXCEPT !.pc = "items", !.row = row]
<1>1. n \in Handling /\ n.ask \in Requests /\ n.order \in Existing
  BY DEF Ordered, TypeOK, ReadRow, Knows, At
<1>2. UNCHANGED db /\ UNCHANGED gate /\ Become(h, x)
  BY DEF ReadRow
<1>3. row \in Row /\ n.order \in OrderIds
  BY <1>1 DEF Ordered, TypeOK, Existing
<1> HIDE DEF row
<1>4. x \in Handling /\ x.pc # "write" /\ Knows(x)
  BY <1>1, <1>3 DEF Handling, Labels, Knows
<1> HIDE DEF x
<1> QED BY <1>2, <1>4, GateTyped, QuietFits

\* A readback is added to those there were.
LEMMA Registering ==
  ASSUME Ordered, NEW p \in Payloads, Registered(p)
  PROVE  /\ readbacks' \in Seq(Payloads) /\ Len(readbacks') = Len(readbacks) + 1
         /\ \A n \in 1 .. agreed : readbacks'[n] = readbacks[n]
         /\ accepts' = 0
<1>1. /\ readbacks \in Seq(Payloads) /\ readbacks' = Append(readbacks, p) /\ accepts' = 0
      /\ agreed \in 0 .. Len(readbacks) /\ Len(readbacks) \in Nat
  BY DEF Registered, Ordered, TypeOK
<1>2. /\ Append(readbacks, p) \in Seq(Payloads) /\ Len(Append(readbacks, p)) = Len(readbacks) + 1
      /\ \A n \in 1 .. Len(readbacks) : Append(readbacks, p)[n] = readbacks[n]
  BY <1>1, AppendProperties
<1> QED BY <1>1, <1>2

LEMMA ReadItemsFits == ASSUME Ordered, NEW h \in Handlers, ReadItems(h) PROVE Ordered'
<1> DEFINE o == handler[h].order
           row == handler[h].row
<1>1. Finish(h) /\ UNCHANGED <<db, agreed>>
  BY DEF ReadItems
<1>2. CASE Registered(Payload(row, items, o))
  <2>1. row \in Row /\ o \in OrderIds
    BY DEF Ordered, ReadItems, At, Knows
  <2>2. Payload(row, items, o) \in Payloads
    BY <2>1, PayloadTyped DEF Ordered, TypeOK
  <2>3. readbacks' \in Seq(Payloads) /\ Len(readbacks') = Len(readbacks) + 1 /\ accepts' = 0
    BY <1>2, <2>2, Registering
  <2>4. agreed' \in 0 .. Len(readbacks') /\ accepts' \in 0 .. agreed'
    BY <1>1, <2>3 DEF Ordered, TypeOK
  <2> QED BY <1>1, <2>3, <2>4, FinishFits
<1>3. CASE UNCHANGED <<readbacks, accepts>>
  BY <1>1, <1>3, GateTyped, FinishFits DEF gate
<1> QED BY <1>2, <1>3 DEF ReadItems

\* What is confirmed has been found to be as the caller heard it.
LEMMA CheckConfirmFits == ASSUME Ordered, NEW h \in Handlers, CheckConfirm(h) PROVE Ordered'
<1> DEFINE n == handler[h]
           o == n.order
           x == [n EXCEPT !.pc = "write"]
<1>1. /\ n \in Handling /\ n.ask \in Requests /\ n.ask.op = "confirm"
      /\ o \in Existing /\ o # 0 /\ ~OrderLocked(o)
  BY DEF Ordered, TypeOK, CheckConfirm, Knows, Op, At, Existing, OrderIds
<1>2. UNCHANGED db /\ UNCHANGED <<readbacks, agreed>>
  BY DEF CheckConfirm
<1>3. \/ orders[o].status = "pending" /\ Served(orders[o]) /\ accepts' = 0 /\ Become(h, x)
      \/ UNCHANGED accepts /\ Finish(h)
  BY DEF CheckConfirm, GoTo
<1>4. accepts' \in 0 .. agreed' /\ readbacks' \in Seq(Payloads) /\ agreed' \in 0 .. Len(readbacks')
  BY <1>2, <1>3 DEF Ordered, TypeOK
<1>5. x \in Handling /\ x.pc = "write" /\ x.order = o /\ x.ask = n.ask
  BY <1>1 DEF Handling, Labels
<1> HIDE DEF x
<1>6. ASSUME orders[o].status = "pending", Served(orders[o]) PROVE Knows(x)
  BY <1>1, <1>5, <1>6 DEF Knows, Changes, Served
<1> QED BY <1>1, <1>2, <1>3, <1>4, <1>5, <1>6, QuietFits, FinishFits

LEMMA TurnFits == ASSUME Ordered, Turn PROVE Ordered'
<1>1. TypeOK'
  BY DEF Ordered, TypeOK, Turn, db
<1>2. Numbered' /\ DeliveryHasAddress' /\ LockedOnce'
  BY DEF Ordered, Turn, db, Numbered, DeliveryHasAddress, LockedOnce, Existing
<1>3. \A g \in Handlers : Knows(handler[g])'
  BY DEF Ordered, Turn, db, Knows, Existing
<1> QED BY <1>1, <1>2, <1>3 DEF Ordered

LEMMA CancelBookingFits == ASSUME Ordered, CancelBooking PROVE Ordered'
<1>1. TypeOK'
  BY DEF Ordered, TypeOK, CancelBooking, gate
<1>2. Numbered' /\ DeliveryHasAddress' /\ LockedOnce'
  BY DEF Ordered, CancelBooking, Numbered, DeliveryHasAddress, LockedOnce, Existing
<1>3. \A g \in Handlers : Knows(handler[g])'
  BY DEF Ordered, CancelBooking, Knows, Existing
<1> QED BY <1>1, <1>2, <1>3 DEF Ordered

-----------------------------------------------------------------------------
(* Steps that write an order: the one that the request has locked, or one    *)
(* that it inserts.                                                          *)

Written(h, o, row) ==
  /\ handler[h].pc = "write" /\ Finish(h) /\ UNCHANGED gate
  /\ o \in OrderIds
  /\ \/ o \in Existing /\ o = handler[h].order
     \/ handler[h].order = 0 /\ \E n \in 0 .. MaxOrders : Existing = 1 .. n /\ o = n + 1
  /\ row \in Row /\ orders' = [orders EXCEPT ![o] = row]

\* The items of the order that the step adds, changes or removes.
OfItsItems(o) ==
  /\ items' \in [ItemIds -> Item \cup {None}] /\ created' \in created .. MaxItems
  /\ \A i \in ItemIds : items'[i] # None =>
       IF items[i] = None THEN created < i /\ i <= created' /\ items'[i].order = o
       ELSE items'[i].order = items[i].order

Placed(row) == row.status = "confirmed" /\ KindOf(row) = "delivery" => row.address

\* Whoever else has a lock has another order.
LEMMA OthersElsewhere ==
  ASSUME Ordered, NEW h \in Handlers, NEW o, NEW row, Written(h, o, row),
         NEW g \in Handlers, g # h, handler[g].pc = "write"
  PROVE  handler[g].order # o
<1>1. handler[g].order = 0 \/ handler[g].order \in Existing
  BY DEF Ordered, Knows
<1>2. o # 0
  BY DEF Written, OrderIds
<1>3. CASE o \in Existing /\ o = handler[h].order
  BY <1>2, <1>3 DEF Ordered, LockedOnce, Written
<1>4. CASE \E n \in 0 .. MaxOrders : Existing = 1 .. n /\ o = n + 1
  BY <1>1, <1>2, <1>4
<1> QED BY <1>3, <1>4 DEF Written

LEMMA WrittenFits ==
  ASSUME Ordered, NEW h \in Handlers, NEW o, NEW row, Written(h, o, row),
         OfItsItems(o), Placed(row)
  PROVE  Ordered'
<1>1. /\ handler' = [handler EXCEPT ![h] = Idle] /\ UNCHANGED gate
      /\ orders' = [orders EXCEPT ![o] = row] /\ row \in Row /\ o \in OrderIds
  BY DEF Written, Finish, Become
<1>2. row # None
  BY <1>1, OrdersAssumption
<1>3. TypeOK'
  <2>1. handler' \in [Handlers -> Handling] /\ orders' \in [OrderIds -> Row \cup {None}]
    BY <1>1, IdleKnows DEF Ordered, TypeOK
  <2>2. created' \in 0 .. MaxItems
    BY OrdersAssumption DEF OfItsItems, Ordered, TypeOK
  <2> QED BY <1>1, <2>1, <2>2, GateTyped DEF OfItsItems, TypeOK, gate
<1>4. Existing' = Existing \cup {o}
  BY <1>1, <1>2 DEF Existing, Ordered, TypeOK
<1>5. Numbered'
  <2>1. PICK n \in 0 .. MaxOrders : Existing = 1 .. n
    BY DEF Ordered, Numbered
  <2>2. \E m \in 0 .. MaxOrders : Existing' = 1 .. m
    <3>1. CASE o \in Existing
      BY <1>4, <2>1, <3>1
    <3>2. CASE \E m \in 0 .. MaxOrders : Existing = 1 .. m /\ o = m + 1
      <4>1. PICK m \in 0 .. MaxOrders : Existing = 1 .. m /\ o = m + 1
        BY <3>2
      <4>2. Existing' = 1 .. o /\ o \in 0 .. MaxOrders
        BY <1>1, <1>4, <4>1, OrdersAssumption DEF OrderIds
      <4> QED BY <4>2
    <3> QED BY <3>1, <3>2 DEF Written
  <2>3. ASSUME NEW i \in ItemIds, items'[i] # None
        PROVE  i <= created' /\ items'[i].order \in Existing'
    <3>1. CASE items[i] = None
      BY <1>4, <2>3, <3>1 DEF OfItsItems
    <3>2. CASE items[i] # None
      <4>1. i <= created /\ items[i].order \in Existing /\ created <= created'
        BY <3>2, OrdersAssumption DEF Ordered, Numbered, OfItsItems, TypeOK
      <4>2. created \in Nat /\ created' \in Nat /\ i \in Nat
        BY <1>3, OrdersAssumption DEF Ordered, TypeOK, ItemIds
      <4> QED BY <1>4, <2>3, <3>2, <4>1, <4>2 DEF OfItsItems
    <3> QED BY <3>1, <3>2
  <2> QED BY <2>2, <2>3 DEF Numbered
<1>6. DeliveryHasAddress'
  BY <1>1, <1>4 DEF Ordered, DeliveryHasAddress, Placed, TypeOK, Existing
<1>7. ASSUME NEW g \in Handlers PROVE Knows(handler[g])'
  <2>1. CASE g = h
    BY <1>1, <2>1, IdleKnows DEF Knows, Idle, Ordered, TypeOK
  <2>2. CASE g # h
    <3>1. handler'[g] = handler[g] /\ Knows(handler[g])
      BY <1>1, <2>2 DEF Ordered, TypeOK
    <3>2. handler[g].pc = "write" => handler[g].order # o
      BY <2>2, OthersElsewhere
    <3>3. handler[g].pc = "write" /\ handler[g].order # 0 =>
            handler[g].order \in Existing /\ orders'[handler[g].order] = orders[handler[g].order]
      BY <1>1, <3>1, <3>2 DEF Knows, Existing, Ordered, TypeOK
    <3> QED BY <1>4, <3>1, <3>3 DEF Knows
  <2> QED BY <2>1, <2>2
<1>8. LockedOnce'
  BY <1>1, IdleKnows DEF Ordered, LockedOnce, TypeOK
<1> QED BY <1>3, <1>5, <1>6, <1>7, <1>8 DEF Ordered

\* The row is stored with its total.
LEMMA Storing ==
  ASSUME Ordered, NEW o \in OrderIds, NEW row \in Row,
         NEW its \in [ItemIds -> Item \cup {None}], Store(o, row, its)
  PROVE  \E new \in Row :
           /\ orders' = [orders EXCEPT ![o] = new] /\ items' = its
           /\ new.status = row.status /\ KindOf(new) = KindOf(row) /\ new.address = row.address
           /\ new.status = "confirmed" => new.total = TotalOf(new, its, o)
<1> DEFINE new == IF row.status = "confirmed" THEN [row EXCEPT !.total = TotalOf(row, its, o)] ELSE row
<1>1. orders' = [orders EXCEPT ![o] = new] /\ items' = its
  BY DEF Store
<1>2. TotalOf(row, its, o) \in Amounts
  BY TotalTyped
<1>3. new \in Row
  BY <1>2 DEF Row
<1>4. new.status = row.status /\ new.kind = row.kind /\ new.booking = row.booking /\ new.address = row.address
  BY DEF Row
<1>5. KindOf(new) = KindOf(row)
  BY <1>4 DEF KindOf
<1>6. TotalOf(new, its, o) = TotalOf(row, its, o)
  BY <1>5 DEF TotalOf
<1>7. new.status = "confirmed" => new.total = TotalOf(row, its, o)
  BY <1>4 DEF Row
<1> HIDE DEF new
<1> QED BY <1>1, <1>3, <1>4, <1>5, <1>6, <1>7

\* If the item that is asked for is one of the order, only items of the order
\* change; and a confirmed order has its total again.
OnlyItsItems(o) ==
  \A i \in ItemIds : items'[i] # items[i] =>
    /\ items[i] # None => items[i].order = o
    /\ items'[i] # None => items'[i].order = o

Accounts(h, o, row) ==
  /\ OwnItem(handler[h]) => OnlyItsItems(o)
  /\ TotalIsOfItems /\ row.status = "confirmed" => row.total = TotalOf(row, items', o)

Rewrites(h, o, row) ==
  Written(h, o, row) /\ OfItsItems(o) /\ Placed(row) /\ Accounts(h, o, row)

\* What every write begins with.
LEMMA Writer ==
  ASSUME Ordered, NEW h \in Handlers, handler[h].pc = "write"
  PROVE  LET n == handler[h] IN
         /\ n \in Handling /\ n.ask \in Requests /\ Knows(n) /\ Op(h) = n.ask.op
         /\ n.order # 0 => /\ n.order \in Existing /\ n.order \in OrderIds
                           /\ orders[n.order] \in Row
BY DEF Ordered, TypeOK, Knows, Op, Existing

\* An item is put in the place of one of the same order, or of none.
LEMMA PutItem ==
  ASSUME Ordered, NEW i \in ItemIds, NEW new \in Item, NEW o, new.order = o,
         items[i] # None => items[i].order = o
  PROVE  LET its == [items EXCEPT ![i] = new] IN
         /\ its \in [ItemIds -> Item \cup {None}]
         /\ \A j \in ItemIds : its[j] # items[j] =>
              /\ its[j] # None /\ its[j].order = o /\ j = i
              /\ items[j] # None => items[j].order = o
<1>1. new # None
  BY OrdersAssumption
<1> QED BY <1>1 DEF Ordered, TypeOK

\* The next order has the next number.
LEMMA NextOrder ==
  ASSUME Ordered
  PROVE  LET o == Cardinality(Existing) + 1 IN
         \E n \in 0 .. MaxOrders : Existing = 1 .. n /\ o = n + 1
<1>1. PICK n \in 0 .. MaxOrders : Existing = 1 .. n
  BY DEF Ordered, Numbered
<1>2. Cardinality(1 .. n) = n
  BY FS_Interval
<1> QED BY <1>1, <1>2

LEMMA AddItemWrites ==
  ASSUME Ordered, NEW h \in Handlers, AddItem(h)
  PROVE  \E o \in OrderIds, row \in Row : Rewrites(h, o, row)
<1> DEFINE n == handler[h]
           r == AddedTo(h)
           o == IF n.order = 0 THEN Cardinality(Existing) + 1 ELSE n.order
           added(p) == [order |-> o, quantity |-> n.ask.quantity, proposed |-> p]
<1>1. /\ n \in Handling /\ n.ask \in Requests /\ n.pc = "write" /\ n.ask.op = "add" /\ Knows(n)
      /\ n.order # 0 => n.order \in Existing /\ n.order \in OrderIds /\ orders[n.order] \in Row
      /\ o <= MaxOrders /\ Finish(h) /\ UNCHANGED gate
  BY Writer DEF AddItem, At
<1>2. /\ o \in OrderIds
      /\ \/ o \in Existing /\ o = n.order
         \/ n.order = 0 /\ \E m \in 0 .. MaxOrders : Existing = 1 .. m /\ o = m + 1
  BY <1>1, NextOrder, OrdersAssumption DEF OrderIds
<1>3. n.dineIn \in BOOLEAN /\ n.address \in BOOLEAN /\ n.ask.sure \in BOOLEAN /\ n.ask.quantity \in Quantities
  BY <1>1, RequestTyped DEF Handling
<1>4. /\ r \in Row
      /\ n.order = 0 => r.status = "pending"
      /\ n.order # 0 => /\ r.status = orders[o].status
                        /\ r.kind = orders[o].kind
                        /\ orders[o].booking => r.booking
  <2>1. CASE n.order = 0
    BY <1>3, <2>1 DEF AddedTo, Row, Kinds, Amounts
  <2>2. CASE n.order # 0
    <3>1. orders[o] \in Row
      BY <1>1, <2>2
    <3>2. r = [orders[o] EXCEPT !.address = IF n.dineIn THEN @ ELSE n.address,
                                !.booking = @ \/ n.dineIn,
                                !.version = @ + 1]
      BY <2>2 DEF AddedTo
    <3>3. (IF n.dineIn THEN orders[o].address ELSE n.address) \in BOOLEAN
      BY <1>3, <3>1 DEF Row
    <3>4. (orders[o].booking \/ n.dineIn) \in BOOLEAN /\ orders[o].version + 1 \in Nat
      BY <3>1 DEF Row
    <3> QED BY <2>2, <3>1, <3>2, <3>3, <3>4 DEF Row
  <2> QED BY <2>1, <2>2
<1>5. r.status = "confirmed" => KindOf(r) = "dine_in"
  BY <1>1, <1>4 DEF Knows, Changes, KindOf
<1>6. \A p \in BOOLEAN : added(p) \in Item /\ added(p) # None
  BY <1>2, <1>3, OrdersAssumption DEF Item
<1>7. \E its \in [ItemIds -> Item \cup {None}] :
        /\ Store(o, r, its) /\ created' \in created .. MaxItems
        /\ \A i \in ItemIds : its[i] # items[i] =>
             /\ its[i] # None /\ its[i].order = o
             /\ IF items[i] = None THEN created < i /\ i <= created' ELSE items[i].order = o
  <2> PICK approval \in BOOLEAN :
        LET waiting == {i \in ItemIds : /\ approval /\ n.ask.sure /\ items[i] # None
                                         /\ items[i].order = o /\ items[i].proposed} IN
        IF waiting # {}
        THEN /\ Store(o, r, [items EXCEPT ![Max(waiting)] = added(FALSE)])
             /\ UNCHANGED created
        ELSE /\ created < MaxItems
             /\ Store(o, r, [items EXCEPT ![created + 1] = added(approval /\ ~n.ask.sure)])
             /\ created' = created + 1
    BY DEF AddItem
  <2> DEFINE waiting == {i \in ItemIds : /\ approval /\ n.ask.sure /\ items[i] # None
                                          /\ items[i].order = o /\ items[i].proposed}
             its1 == [items EXCEPT ![Max(waiting)] = added(FALSE)]
             p == approval /\ ~n.ask.sure
             its2 == [items EXCEPT ![created + 1] = added(p)]
  <2> HIDE DEF o, r
  <2>1. items \in [ItemIds -> Item \cup {None}] /\ created \in 0 .. MaxItems /\ MaxItems \in Nat
    BY OrdersAssumption DEF Ordered, TypeOK
  <2>2. CASE waiting # {}
    <3>1. waiting \in SUBSET (1 .. MaxItems)
      BY DEF ItemIds
    <3>2. Max(waiting) \in waiting
      BY <2>1, <2>2, <3>1, LatestIsIn
    <3>3. Store(o, r, its1) /\ created' = created
      BY <2>2
    <3>4. PICK w \in ItemIds : w = Max(waiting) /\ items[w] # None /\ items[w].order = o
      BY <3>2
    <3>5. PICK new \in Item : new = added(FALSE) /\ new.order = o
      BY <1>6
    <3> HIDE DEF added
    <3>6. /\ its1 \in [ItemIds -> Item \cup {None}]
          /\ \A i \in ItemIds : its1[i] # items[i] =>
               its1[i] # None /\ its1[i].order = o /\ i = w
      <4>1. its1 = [items EXCEPT ![w] = new]
        BY <3>4, <3>5
      <4>2. items[w].order = o /\ new.order = o
        BY <3>4, <3>5
      <4> HIDE DEF its1, waiting
      <4> QED BY <4>1, <4>2, PutItem
    <3>7. created' \in created .. MaxItems
      BY <2>1, <3>3
    <3> HIDE DEF its1
    <3> QED BY <3>3, <3>4, <3>6, <3>7
  <2>3. CASE waiting = {}
    <3>1. Store(o, r, its2) /\ created' = created + 1 /\ created < MaxItems
      BY <2>3
    <3>2. created + 1 \in ItemIds /\ items[created + 1] = None
      BY <2>1, <3>1 DEF ItemIds, Ordered, Numbered
    <3>3. added(p).order = o /\ added(p) \in Item
      BY <1>6
    <3> HIDE DEF added
    <3>4. /\ its2 \in [ItemIds -> Item \cup {None}]
          /\ \A i \in ItemIds : its2[i] # items[i] =>
               its2[i] # None /\ its2[i].order = o /\ i = created + 1
      BY <3>2, <3>3, PutItem
    <3>5. created' \in created .. MaxItems /\ created < created + 1 /\ created + 1 <= created'
      BY <2>1, <3>1
    <3> HIDE DEF its2
    <3> QED BY <3>1, <3>2, <3>4, <3>5
  <2> QED BY <2>2, <2>3
<1> HIDE DEF o, r
<1>8. PICK its \in [ItemIds -> Item \cup {None}] :
        /\ Store(o, r, its) /\ created' \in created .. MaxItems
        /\ \A i \in ItemIds : its[i] # items[i] =>
             /\ its[i] # None /\ its[i].order = o
             /\ IF items[i] = None THEN created < i /\ i <= created' ELSE items[i].order = o
  BY <1>7
<1>9. PICK row \in Row :
        /\ orders' = [orders EXCEPT ![o] = row] /\ items' = its
        /\ row.status = r.status /\ KindOf(row) = KindOf(r) /\ row.address = r.address
        /\ row.status = "confirmed" => row.total = TotalOf(row, its, o)
  BY <1>2, <1>4, <1>8, Storing
<1>10. Written(h, o, row)
  BY <1>1, <1>2, <1>9 DEF Written
<1>11. OfItsItems(o) /\ OnlyItsItems(o)
  BY <1>8, <1>9 DEF OfItsItems, OnlyItsItems
<1>12. Placed(row)
  BY <1>5, <1>9 DEF Placed
<1> QED BY <1>2, <1>9, <1>10, <1>11, <1>12 DEF Rewrites, Accounts

\* An order's own writer finds it as Knows says.
LEMMA OwnOrder ==
  ASSUME Ordered, NEW h \in Handlers, handler[h].pc = "write", handler[h].order # 0,
         Finish(h), UNCHANGED gate,
         NEW row \in Row, orders' = [orders EXCEPT ![handler[h].order] = row]
  PROVE  Written(h, handler[h].order, row) /\ handler[h].order \in OrderIds
BY Writer DEF Written

LEMMA BumpedTyped ==
  ASSUME Ordered, NEW o \in Existing
  PROVE  /\ orders[o] \in Row /\ Bumped(o) \in Row
         /\ Bumped(o).status = orders[o].status /\ KindOf(Bumped(o)) = KindOf(orders[o])
         /\ Bumped(o).address = orders[o].address /\ Bumped(o).total = orders[o].total
         /\ Placed(Bumped(o)) /\ Placed(orders[o])
<1>1. orders[o] \in Row
  BY DEF Ordered, TypeOK, Existing
<1>2. /\ Bumped(o) \in Row /\ Bumped(o).status = orders[o].status
      /\ Bumped(o).kind = orders[o].kind /\ Bumped(o).booking = orders[o].booking
      /\ Bumped(o).address = orders[o].address /\ Bumped(o).total = orders[o].total
  BY <1>1 DEF Bumped, Row
<1>3. KindOf(Bumped(o)) = KindOf(orders[o])
  BY <1>2 DEF KindOf
<1> QED BY <1>1, <1>2, <1>3 DEF Placed, Ordered, DeliveryHasAddress

LEMMA ChangeItemWrites ==
  ASSUME Ordered, NEW h \in Handlers, ChangeItem(h)
  PROVE  \E o \in OrderIds, row \in Row : Rewrites(h, o, row)
<1> DEFINE n == handler[h]
           o == n.order
           i == n.ask.item
           its == CASE items[i] = None     -> items
                    [] n.ask.op = "remove" -> [items EXCEPT ![i] = None]
                    [] OTHER               -> [items EXCEPT ![i].quantity = n.ask.quantity]
<1>1. /\ n.ask \in Requests /\ n.pc = "write" /\ n.ask.op \in {"update", "remove"}
      /\ o # 0 /\ o \in Existing /\ o \in OrderIds /\ Finish(h) /\ UNCHANGED gate
      /\ created' = created /\ Store(o, Bumped(o), its)
  BY Writer DEF ChangeItem, At, Knows, gate
<1>2. i \in ItemIds /\ (n.ask.op = "update" => n.ask.quantity \in Quantities)
  BY <1>1, RequestTyped
<1>3. items \in [ItemIds -> Item \cup {None}] /\ created \in 0 .. MaxItems
  BY DEF Ordered, TypeOK
<1>4. /\ its \in [ItemIds -> Item \cup {None}]
      /\ \A j \in ItemIds : its[j] # items[j] =>
           /\ j = i /\ items[j] # None
           /\ its[j] # None => its[j].order = items[j].order
  <2>1. CASE items[i] = None
    BY <1>3, <2>1
  <2>2. CASE items[i] # None /\ n.ask.op = "remove"
    BY <1>2, <1>3, <2>2
  <2>3. CASE items[i] # None /\ n.ask.op = "update"
    <3>1. items[i] \in Item
      BY <1>2, <1>3, <2>3
    <3>2. /\ [items[i] EXCEPT !.quantity = n.ask.quantity] \in Item
          /\ [items[i] EXCEPT !.quantity = n.ask.quantity].order = items[i].order
      BY <1>2, <2>3, <3>1 DEF Item
    <3>3. its = [items EXCEPT ![i] = [items[i] EXCEPT !.quantity = n.ask.quantity]]
      BY <2>3
    <3> HIDE DEF its
    <3> QED BY <1>2, <1>3, <2>3, <3>2, <3>3
  <2> QED BY <1>1, <2>1, <2>2, <2>3
<1> HIDE DEF its
<1>5. PICK row \in Row :
        /\ orders' = [orders EXCEPT ![o] = row] /\ items' = its
        /\ row.status = Bumped(o).status /\ KindOf(row) = KindOf(Bumped(o))
        /\ row.address = Bumped(o).address
        /\ row.status = "confirmed" => row.total = TotalOf(row, its, o)
  BY <1>1, <1>4, BumpedTyped, Storing
<1>6. Written(h, o, row)
  BY <1>1, <1>5, OwnOrder
<1>7. created' \in created .. MaxItems
  BY <1>1, <1>3, OrdersAssumption
<1>8. OfItsItems(o)
  BY <1>4, <1>5, <1>7 DEF OfItsItems
<1>9. OwnItem(n) => OnlyItsItems(o)
  BY <1>1, <1>4, <1>5 DEF OwnItem, OnlyItsItems
<1>10. Placed(row)
  BY <1>1, <1>5, BumpedTyped DEF Placed
<1> QED BY <1>1, <1>5, <1>6, <1>8, <1>9, <1>10 DEF Rewrites, Accounts

\* The items stay as they are.
LEMMA ItemsStay ==
  ASSUME Ordered, NEW o, UNCHANGED <<items, created>>
  PROVE  OfItsItems(o) /\ OnlyItsItems(o)
<1>1. created' \in created .. MaxItems
  BY OrdersAssumption DEF Ordered, TypeOK
<1> QED BY <1>1 DEF Ordered, TypeOK, Numbered, OfItsItems, OnlyItsItems

\* The total of a row with the same fulfilment.
LEMMA TotalStays ==
  ASSUME Ordered, NEW h \in Handlers, NEW o \in Existing, NEW row, UNCHANGED <<items, created>>,
         row.status = "confirmed" =>
           /\ orders[o].status = "confirmed" /\ row.total = orders[o].total
           /\ KindOf(row) = KindOf(orders[o])
  PROVE  Accounts(h, o, row)
BY ItemsStay DEF Accounts, TotalIsOfItems, TotalOf

LEMMA SetNotesWrites ==
  ASSUME Ordered, NEW h \in Handlers, SetNotes(h)
  PROVE  \E o \in OrderIds, row \in Row : Rewrites(h, o, row)
<1> DEFINE n == handler[h]
           o == n.order
<1>1. /\ n.pc = "write" /\ n.ask.op \in {"notes", "guest"} /\ o # 0 /\ o \in Existing
      /\ o \in OrderIds /\ Finish(h) /\ UNCHANGED gate /\ UNCHANGED <<items, created>>
  BY Writer DEF SetNotes, At, Knows
<1>2. \E row \in Row :
        /\ orders' = [orders EXCEPT ![o] = row]
        /\ row.status = orders[o].status /\ KindOf(row) = KindOf(orders[o])
        /\ row.total = orders[o].total /\ Placed(row)
  <2>1. CASE UNCHANGED orders
    BY <1>1, <2>1, BumpedTyped DEF Ordered, TypeOK
  <2>2. CASE orders' = [orders EXCEPT ![o] = Bumped(o)]
    BY <1>1, <2>2, BumpedTyped
  <2> QED BY <2>1, <2>2 DEF SetNotes
<1>3. PICK row \in Row :
        /\ orders' = [orders EXCEPT ![o] = row]
        /\ row.status = orders[o].status /\ KindOf(row) = KindOf(orders[o])
        /\ row.total = orders[o].total /\ Placed(row)
  BY <1>2
<1>4. Written(h, o, row)
  BY <1>1, <1>3, OwnOrder
<1>5. OfItsItems(o)
  BY <1>1, ItemsStay
<1>6. Accounts(h, o, row)
  BY <1>1, <1>3, TotalStays
<1> QED BY <1>1, <1>3, <1>4, <1>5, <1>6 DEF Rewrites

\* A confirmed order's fulfilment is not set.
LEMMA SetFulfillmentWrites ==
  ASSUME Ordered, NEW h \in Handlers, SetFulfillment(h)
  PROVE  \E o \in OrderIds, row \in Row : Rewrites(h, o, row)
<1> DEFINE n == handler[h]
           o == n.order
           k == n.ask.kind
           row == [Bumped(o) EXCEPT !.kind = k, !.booking = (k = "dine_in"),
                                    !.address = (k = "delivery")]
<1>1. /\ n.pc = "write" /\ n.ask.op = "fulfil" /\ n.ask \in Requests /\ o # 0 /\ o \in Existing
      /\ o \in OrderIds /\ Finish(h) /\ UNCHANGED gate /\ UNCHANGED <<items, created>>
      /\ orders' = [orders EXCEPT ![o] = row] /\ Knows(n)
  BY Writer DEF SetFulfillment, At, Knows
<1>2. Bumped(o) \in Row /\ Bumped(o).status = orders[o].status /\ k \in Kinds
  BY <1>1, BumpedTyped, RequestTyped
<1>3. orders[o].status = "pending"
  BY <1>1, BumpedTyped DEF Knows, Changes, Row
<1>4. row \in Row /\ row.status = "pending"
  BY <1>2, <1>3 DEF Row
<1> HIDE DEF row
<1>5. Written(h, o, row)
  BY <1>1, <1>4, OwnOrder
<1>6. OfItsItems(o) /\ Placed(row)
  BY <1>1, <1>4, ItemsStay DEF Placed
<1>7. Accounts(h, o, row)
  BY <1>1, <1>4, TotalStays
<1> QED BY <1>1, <1>4, <1>5, <1>6, <1>7 DEF Rewrites

\* A booking attaches a pending order, or none.
LEMMA BookWrites ==
  ASSUME Ordered, NEW h \in Handlers, Book(h)
  PROVE  IF handler[h].order = 0
         THEN Finish(h) /\ UNCHANGED <<orders, items, created>> /\ UNCHANGED gate
         ELSE \E o \in OrderIds, row \in Row : Rewrites(h, o, row)
<1> DEFINE n == handler[h]
           o == n.order
           row == [orders[o] EXCEPT !.booking = TRUE, !.kind = "dine_in", !.address = FALSE]
<1>1. CASE o = 0
  BY <1>1 DEF Book
<1>2. CASE o # 0
  <2>1. /\ n.pc = "write" /\ n.ask.op = "book" /\ o \in Existing /\ orders[o] \in Row
        /\ o \in OrderIds /\ Finish(h) /\ UNCHANGED gate /\ UNCHANGED <<items, created>>
        /\ orders' = [orders EXCEPT ![o] = row] /\ Knows(n)
    BY <1>2, Writer DEF Book, At
  <2>2. row \in Row /\ row.status = "pending"
    BY <1>2, <2>1 DEF Row, Kinds, Knows, CanAttach
  <2> HIDE DEF row
  <2>3. Written(h, o, row)
    BY <1>2, <2>1, <2>2, OwnOrder
  <2>4. OfItsItems(o) /\ Placed(row)
    BY <2>1, <2>2, ItemsStay DEF Placed
  <2>5. Accounts(h, o, row)
    BY <2>1, <2>2, TotalStays
  <2> QED BY <1>2, <2>1, <2>2, <2>3, <2>4, <2>5 DEF Rewrites
<1> QED BY <1>1, <1>2

LEMMA ConfirmOrderWrites ==
  ASSUME Ordered, NEW h \in Handlers, ConfirmOrder(h)
  PROVE  \E o \in OrderIds, row \in Row : Rewrites(h, o, row)
<1> DEFINE n == handler[h]
           o == n.order
           row == [orders[o] EXCEPT !.status = "confirmed", !.total = TotalOf(orders[o], items, o)]
<1>1. /\ n.pc = "write" /\ n.ask.op = "confirm" /\ o # 0 /\ o \in Existing /\ orders[o] \in Row
      /\ o \in OrderIds /\ Finish(h) /\ UNCHANGED gate /\ UNCHANGED <<items, created>>
      /\ orders' = [orders EXCEPT ![o] = row] /\ Knows(n)
  BY Writer DEF ConfirmOrder, At, Knows
<1>2. TotalOf(orders[o], items, o) \in Amounts
  BY TotalTyped DEF Ordered, TypeOK
<1>3. row \in Row /\ row.total = TotalOf(orders[o], items, o) /\ row.address = orders[o].address
  BY <1>1, <1>2 DEF Row
<1>4. TotalOf(row, items, o) = TotalOf(orders[o], items, o) /\ KindOf(row) = KindOf(orders[o])
  <2>1. row.kind = orders[o].kind /\ row.booking = orders[o].booking
    BY <1>1 DEF Row
  <2> HIDE DEF row
  <2>2. KindOf(row) = KindOf(orders[o])
    BY <2>1 DEF KindOf
  <2> QED BY <2>2 DEF TotalOf
<1> HIDE DEF row
<1>5. Placed(row)
  BY <1>1, <1>3, <1>4 DEF Placed, Knows
<1>6. Written(h, o, row)
  BY <1>1, <1>3, OwnOrder
<1>7. OfItsItems(o) /\ OnlyItsItems(o)
  BY <1>1, ItemsStay
<1>8. Accounts(h, o, row)
  BY <1>1, <1>3, <1>4, <1>7 DEF Accounts
<1> QED BY <1>1, <1>3, <1>5, <1>6, <1>7, <1>8 DEF Rewrites

\* The steps that write, and those that do not.
Writes(h) ==
  AddItem(h) \/ ChangeItem(h) \/ SetNotes(h) \/ SetFulfillment(h) \/ Book(h) \/ ConfirmOrder(h)

LEMMA EveryWrite ==
  ASSUME Ordered, NEW h \in Handlers, Writes(h)
  PROVE  \/ Finish(h) /\ UNCHANGED <<orders, items, created>> /\ UNCHANGED gate
         \/ \E o \in OrderIds, row \in Row : Rewrites(h, o, row)
BY AddItemWrites, ChangeItemWrites, SetNotesWrites, SetFulfillmentWrites, BookWrites,
   ConfirmOrderWrites DEF Writes

\* A step that does not write leaves the rows alone, whoever makes it.
LEMMA EveryOther ==
  ASSUME [Next]_vars, ~\E h \in Handlers : Writes(h)
  PROVE  UNCHANGED <<orders, items, created>>
BY DEF Next, Step, Writes, vars, Turn, CancelBooking, Arrive, Look, Choose, LockForChange,
       LockToBook, InsertOrder, ReadRow, ReadItems, CheckConfirm, Fail, db

-----------------------------------------------------------------------------
(* The first part of the invariant. *)

LEMMA OrderedInit == Init => Ordered
<1> SUFFICES ASSUME Init PROVE Ordered
  OBVIOUS
<1>1. Existing = {} /\ Existing = 1 .. 0 /\ 0 \in 0 .. MaxOrders
  BY OrdersAssumption DEF Init, Existing
<1>2. TypeOK
  <2>1. created \in 0 .. MaxItems /\ readbacks \in Seq(Payloads) /\ Len(readbacks) = 0
    BY OrdersAssumption DEF Init
  <2> QED BY <2>1, IdleKnows DEF Init, TypeOK
<1>3. Numbered
  BY <1>1 DEF Init, Numbered
<1>4. LockedOnce /\ DeliveryHasAddress
  BY <1>1, IdleKnows DEF Init, LockedOnce, DeliveryHasAddress
<1> QED BY <1>2, <1>3, <1>4, IdleKnows DEF Init, Ordered

LEMMA WritesFit == ASSUME Ordered, NEW h \in Handlers, Writes(h) PROVE Ordered'
<1>1. CASE Finish(h) /\ UNCHANGED <<orders, items, created>> /\ UNCHANGED gate
  <2>1. \A y : Knows(y) => Knows(y)'
    BY <1>1 DEF Knows, Existing
  <2>2. TypeOK'
    BY <1>1, GateTyped, IdleKnows DEF Ordered, TypeOK, Finish, Become, gate
  <2>3. Numbered' /\ DeliveryHasAddress'
    BY <1>1 DEF Ordered, Numbered, DeliveryHasAddress, Existing
  <2>4. LockedOnce'
    BY <1>1, IdleKnows DEF Ordered, LockedOnce, TypeOK, Finish, Become
  <2>5. \A g \in Handlers : Knows(handler[g])'
    BY <1>1, <2>1, IdleKnows DEF Ordered, TypeOK, Finish, Become
  <2> QED BY <2>2, <2>3, <2>4, <2>5 DEF Ordered
<1>2. CASE \E o \in OrderIds, row \in Row : Rewrites(h, o, row)
  BY <1>2, WrittenFits DEF Rewrites
<1> QED BY <1>1, <1>2, EveryWrite

LEMMA FailFits == ASSUME Ordered, NEW h \in Handlers, Fail(h) PROVE Ordered'
BY GateTyped, FinishFits DEF Fail

LEMMA OrderedNext == Ordered /\ [Next]_vars => Ordered'
<1> SUFFICES ASSUME Ordered, [Next]_vars PROVE Ordered'
  OBVIOUS
<1>1. CASE UNCHANGED vars
  <2>1. \A y : Knows(y) => Knows(y)'
    BY <1>1 DEF Knows, Existing, vars
  <2>2. Numbered' /\ DeliveryHasAddress' /\ TypeOK' /\ LockedOnce'
    BY <1>1 DEF Ordered, Numbered, DeliveryHasAddress, Existing, TypeOK, LockedOnce, vars
  <2> QED BY <1>1, <2>1, <2>2 DEF Ordered, vars
<1>2. ASSUME NEW h \in Handlers, Step(h) PROVE Ordered'
  BY <1>2, ArriveFits, LookFits, ChooseFits, LockForChangeFits, LockToBookFits, InsertOrderFits,
     ReadRowFits, ReadItemsFits, CheckConfirmFits, FailFits, WritesFit DEF Step, Writes
<1> QED BY <1>1, <1>2, TurnFits, CancelBookingFits DEF Next

LEMMA AlwaysOrdered == Spec => []Ordered
BY OrderedInit, OrderedNext, PTL DEF Spec

\* A confirmed delivery has an address, whatever the requests are and in
\* whatever order they read and write, though add_order_item writes back
\* details of a fulfilment that it has read before it had the lock.
THEOREM DeliveriesHaveAddress == Spec => []DeliveryHasAddress
<1>1. Ordered => DeliveryHasAddress
  BY DEF Ordered
<1> QED BY <1>1, AlwaysOrdered, PTL

-----------------------------------------------------------------------------
(* The second part, for requests that name the items they know.              *)

\* What stays true of a request while the rows stay and the gate only grows.
LEMMA StillTrue ==
  ASSUME UNCHANGED <<orders, items>>, NEW x, OwnItem(x), AsReadBack(x),
         agreed \in Nat, agreed' \in Nat, agreed <= agreed',
         \A n \in 1 .. agreed : readbacks'[n] = readbacks[n]
  PROVE  OwnItem(x)' /\ AsReadBack(x)'
<1>1. OwnItem(x)'
  BY DEF OwnItem
<1>2. Payload(orders[x.order], items, x.order)' = Payload(orders[x.order], items, x.order)
  BY DEF Payload, TotalOf, ItemTotal, Committed
<1>3. AsReadBack(x)'
  BY <1>2 DEF AsReadBack
<1> QED BY <1>1, <1>3

\* What is new of a request that moves on without writing.
LEMMA MovesOn ==
  ASSUME Ordered, Accounted, NEW h \in Handlers, Step(h), ~Writes(h)
  PROVE  \E x : /\ Become(h, x) /\ OwnItem(x)
                /\ x.pc = "write" /\ x.ask.op = "confirm" =>
                     \E n \in 1 .. agreed : readbacks[n] = Payload(orders[x.order], items, x.order)
<1> DEFINE n == handler[h]
<1>1. n \in Handling /\ Knows(n) /\ OwnItem(n)
  BY DEF Ordered, TypeOK, Accounted
<1>2. CASE Finish(h)
  BY <1>2, IdleKnows DEF Finish, OwnItem
<1>3. ASSUME NEW label, Become(h, [n EXCEPT !.pc = label]),
             label \notin {"lock", "lockItem", "write"}
      PROVE  \E x : Become(h, x) /\ OwnItem(x) /\ x.pc # "write"
  BY <1>1, <1>3 DEF Handling, OwnItem
<1>4. CASE Arrive(h)
  <2>1. PICK r \in Requests :
          Become(h, [Idle EXCEPT !.ask = r,
                                 !.pc = IF r.op \in {"add", "guest"} THEN "look" ELSE "choose"])
    BY <1>4 DEF Arrive
  <2> DEFINE x == [Idle EXCEPT !.ask = r,
                               !.pc = IF r.op \in {"add", "guest"} THEN "look" ELSE "choose"]
  <2>2. x.pc \notin {"lock", "lockItem", "write"}
    BY DEF Idle
  <2> QED BY <2>1, <2>2 DEF OwnItem
<1>5. CASE Look(h)
  <2> DEFINE o == Current
             has == booking # "none"
             x == [n EXCEPT !.pc = "choose",
                            !.dineIn = IF o = 0 THEN has
                              ELSE KindOf(orders[o]) = "dine_in" /\ (orders[o].booking \/ has),
                            !.address = o # 0 /\ orders[o].address]
  <2>1. Become(h, x) \/ Finish(h) \/ Become(h, [n EXCEPT !.pc = "choose"])
    BY <1>5 DEF Look, GoTo
  <2>2. x.pc = "choose"
    BY <1>1 DEF Handling
  <2> HIDE DEF x
  <2> QED BY <1>2, <1>3, <2>1, <2>2 DEF OwnItem
<1>6. CASE Choose(h)
  <2>1. n.ask \in Requests /\ n.pc = "choose" /\ Op(h) = n.ask.op
    BY <1>1, <1>6 DEF Choose, Knows, Op
  <2>2. CASE Choice(h) # 0
    <3> DEFINE label == CASE Op(h) = "summary" -> "row"
                          [] ItemThere(h)      -> "lockItem"
                          [] OTHER             -> "lock"
               x == [n EXCEPT !.order = Choice(h), !.pc = label]
    <3>1. Become(h, x)
      BY <1>6, <2>2 DEF Choose
    <3>2. label # "write"
      OBVIOUS
    <3> HIDE DEF label
    <3>3. x.pc # "write" /\ x.ask = n.ask /\ x.order = Choice(h)
      BY <1>1, <3>2 DEF Handling
    <3>4. items[n.ask.item] # None /\ n.ask.op \in {"update", "remove"} =>
            Choice(h) = items[n.ask.item].order
      BY <2>1 DEF Choice, ItemThere
    <3> HIDE DEF x
    <3> QED BY <3>1, <3>3, <3>4 DEF OwnItem
  <2>3. CASE Choice(h) = 0
    <3>1. \/ Finish(h)
          \/ Become(h, [n EXCEPT !.pc = "insert"])
          \/ Op(h) = "book" /\ Become(h, [n EXCEPT !.pc = "write"])
      BY <1>6, <2>3 DEF Choose, GoTo
    <3>2. ASSUME n.ask.op = "book", Become(h, [n EXCEPT !.pc = "write"])
          PROVE  \E x : Become(h, x) /\ OwnItem(x) /\ x.ask.op # "confirm"
      BY <1>1, <3>2 DEF Handling, OwnItem
    <3> QED BY <1>2, <1>3, <2>1, <3>1, <3>2
  <2> QED BY <2>2, <2>3
<1>7. CASE LockForChange(h)
  <2>1. /\ n.ask \in Requests /\ n.pc \in {"lock", "lockItem"} /\ n.ask.op # "confirm"
        /\ Finish(h) \/ Become(h, [n EXCEPT !.pc = "choose"]) \/ Become(h, [n EXCEPT !.pc = "write"])
    BY <1>1, <1>7 DEF LockForChange, Knows, Op, GoTo
  <2>2. ASSUME Become(h, [n EXCEPT !.pc = "write"])
        PROVE  \E x : Become(h, x) /\ OwnItem(x) /\ x.ask.op # "confirm"
    BY <1>1, <2>1, <2>2 DEF Handling, OwnItem
  <2> QED BY <1>2, <1>3, <2>1, <2>2
<1>8. CASE LockToBook(h)
  <2> DEFINE p == IF CanAttach(orders[n.order]) THEN n.order ELSE 0
             x == [n EXCEPT !.pc = "write", !.order = p]
  <2>1. Become(h, x) /\ n.ask.op = "book"
    BY <1>8 DEF LockToBook, At, Op
  <2>2. x.ask.op = "book"
    BY <1>1, <2>1 DEF Handling
  <2> HIDE DEF x
  <2> QED BY <2>1, <2>2 DEF OwnItem
<1>9. CASE InsertOrder(h)
  <2> DEFINE x == [n EXCEPT !.pc = "write", !.order = 0]
  <2>1. (Become(h, x) \/ Finish(h)) /\ n.ask.op = "add"
    BY <1>9 DEF InsertOrder, At, Op
  <2>2. x.ask.op = "add"
    BY <1>1, <2>1 DEF Handling
  <2> HIDE DEF x
  <2> QED BY <1>2, <2>1, <2>2 DEF OwnItem
<1>10. CASE ReadRow(h)
  <2> DEFINE x == [n EXCEPT !.pc = "items", !.row = orders[n.order]]
  <2>1. Become(h, x) /\ x.pc = "items"
    BY <1>1, <1>10 DEF ReadRow, Handling
  <2> HIDE DEF x
  <2> QED BY <2>1 DEF OwnItem
<1>11. CASE CheckConfirm(h)
  <2> DEFINE o == n.order
             x == [n EXCEPT !.pc = "write"]
  <2>1. n.ask.op = "confirm"
    BY <1>11 DEF CheckConfirm, At, Op
  <2>2. \/ accepts # 0 /\ Matches(readbacks[accepts], orders[o], items, o) /\ Become(h, x)
        \/ Finish(h)
    BY <1>11 DEF CheckConfirm, GoTo
  <2>3. accepts # 0 => accepts \in 1 .. agreed
    BY DEF Ordered, TypeOK
  <2>4. x.ask.op = "confirm" /\ x.order = o
    BY <1>1, <2>1 DEF Handling
  <2> HIDE DEF x
  <2> QED BY <1>2, <2>2, <2>3, <2>4 DEF OwnItem, Matches
<1>12. CASE ReadItems(h) \/ Fail(h)
  BY <1>2, <1>12 DEF ReadItems, Fail
<1> QED BY <1>4, <1>5, <1>6, <1>7, <1>8, <1>9, <1>10, <1>11, <1>12 DEF Step, Writes

LEMMA AccountedInit == Init => Accounted
BY DEF Init, Accounted, TotalIsOfItems, Existing, Idle, OwnItem, AsReadBack

\* Other orders' totals and contents are untouched.
LEMMA OtherOrders ==
  ASSUME Ordered, NEW h \in Handlers, NEW o, NEW row, Written(h, o, row), OfItsItems(o),
         OnlyItsItems(o), NEW p \in Existing, p # o
  PROVE  /\ orders'[p] = orders[p]
         /\ TotalOf(orders'[p], items', p) = TotalOf(orders[p], items, p)
         /\ Payload(orders'[p], items', p) = Payload(orders[p], items, p)
<1>1. orders'[p] = orders[p]
  BY DEF Written, Ordered, TypeOK, Existing
<1>2. \A i \in ItemIds : items[i] # items'[i] =>
        /\ items[i] # None => items[i].order # p
        /\ items'[i] # None => items'[i].order # p
  BY DEF OnlyItsItems
<1>3. items \in [ItemIds -> Item \cup {None}] /\ items' \in [ItemIds -> Item \cup {None}]
  BY DEF OfItsItems, Ordered, TypeOK
<1> DEFINE new == items'
<1> HIDE DEF new
<1>4. TotalOf(orders[p], items, p) = TotalOf(orders[p], new, p)
      /\ Payload(orders[p], items, p) = Payload(orders[p], new, p)
  BY <1>2, <1>3, OtherItems DEF new
<1> QED BY <1>1, <1>4 DEF new

LEMMA WritesAccounted ==
  ASSUME Ordered, Ordered', Accounted, NamesKnownItems, NEW h \in Handlers,
         NEW o \in OrderIds, NEW row \in Row, Rewrites(h, o, row)
  PROVE  Accounted'
<1>1. /\ Written(h, o, row) /\ OfItsItems(o) /\ OnlyItsItems(o)
      /\ row.status = "confirmed" => row.total = TotalOf(row, items', o)
  BY DEF Rewrites, Accounts, Accounted
<1>2. /\ orders'[o] = row /\ Existing' = Existing \cup {o} /\ handler' = [handler EXCEPT ![h] = Idle]
      /\ UNCHANGED gate
  BY <1>1, OrdersAssumption DEF Written, Existing, Ordered, TypeOK, Finish, Become
<1>3. TotalIsOfItems'
  <2> SUFFICES ASSUME NEW p \in Existing', orders'[p].status = "confirmed"
               PROVE  orders'[p].total = TotalOf(orders'[p], items', p)
    BY DEF TotalIsOfItems
  <2>1. CASE p = o
    BY <1>1, <1>2, <2>1
  <2>2. CASE p # o
    BY <1>1, <1>2, <2>2, OtherOrders DEF Accounted, TotalIsOfItems
  <2> QED BY <2>1, <2>2
<1>4. ASSUME NEW g \in Handlers PROVE OwnItem(handler[g])' /\ AsReadBack(handler[g])'
  <2>1. CASE g = h
    BY <1>2, <2>1, IdleKnows DEF OwnItem, AsReadBack, Ordered, TypeOK
  <2>2. CASE g # h
    <3> DEFINE n == handler[g]
    <3>1. /\ handler'[g] = n /\ n \in Handling /\ Knows(n) /\ OwnItem(n) /\ AsReadBack(n)
          /\ n.pc # "idle" => Op(g) = n.ask.op
      BY <1>2, <2>2 DEF Ordered, TypeOK, Accounted, Op
    <3>2. ASSUME n.pc \in {"lock", "lockItem", "write"}, n.ask.op \in {"update", "remove"},
                 items'[n.ask.item] # None
          PROVE  items'[n.ask.item].order = n.order
      <4>1. n.ask.item \in ItemIds /\ n.ask.item <= created
        BY <3>1, <3>2, RequestTyped DEF Knows, NamesKnownItems
      <4>2. created \in Nat /\ n.ask.item \in Nat
        BY <4>1, OrdersAssumption DEF Ordered, TypeOK, ItemIds
      <4>3. items[n.ask.item] # None
        BY <1>1, <3>2, <4>1, <4>2 DEF OfItsItems
      <4> QED BY <1>1, <3>1, <3>2, <4>1, <4>3 DEF OwnItem, OfItsItems
    <3>3. ASSUME n.pc = "write", n.ask.op = "confirm"
          PROVE  \E k \in 1 .. agreed' :
                   readbacks'[k] = Payload(orders'[n.order], items', n.order)
      <4>1. n.order # o /\ n.order \in Existing
        BY <1>1, <2>2, <3>1, <3>3, OthersElsewhere DEF Knows
      <4>2. Payload(orders'[n.order], items', n.order) = Payload(orders[n.order], items, n.order)
        BY <1>1, <4>1, OtherOrders
      <4> QED BY <1>2, <3>1, <3>3, <4>2 DEF AsReadBack, gate
    <3> QED BY <3>1, <3>2, <3>3 DEF OwnItem, AsReadBack
  <2> QED BY <2>1, <2>2
<1> QED BY <1>3, <1>4 DEF Accounted

\* The gate never forgets a readback that the caller has agreed to.
LEMMA GateGrows ==
  ASSUME Ordered, [Next]_vars
  PROVE  /\ agreed \in Nat /\ agreed' \in Nat /\ agreed <= agreed'
         /\ \A n \in 1 .. agreed : readbacks'[n] = readbacks[n]
<1>1. agreed \in Nat /\ agreed <= Len(readbacks) /\ Len(readbacks) \in Nat
  BY DEF Ordered, TypeOK
<1>2. CASE UNCHANGED <<readbacks, agreed>>
  BY <1>1, <1>2
<1>3. CASE Turn
  BY <1>1, <1>3 DEF Turn
<1>4. ASSUME NEW h \in Handlers, ReadItems(h), ~UNCHANGED <<readbacks, agreed>>
      PROVE  UNCHANGED agreed /\ \A n \in 1 .. agreed : readbacks'[n] = readbacks[n]
  <2> DEFINE n == handler[h]
  <2>1. n.row \in Row /\ n.order \in OrderIds
    BY <1>4 DEF Ordered, ReadItems, At, Knows
  <2>2. Payload(n.row, items, n.order) \in Payloads
    BY <2>1, PayloadTyped DEF Ordered, TypeOK
  <2>3. Registered(Payload(n.row, items, n.order)) /\ UNCHANGED agreed
    BY <1>4 DEF ReadItems
  <2> QED BY <2>2, <2>3, Registering
<1>5. ASSUME NEW h \in Handlers, Step(h), ~ReadItems(h) PROVE UNCHANGED <<readbacks, agreed>>
  BY <1>5 DEF Step, Arrive, Look, Choose, LockForChange, LockToBook, InsertOrder, AddItem, ChangeItem,
     SetNotes, SetFulfillment, Book, ReadRow, CheckConfirm, ConfirmOrder, Fail, gate
<1> QED BY <1>1, <1>2, <1>3, <1>4, <1>5 DEF Next, CancelBooking, vars, gate

LEMMA AccountedNext == Ordered /\ Ordered' /\ Accounted /\ NamesKnownItems /\ [Next]_vars => Accounted'
<1> SUFFICES ASSUME Ordered, Ordered', Accounted, NamesKnownItems, [Next]_vars PROVE Accounted'
  OBVIOUS
<1>1. ASSUME NEW h \in Handlers, NEW o \in OrderIds, NEW row \in Row, Rewrites(h, o, row)
      PROVE  Accounted'
  BY <1>1, WritesAccounted
<1>2. CASE UNCHANGED <<orders, items, created>>
  <2>1. TotalIsOfItems'
    BY <1>2 DEF Accounted, TotalIsOfItems, Existing, TotalOf, ItemTotal, Committed
  <2>2. \A x : OwnItem(x) /\ AsReadBack(x) => OwnItem(x)' /\ AsReadBack(x)'
    BY <1>2, GateGrows, StillTrue
  <2>3. CASE UNCHANGED handler
    BY <2>1, <2>2, <2>3 DEF Accounted
  <2>4. ASSUME NEW h \in Handlers, NEW x, Become(h, x), OwnItem(x), AsReadBack(x)
        PROVE  Accounted'
    BY <2>1, <2>2, <2>4 DEF Accounted, Become, Ordered, TypeOK
  <2>5. ASSUME NEW h \in Handlers, Step(h), ~Writes(h) PROVE Accounted'
    BY <2>4, <2>5, MovesOn DEF AsReadBack
  <2>6. ASSUME NEW h \in Handlers, Finish(h) PROVE Accounted'
    BY <2>4, <2>6, IdleKnows DEF Finish, OwnItem, AsReadBack
  <2>7. ASSUME NEW h \in Handlers, Writes(h) PROVE Finish(h)
    BY <2>7 DEF Writes, AddItem, ChangeItem, SetNotes, SetFulfillment, Book, ConfirmOrder
  <2> QED BY <2>3, <2>5, <2>6, <2>7 DEF Next, Turn, CancelBooking, vars
<1> QED BY <1>1, <1>2, EveryWrite, EveryOther

\* The total of a confirmed order is that of its items and its fee, after any
\* interleaving of changes to items that a tool has told of.
THEOREM TotalsAddUp == Spec /\ []NamesKnownItems => []TotalIsOfItems
<1>1. Accounted => TotalIsOfItems
  BY DEF Accounted
<1> QED BY <1>1, AlwaysOrdered, AccountedInit, AccountedNext, PTL DEF Spec

-----------------------------------------------------------------------------
(* What a step may not do to an order that is confirmed, or confirms.        *)

\* Only the request that holds an order's lock, or makes it, writes its row.
LEMMA OneWriter ==
  ASSUME Ordered, [Next]_vars, NEW o \in Existing, orders'[o] # orders[o]
  PROVE  \E h \in Handlers :
           /\ Writes(h) /\ handler[h].pc = "write" /\ handler[h].order = o
           /\ handler'[h].pc = "idle"
<1>1. PICK h \in Handlers : Writes(h)
  BY EveryOther
<1>2. PICK p \in OrderIds, row \in Row : Rewrites(h, p, row)
  BY <1>1, EveryWrite
<1>3. p = o
  BY <1>2 DEF Rewrites, Written, Ordered, TypeOK, Existing
<1>4. o \notin {n + 1 : n \in {m \in 0 .. MaxOrders : Existing = 1 .. m}}
  BY OrdersAssumption
<1>5. handler[h].order = o
  BY <1>2, <1>3, <1>4 DEF Rewrites, Written
<1>6. handler'[h] = Idle
  BY <1>2 DEF Rewrites, Written, Finish, Become, Ordered, TypeOK
<1> QED BY <1>1, <1>2, <1>5, <1>6, IdleKnows DEF Rewrites, Written

\* A write of a confirmed order is a change, sure and of a dine-in order.
LEMMA SureWriter ==
  ASSUME Ordered, NEW h \in Handlers, Writes(h), NEW o \in Existing, handler[h].order = o,
         orders[o].status = "confirmed"
  PROVE  /\ KindOf(orders[o]) = "dine_in"
         /\ Op(h) \in {"add", "update", "remove", "notes"} /\ handler[h].ask.sure
<1>1. /\ handler[h].pc = "write" /\ Knows(handler[h]) /\ handler[h].ask \in Requests
      /\ Op(h) = handler[h].ask.op /\ Op(h) \in Changes \cup {"book", "confirm"}
  BY Writer DEF Writes, AddItem, ChangeItem, SetNotes, SetFulfillment, Book, ConfirmOrder, At, Changes
<1>2. o # 0
  BY DEF Existing, OrderIds
<1>3. Op(h) \in Changes
  BY <1>1, <1>2 DEF Knows, CanAttach
<1>4. Op(h) # "fulfil" /\ KindOf(orders[o]) = "dine_in" /\ handler[h].ask.sure
  BY <1>1, <1>2, <1>3 DEF Knows
<1>5. Op(h) # "guest"
  BY <1>1, <1>4, RequestTyped
<1> QED BY <1>3, <1>4, <1>5 DEF Changes

LEMMA SureNext == Ordered /\ [Next]_vars => [\A o \in Existing : ChangedByASureOne(o)]_vars
<1> SUFFICES ASSUME Ordered, [Next]_vars, NEW o \in Existing,
                    orders[o].status = "confirmed", orders'[o] # orders[o]
             PROVE  \E h \in Handlers :
                      /\ handler[h].pc = "write" /\ handler'[h].pc = "idle"
                      /\ Op(h) \in {"add", "update", "remove", "notes"} /\ handler[h].ask.sure
  BY DEF ChangedByASureOne
<1> QED BY OneWriter, SureWriter

\* Once an order is confirmed, whatever is changed of it was asked for with
\* the caller's confirmation, also by a request that had to wait for the lock
\* while the order was confirmed, and never by a booking or a guest's note.
THEOREM ChangesAreSure == Spec => SureChangesOnly
BY AlwaysOrdered, SureNext, PTL DEF Spec, SureChangesOnly

LEMMA FrozenNext ==
  Ordered /\ Accounted /\ [Next]_vars => [\A o \in Existing : Frozen(o)]_vars
<1> SUFFICES ASSUME Ordered, Accounted, [Next]_vars, NEW o \in Existing,
                    orders[o].status = "confirmed", KindOf(orders[o]) # "dine_in"
             PROVE  /\ orders'[o] = orders[o]
                    /\ \A i \in ItemIds :
                         items[i] # None /\ items[i].order = o => items'[i] = items[i]
  BY DEF Frozen
<1>1. orders'[o] = orders[o]
  BY OneWriter, SureWriter
<1>2. ASSUME NEW i \in ItemIds, items[i] # None, items[i].order = o, items'[i] # items[i]
      PROVE  FALSE
  <2>1. PICK h \in Handlers : Writes(h)
    BY <1>2, EveryOther
  <2>2. PICK p \in OrderIds, row \in Row : Rewrites(h, p, row)
    BY <1>2, <2>1, EveryWrite
  <2>3. p = o
    BY <1>2, <2>2 DEF Rewrites, Accounts, Accounted, OnlyItsItems
  <2>4. o \notin {n + 1 : n \in {m \in 0 .. MaxOrders : Existing = 1 .. m}}
    BY OrdersAssumption
  <2>5. handler[h].order = o
    BY <2>2, <2>3, <2>4 DEF Rewrites, Written
  <2> QED BY <2>1, <2>5, SureWriter
<1> QED BY <1>1, <1>2

\* A confirmed pickup or delivery stays as it is, with its items.
THEOREM TakeawayStays == Spec /\ []NamesKnownItems => TakeawayIsFrozen
BY AlwaysOrdered, AccountedInit, AccountedNext, FrozenNext, PTL DEF Spec, TakeawayIsFrozen

\* Only confirm_order confirms.
LEMMA StatusStays ==
  ASSUME Ordered, NEW h \in Handlers, Writes(h), ~ConfirmOrder(h), NEW o \in Existing,
         handler[h].order = o
  PROVE  orders'[o].status = orders[o].status
<1> DEFINE n == handler[h]
<1>1. /\ n.pc = "write" /\ orders[o] \in Row /\ o \in OrderIds /\ o # 0
      /\ orders \in [OrderIds -> Row \cup {None}]
  BY Writer DEF Writes, AddItem, ChangeItem, SetNotes, SetFulfillment, Book, ConfirmOrder, At,
                Ordered, TypeOK, Existing, OrderIds
<1>2. ASSUME NEW row \in Row, NEW its, Store(o, row, its), row.status = orders[o].status
      PROVE  orders'[o].status = orders[o].status
  BY <1>1, <1>2 DEF Store, Row
<1>3. CASE AddItem(h)
  <2> DEFINE row == AddedTo(h)
  <2>1. row = [orders[o] EXCEPT !.address = IF n.dineIn THEN @ ELSE n.address,
                                !.booking = @ \/ n.dineIn,
                                !.version = @ + 1]
    BY <1>1 DEF AddedTo
  <2>2. n.dineIn \in BOOLEAN /\ n.address \in BOOLEAN
    BY DEF Ordered, TypeOK, Handling
  <2>3. (IF n.dineIn THEN orders[o].address ELSE n.address) \in BOOLEAN
    BY <1>1, <2>2 DEF Row
  <2>4. (orders[o].booking \/ n.dineIn) \in BOOLEAN /\ orders[o].version + 1 \in Nat
    BY <1>1, <2>2 DEF Row
  <2>5. row \in Row /\ row.status = orders[o].status
    BY <1>1, <2>1, <2>3, <2>4 DEF Row
  <2>6. \E its : Store(o, row, its)
    BY <1>1, <1>3 DEF AddItem
  <2> QED BY <1>2, <2>5, <2>6
<1>4. CASE ChangeItem(h)
  <2>1. \E its : Store(o, Bumped(o), its)
    BY <1>4 DEF ChangeItem
  <2> QED BY <1>2, <2>1, BumpedTyped
<1>5. CASE SetNotes(h)
  BY <1>1, <1>5, BumpedTyped DEF SetNotes
<1>6. CASE SetFulfillment(h)
  <2> DEFINE k == n.ask.kind
             row == [Bumped(o) EXCEPT !.kind = k, !.booking = (k = "dine_in"),
                                      !.address = (k = "delivery")]
  <2>1. row.status = orders[o].status
    BY BumpedTyped DEF Row
  <2>2. orders' = [orders EXCEPT ![o] = row]
    BY <1>6 DEF SetFulfillment
  <2> HIDE DEF row
  <2> QED BY <1>1, <2>1, <2>2
<1>7. CASE Book(h)
  <2> DEFINE row == [orders[o] EXCEPT !.booking = TRUE, !.kind = "dine_in", !.address = FALSE]
  <2>1. row.status = orders[o].status
    BY <1>1 DEF Row
  <2>2. orders' = [orders EXCEPT ![o] = row]
    BY <1>1, <1>7 DEF Book
  <2> HIDE DEF row
  <2> QED BY <1>1, <2>1, <2>2
<1> QED BY <1>3, <1>4, <1>5, <1>6, <1>7 DEF Writes

LEMMA HeardNext ==
  Ordered /\ Accounted /\ [Next]_vars => [\A o \in Existing : ConfirmedWasHeard(o)]_vars
<1> SUFFICES ASSUME Ordered, Accounted, [Next]_vars, NEW o \in Existing,
                    orders[o].status = "pending", orders'[o].status = "confirmed"
             PROVE  \E n \in 1 .. agreed : /\ readbacks[n] = Payload(orders'[o], items', o)
                                          /\ readbacks[n].total = orders'[o].total
  BY DEF ConfirmedWasHeard
<1>1. PICK h \in Handlers : Writes(h) /\ handler[h].pc = "write" /\ handler[h].order = o
  BY OneWriter
<1>2. ConfirmOrder(h) /\ handler[h].ask.op = "confirm"
  BY <1>1, StatusStays, Writer DEF ConfirmOrder, At
<1>3. PICK n \in 1 .. agreed : readbacks[n] = Payload(orders[o], items, o)
  BY <1>1, <1>2 DEF Accounted, AsReadBack
<1> DEFINE row == orders[o]
           t == TotalOf(row, items, o)
           new == [row EXCEPT !.status = "confirmed", !.total = t]
<1>4. row \in Row /\ orders' = [orders EXCEPT ![o] = new] /\ items' = items
  BY <1>1, <1>2 DEF ConfirmOrder, Ordered, TypeOK, Existing
<1>5. /\ new.kind = row.kind /\ new.booking = row.booking /\ new.version = row.version
      /\ new.address = row.address /\ new.total = t
  BY <1>4 DEF Row
<1>6. orders'[o] = new
  BY <1>4 DEF Ordered, TypeOK, Existing
<1> HIDE DEF new
<1>7. KindOf(new) = KindOf(row)
  BY <1>5 DEF KindOf
<1>8. Payload(new, items, o) = Payload(row, items, o)
  BY <1>5, <1>7 DEF Payload, TotalOf
<1>9. Payload(row, items, o).total = t
  BY DEF Payload
<1> QED BY <1>3, <1>4, <1>5, <1>6, <1>8, <1>9

\* What is confirmed was read back, with its items, fulfilment and total, and
\* agreed to.
THEOREM ConfirmedWasReadBack == Spec /\ []NamesKnownItems => ConfirmedAsReadBack
BY AlwaysOrdered, AccountedInit, AccountedNext, HeardNext, PTL DEF Spec, ConfirmedAsReadBack
=============================================================================
