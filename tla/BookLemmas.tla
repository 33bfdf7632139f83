----------------------------- MODULE BookLemmas -----------------------------
(***************************************************************************)
(* What the primitive updates of BookOps.tla do to a book and that they    *)
(* keep it well-formed, for every value of the constants.  There are three *)
(* of them: an order is inserted (insertOrder), an order is removed with   *)
(* its index entry (removeByLocation and orderMap.erase, a filled front    *)
(* order), or the quantity of an order is overwritten through an iterator. *)
(* Then the same for the public operations, with what each of them does to *)
(* the set of resting orders.  OrderBookProofs and ExchangeProofs use it.  *)
(***************************************************************************)
EXTENDS BookOps, SequenceTheorems, TLAPS

Good(b) == IsBook(b) /\ WellFormed(b)

\* Queue p of side s has a place i, and the order there.
HasSlot(b, s, p, i) ==
  s \in Side /\ p \in DOMAIN b.levels[s] /\ i \in DOMAIN b.levels[s][p]

At(b, s, p, i) == b.levels[s][p][i]

-----------------------------------------------------------------------------
(* Sequences. *)

(***************************************************************************)
(* list::erase: the node at place i goes, those behind it move up.         *)
(***************************************************************************)
LEMMA RemoveAtProperties ==
  ASSUME NEW S, NEW q \in Seq(S), NEW i \in 1 .. Len(q)
  PROVE  /\ RemoveAt(q, i) \in Seq(S)
         /\ Len(RemoveAt(q, i)) = Len(q) - 1
         /\ \A j \in 1 .. Len(q) - 1 :
              RemoveAt(q, i)[j] = IF j < i THEN q[j] ELSE q[j + 1]
<1> DEFINE front == SubSeq(q, 1, i - 1)
           back == SubSeq(q, i + 1, Len(q))
<1>1. Len(q) \in Nat /\ \A j \in 1 .. Len(q) : q[j] \in S
  BY LenProperties, ElementOfSeq
<1>2. /\ front \in Seq(S)
      /\ Len(front) = i - 1
      /\ \A j \in 1 .. i - 1 : front[j] = q[j]
  BY <1>1, SubSeqProperties
<1>3. /\ back \in Seq(S)
      /\ Len(back) = Len(q) - i
      /\ \A j \in 1 .. Len(q) - i : back[j] = q[i + j]
  BY <1>1, SubSeqProperties
<1>4. /\ front \o back \in Seq(S)
      /\ Len(front \o back) = Len(front) + Len(back)
      /\ \A j \in 1 .. Len(front) + Len(back) :
           (front \o back)[j] = IF j <= Len(front) THEN front[j]
                                ELSE back[j - Len(front)]
  BY <1>2, <1>3, ConcatProperties
<1>5. RemoveAt(q, i) = front \o back
  BY DEF RemoveAt
<1> HIDE DEF front, back
<1>6. ASSUME NEW j \in 1 .. Len(q) - 1
      PROVE  (front \o back)[j] = IF j < i THEN q[j] ELSE q[j + 1]
  <2>1. CASE j < i
    BY <1>1, <1>2, <1>3, <1>4, <2>1
  <2>2. CASE i <= j
    <3>1. j - (i - 1) \in 1 .. Len(q) - i /\ j - Len(front) = j - (i - 1)
      BY <1>1, <1>2, <2>2
    <3>2. (front \o back)[j] = back[j - (i - 1)]
      BY <1>1, <1>2, <1>3, <1>4, <2>2, <3>1
    <3>3. back[j - (i - 1)] = q[i + (j - (i - 1))]
      BY <1>3, <3>1
    <3>4. i + (j - (i - 1)) = j + 1
      BY <1>1
    <3> QED
      BY <1>1, <2>2, <3>2, <3>3, <3>4
  <2>3. j < i \/ i <= j
    BY <1>1
  <2> QED
    BY <2>1, <2>2, <2>3
<1>7. Len(front \o back) = Len(q) - 1
  BY <1>1, <1>2, <1>3, <1>4
<1> QED
  BY <1>4, <1>5, <1>6, <1>7

(***************************************************************************)
(* A finite map that gets, or loses, an entry is a finite map.             *)
(***************************************************************************)
LEMMA PutIsMap ==
  ASSUME NEW K, NEW V, NEW f, IsMap(f, K, V), NEW k \in K, NEW v \in V
  PROVE  IsMap(Put(f, k, v), K, V)
  BY DEF IsMap, Put

LEMMA DropIsMap ==
  ASSUME NEW K, NEW V, NEW f, IsMap(f, K, V), NEW k
  PROVE  IsMap(Drop(f, k), K, V)
  BY DEF IsMap, Drop, Restrict
-----------------------------------------------------------------------------
(* Well-formedness, told slot by slot. *)

\* What the location of the order in a slot is.
LocationOf(b, s, p, i) == [side |-> s, price |-> p, it |-> At(b, s, p, i).node]

SlotsAreRight(b) ==
  \A s, p, i : HasSlot(b, s, p, i) =>
    /\ At(b, s, p, i).side = s
    /\ At(b, s, p, i).price = p
    /\ At(b, s, p, i).node < b.nodes
    /\ At(b, s, p, i).orderId \in DOMAIN b.orderMap
    /\ b.orderMap[At(b, s, p, i).orderId] = LocationOf(b, s, p, i)

SlotsAreOrdered(b) ==
  \A s, p, i, j :
    HasSlot(b, s, p, i) /\ HasSlot(b, s, p, j) /\ i < j =>
      At(b, s, p, i).node < At(b, s, p, j).node

EntriesHaveSlots(b) ==
  \A id \in DOMAIN b.orderMap :
    \E s, p, i : /\ HasSlot(b, s, p, i)
                /\ At(b, s, p, i).orderId = id
                /\ b.orderMap[id] = LocationOf(b, s, p, i)

(***************************************************************************)
(* What a slot of a book is.                                               *)
(***************************************************************************)
LEMMA SlotTypes ==
  ASSUME NEW b, IsBook(b), NEW s, NEW p, NEW i, HasSlot(b, s, p, i)
  PROVE  /\ s \in Side /\ p \in Prices
         /\ b.levels[s][p] \in Seq(Order)
         /\ i \in 1 .. Len(b.levels[s][p]) /\ i \in Nat
         /\ At(b, s, p, i) \in Order
         /\ At(b, s, p, i).node \in Nat
         /\ At(b, s, p, i).orderId \in OrderIds
         /\ b.nodes \in Nat
<1>1. /\ s \in Side /\ p \in Prices
      /\ b.levels[s][p] \in Seq(Order)
      /\ b.nodes \in Nat
  BY DEF IsBook, IsMap, HasSlot
<1>2. i \in 1 .. Len(b.levels[s][p]) /\ i \in Nat
  BY <1>1, LenProperties DEF HasSlot
<1>3. At(b, s, p, i) \in Order
  BY <1>1, <1>2, ElementOfSeq DEF At
<1> QED
  BY <1>1, <1>2, <1>3 DEF Order

(***************************************************************************)
(* WellFormed is about slots and about nothing else.                       *)
(***************************************************************************)
LEMMA WellFormedSlots ==
  ASSUME NEW b, IsBook(b)
  PROVE  WellFormed(b) <=> /\ NoEmptyLevel(b)
                           /\ SlotsAreRight(b)
                           /\ SlotsAreOrdered(b)
                           /\ EntriesHaveSlots(b)
<1>1. QueuesHoldOwnOrders(b) /\ IndexCoversQueues(b) <=> SlotsAreRight(b)
  <2>1. ASSUME QueuesHoldOwnOrders(b), IndexCoversQueues(b),
               NEW s, NEW p, NEW i, HasSlot(b, s, p, i)
        PROVE  /\ At(b, s, p, i).side = s
               /\ At(b, s, p, i).price = p
               /\ At(b, s, p, i).node < b.nodes
               /\ At(b, s, p, i).orderId \in DOMAIN b.orderMap
               /\ b.orderMap[At(b, s, p, i).orderId] = LocationOf(b, s, p, i)
    BY <2>1 DEF QueuesHoldOwnOrders, IndexCoversQueues, HasSlot, At, LocationOf
  <2>2. QueuesHoldOwnOrders(b) /\ IndexCoversQueues(b) => SlotsAreRight(b)
    BY <2>1 DEF SlotsAreRight
  <2>3. ASSUME SlotsAreRight(b), NEW s \in Side, NEW p \in DOMAIN b.levels[s],
               NEW i \in DOMAIN b.levels[s][p]
        PROVE  HasSlot(b, s, p, i) /\ At(b, s, p, i) = b.levels[s][p][i]
    BY DEF HasSlot, At
  <2>4. SlotsAreRight(b) => QueuesHoldOwnOrders(b)
    BY <2>3 DEF QueuesHoldOwnOrders, SlotsAreRight
  <2>5. SlotsAreRight(b) => IndexCoversQueues(b)
    BY <2>3 DEF IndexCoversQueues, SlotsAreRight, LocationOf
  <2> QED
    BY <2>2, <2>4, <2>5
<1>2. QueuesAreFifo(b) <=> SlotsAreOrdered(b)
  BY DEF QueuesAreFifo, SlotsAreOrdered, HasSlot, At
<1>3. \A id \in DOMAIN b.orderMap :
        /\ b.orderMap[id] \in OrderLocation
        /\ b.orderMap[id].side \in Side
  BY DEF IsBook, IsMap, OrderLocation
<1>4. IndexPointsToQueues(b) <=> EntriesHaveSlots(b)
  <2>1. ASSUME IndexPointsToQueues(b), NEW id \in DOMAIN b.orderMap
        PROVE  \E s, p, i : /\ HasSlot(b, s, p, i)
                           /\ At(b, s, p, i).orderId = id
                           /\ b.orderMap[id] = LocationOf(b, s, p, i)
    <3> DEFINE loc == b.orderMap[id]
    <3>1. loc = [side |-> loc.side, price |-> loc.price, it |-> loc.it]
      BY <1>3 DEF OrderLocation
    <3>2. PICK i : /\ HasSlot(b, loc.side, loc.price, i)
                   /\ At(b, loc.side, loc.price, i).node = loc.it
                   /\ At(b, loc.side, loc.price, i).orderId = id
      BY <1>3, <2>1 DEF IndexPointsToQueues, HasSlot, At
    <3> QED
      BY <3>1, <3>2 DEF LocationOf
  <2>2. ASSUME EntriesHaveSlots(b), NEW id \in DOMAIN b.orderMap
        PROVE  LET loc == b.orderMap[id]
               IN  /\ loc.price \in DOMAIN b.levels[loc.side]
                   /\ \E i \in DOMAIN b.levels[loc.side][loc.price] :
                        LET o == b.levels[loc.side][loc.price][i]
                        IN  o.node = loc.it /\ o.orderId = id
    <3>1. PICK s, p, i : /\ HasSlot(b, s, p, i)
                         /\ At(b, s, p, i).orderId = id
                         /\ b.orderMap[id] = LocationOf(b, s, p, i)
      BY <2>2 DEF EntriesHaveSlots
    <3>2. /\ b.orderMap[id].side = s
          /\ b.orderMap[id].price = p
          /\ b.orderMap[id].it = At(b, s, p, i).node
      BY <3>1 DEF LocationOf
    <3> QED
      BY <3>1, <3>2 DEF HasSlot, At
  <2> QED
    BY <2>1, <2>2 DEF IndexPointsToQueues, EntriesHaveSlots
<1> QED
  BY <1>1, <1>2, <1>4 DEF WellFormed

-----------------------------------------------------------------------------
(* Inserting an order. *)

(***************************************************************************)
(* insertOrder changes one queue, the index and the node count.            *)
(***************************************************************************)
LEMMA InsertEffect ==
  ASSUME NEW b, IsBook(b), NEW o \in Order
  PROVE  LET c == InsertOrder(b, o)
             q == QueueAt(b.levels[o.side], o.price)
         IN  /\ c.levels[o.side] = Put(b.levels[o.side], o.price, Append(q, o))
             /\ \A s \in Side \ {o.side} : c.levels[s] = b.levels[s]
             /\ c.orderMap = Put(b.orderMap, o.orderId,
                  [side |-> o.side, price |-> o.price, it |-> o.node])
             /\ c.nodes = b.nodes + 1
             /\ c.stats = b.stats
             /\ q \in Seq(Order)
             /\ IsBook(c)
<1> DEFINE c == InsertOrder(b, o)
           q == QueueAt(b.levels[o.side], o.price)
           loc == [side |-> o.side, price |-> o.price, it |-> o.node]
<1>1. /\ b = [levels |-> b.levels, orderMap |-> b.orderMap,
              stats |-> b.stats, nodes |-> b.nodes]
      /\ b.levels = [s \in Side |-> b.levels[s]]
      /\ o.side \in Side /\ o.price \in Prices /\ o.node \in Nat
      /\ o.orderId \in OrderIds
  BY DEF IsBook, Order
<1>2. /\ c.levels = [b.levels EXCEPT ![o.side] =
                       Put(@, o.price, Append(QueueAt(@, o.price), o))]
      /\ c.orderMap = Put(b.orderMap, o.orderId, loc)
      /\ c.nodes = b.nodes + 1
      /\ c.stats = b.stats
      /\ c = [levels |-> c.levels, orderMap |-> c.orderMap,
              stats |-> c.stats, nodes |-> c.nodes]
  BY DEF InsertOrder
<1>3. /\ c.levels[o.side] = Put(b.levels[o.side], o.price, Append(q, o))
      /\ \A s \in Side \ {o.side} : c.levels[s] = b.levels[s]
      /\ c.levels = [s \in Side |-> c.levels[s]]
  BY <1>1, <1>2
<1>4. q \in Seq(Order)
  BY <1>1, EmptySeq DEF IsBook, IsMap, QueueAt
<1>5. \A s \in Side : IsMap(c.levels[s], Prices, Seq(Order))
  <2>1. Append(q, o) \in Seq(Order)
    BY <1>4
  <2>2. IsMap(c.levels[o.side], Prices, Seq(Order))
    <3>1. IsMap(b.levels[o.side], Prices, Seq(Order))
      BY <1>1 DEF IsBook
    <3>2. IsMap(Put(b.levels[o.side], o.price, Append(q, o)), Prices, Seq(Order))
      BY <1>1, <2>1, <3>1, PutIsMap
    <3> QED
      BY <1>3, <3>2
  <2> QED
    BY <1>3, <2>2 DEF IsBook
<1>6. IsMap(c.orderMap, OrderIds, OrderLocation)
  <2>1. loc \in OrderLocation
    BY <1>1 DEF OrderLocation
  <2> QED
    BY <1>1, <1>2, <2>1, PutIsMap DEF IsBook
<1>7. IsBook(c)
  BY <1>2, <1>3, <1>5, <1>6 DEF IsBook
<1> QED
  BY <1>2, <1>3, <1>4, <1>7

(***************************************************************************)
(* The slots of the book after insertOrder are those before, and one more  *)
(* at the end of the order's queue.                                        *)
(***************************************************************************)
LEMMA InsertSlots ==
  ASSUME NEW b, IsBook(b), NEW o \in Order
  PROVE  LET c == InsertOrder(b, o)
             n == Len(QueueAt(b.levels[o.side], o.price)) + 1
         IN  /\ HasSlot(c, o.side, o.price, n)
             /\ At(c, o.side, o.price, n) = o
             /\ \A s, p, i :
                  HasSlot(b, s, p, i) =>
                    /\ HasSlot(c, s, p, i)
                    /\ At(c, s, p, i) = At(b, s, p, i)
                    /\ s = o.side /\ p = o.price => i < n
             /\ \A s, p, i :
                  HasSlot(c, s, p, i) =>
                    \/ s = o.side /\ p = o.price /\ i = n
                    \/ HasSlot(b, s, p, i)
             /\ \A s \in Side : \A p \in DOMAIN c.levels[s] :
                  (s = o.side /\ p = o.price) \/ p \in DOMAIN b.levels[s]
<1> DEFINE c == InsertOrder(b, o)
           q == QueueAt(b.levels[o.side], o.price)
           n == Len(q) + 1
<1>1. /\ c.levels[o.side] = Put(b.levels[o.side], o.price, Append(q, o))
      /\ \A s \in Side \ {o.side} : c.levels[s] = b.levels[s]
      /\ q \in Seq(Order)
  BY InsertEffect
<1>2. o.side \in Side
  BY DEF Order
<1> HIDE DEF c
<1>3. /\ o.price \in DOMAIN c.levels[o.side]
      /\ c.levels[o.side][o.price] = Append(q, o)
      /\ DOMAIN c.levels[o.side] = DOMAIN b.levels[o.side] \cup {o.price}
      /\ \A p \in DOMAIN b.levels[o.side] \ {o.price} :
           c.levels[o.side][p] = b.levels[o.side][p]
  BY <1>1 DEF Put
<1>4. /\ DOMAIN Append(q, o) = 1 .. n
      /\ DOMAIN q = 1 .. Len(q) /\ Len(q) \in Nat
      /\ \A i \in 1 .. Len(q) : Append(q, o)[i] = q[i]
      /\ Append(q, o)[n] = o
  BY <1>1, AppendProperties, LenProperties
<1>5. o.price \in DOMAIN b.levels[o.side] => q = b.levels[o.side][o.price]
  BY DEF QueueAt
<1>6. o.price \notin DOMAIN b.levels[o.side] => q = <<>>
  BY DEF QueueAt
<1> HIDE DEF q
<1>7. HasSlot(c, o.side, o.price, n) /\ At(c, o.side, o.price, n) = o
  BY <1>2, <1>3, <1>4 DEF HasSlot, At
<1>8. ASSUME NEW s, NEW p, NEW i, HasSlot(b, s, p, i)
      PROVE  /\ HasSlot(c, s, p, i)
             /\ At(c, s, p, i) = At(b, s, p, i)
             /\ s = o.side /\ p = o.price => i < n
  <2>1. CASE s = o.side /\ p = o.price
    <3>1. o.price \in DOMAIN b.levels[o.side] /\ i \in DOMAIN b.levels[o.side][o.price]
      BY <1>8, <2>1 DEF HasSlot
    <3>2. q = b.levels[o.side][o.price] /\ i \in 1 .. Len(q)
      BY <1>4, <1>5, <3>1
    <3>3. i \in 1 .. n /\ i < n /\ Append(q, o)[i] = q[i]
      BY <1>4, <3>2
    <3> QED
      BY <1>2, <1>3, <1>4, <2>1, <3>2, <3>3 DEF HasSlot, At
  <2>2. CASE s = o.side /\ p # o.price
    BY <1>3, <1>8, <2>2 DEF HasSlot, At
  <2>3. CASE s # o.side
    BY <1>1, <1>8, <2>3 DEF HasSlot, At
  <2> QED
    BY <2>1, <2>2, <2>3
<1>9. ASSUME NEW s, NEW p, NEW i, HasSlot(c, s, p, i)
      PROVE  \/ s = o.side /\ p = o.price /\ i = n
             \/ HasSlot(b, s, p, i)
  <2>1. CASE s = o.side /\ p = o.price
    <3>1. i \in 1 .. n
      BY <1>3, <1>4, <1>9, <2>1 DEF HasSlot
    <3>2. CASE o.price \in DOMAIN b.levels[o.side]
      BY <1>2, <1>4, <1>5, <2>1, <3>1, <3>2 DEF HasSlot
    <3>3. CASE o.price \notin DOMAIN b.levels[o.side]
      BY <1>6, <2>1, <3>1, <3>3, EmptySeq
    <3> QED
      BY <3>2, <3>3
  <2>2. CASE s = o.side /\ p # o.price
    BY <1>3, <1>9, <2>2 DEF HasSlot
  <2>3. CASE s # o.side
    BY <1>1, <1>9, <2>3 DEF HasSlot
  <2> QED
    BY <2>1, <2>2, <2>3
<1>10. \A s \in Side : \A p \in DOMAIN c.levels[s] :
         (s = o.side /\ p = o.price) \/ p \in DOMAIN b.levels[s]
  BY <1>1, <1>3
<1> QED
  BY <1>7, <1>8, <1>9, <1>10 DEF c, q

(***************************************************************************)
(* insertOrder keeps a book well-formed when the order is not in it yet    *)
(* and takes a new node.                                                   *)
(***************************************************************************)
LEMMA InsertKeepsGood ==
  ASSUME NEW b, Good(b), NEW o \in Order,
         o.orderId \notin DOMAIN b.orderMap, o.node = b.nodes
  PROVE  Good(InsertOrder(b, o))
<1> DEFINE c == InsertOrder(b, o)
           n == Len(QueueAt(b.levels[o.side], o.price)) + 1
           loc == [side |-> o.side, price |-> o.price, it |-> o.node]
<1>1. IsBook(b) /\ WellFormed(b)
  BY DEF Good
<1>2. /\ c.orderMap = Put(b.orderMap, o.orderId, loc)
      /\ c.nodes = b.nodes + 1
      /\ b.nodes \in Nat
      /\ IsBook(c)
  BY <1>1, InsertEffect DEF IsBook
<1>3. /\ HasSlot(c, o.side, o.price, n)
      /\ At(c, o.side, o.price, n) = o
      /\ \A s, p, i : HasSlot(b, s, p, i) =>
           /\ HasSlot(c, s, p, i)
           /\ At(c, s, p, i) = At(b, s, p, i)
           /\ s = o.side /\ p = o.price => i < n
      /\ \A s, p, i : HasSlot(c, s, p, i) =>
           \/ s = o.side /\ p = o.price /\ i = n
           \/ HasSlot(b, s, p, i)
      /\ \A s \in Side : \A p \in DOMAIN c.levels[s] :
           (s = o.side /\ p = o.price) \/ p \in DOMAIN b.levels[s]
  BY <1>1, InsertSlots
<1>4. /\ DOMAIN c.orderMap = DOMAIN b.orderMap \cup {o.orderId}
      /\ c.orderMap[o.orderId] = loc
      /\ \A id \in DOMAIN b.orderMap : c.orderMap[id] = b.orderMap[id]
  BY <1>2 DEF Put
<1>5. /\ NoEmptyLevel(b)
      /\ SlotsAreRight(b)
      /\ SlotsAreOrdered(b)
      /\ EntriesHaveSlots(b)
  BY <1>1, WellFormedSlots
<1> HIDE DEF c, n
<1>6. /\ n \in Nat
      /\ \A s, p, i : HasSlot(b, s, p, i) => i \in Nat /\ At(b, s, p, i).node \in Nat
      /\ \A s, p, i : HasSlot(c, s, p, i) => i \in Nat /\ At(c, s, p, i).node \in Nat
  BY <1>1, <1>2, <1>3, SlotTypes
<1>7. SlotsAreRight(c)
  <2> SUFFICES ASSUME NEW s, NEW p, NEW i, HasSlot(c, s, p, i)
               PROVE  /\ At(c, s, p, i).side = s
                      /\ At(c, s, p, i).price = p
                      /\ At(c, s, p, i).node < c.nodes
                      /\ At(c, s, p, i).orderId \in DOMAIN c.orderMap
                      /\ c.orderMap[At(c, s, p, i).orderId] = LocationOf(c, s, p, i)
    BY DEF SlotsAreRight
  <2>1. CASE s = o.side /\ p = o.price /\ i = n
    BY <1>2, <1>3, <1>4, <2>1 DEF LocationOf
  <2>2. CASE HasSlot(b, s, p, i)
    <3>1. At(c, s, p, i) = At(b, s, p, i)
      BY <1>3, <2>2
    <3>2. At(c, s, p, i).node < c.nodes
      BY <1>2, <1>5, <1>6, <2>2, <3>1 DEF SlotsAreRight
    <3> QED
      BY <1>4, <1>5, <2>2, <3>1, <3>2 DEF SlotsAreRight, LocationOf
  <2> QED
    BY <1>3, <2>1, <2>2
<1>8. SlotsAreOrdered(c)
  <2> SUFFICES ASSUME NEW s, NEW p, NEW i, NEW j,
                      HasSlot(c, s, p, i), HasSlot(c, s, p, j), i < j
               PROVE  At(c, s, p, i).node < At(c, s, p, j).node
    BY DEF SlotsAreOrdered
  <2>1. CASE HasSlot(b, s, p, i) /\ HasSlot(b, s, p, j)
    BY <1>3, <1>5, <2>1 DEF SlotsAreOrdered
  <2>2. CASE HasSlot(b, s, p, i) /\ s = o.side /\ p = o.price /\ j = n
    BY <1>3, <1>5, <2>2 DEF SlotsAreRight
  <2>3. CASE HasSlot(b, s, p, j) /\ s = o.side /\ p = o.price /\ i = n
    BY <1>3, <1>6, <2>3
  <2> QED
    BY <1>3, <1>6, <2>1, <2>2, <2>3
<1>9. EntriesHaveSlots(c)
  <2> SUFFICES ASSUME NEW id \in DOMAIN c.orderMap
               PROVE  \E s, p, i : /\ HasSlot(c, s, p, i)
                                  /\ At(c, s, p, i).orderId = id
                                  /\ c.orderMap[id] = LocationOf(c, s, p, i)
    BY DEF EntriesHaveSlots
  <2>1. CASE id = o.orderId
    BY <1>3, <1>4, <2>1 DEF LocationOf
  <2>2. CASE id \in DOMAIN b.orderMap
    <3>1. PICK s, p, i : /\ HasSlot(b, s, p, i)
                         /\ At(b, s, p, i).orderId = id
                         /\ b.orderMap[id] = LocationOf(b, s, p, i)
      BY <1>5, <2>2 DEF EntriesHaveSlots
    <3> QED
      BY <1>3, <1>4, <2>2, <3>1 DEF LocationOf
  <2> QED
    BY <1>4, <2>1, <2>2
<1>10. NoEmptyLevel(c)
  <2> SUFFICES ASSUME NEW s \in Side, NEW p \in DOMAIN c.levels[s]
               PROVE  \E i : HasSlot(c, s, p, i)
    BY DEF NoEmptyLevel, HasSlot
  <2>1. CASE s = o.side /\ p = o.price
    BY <1>3, <2>1
  <2>2. CASE p \in DOMAIN b.levels[s]
    <3>1. b.levels[s][p] \in Seq(Order) /\ b.levels[s][p] # <<>>
      BY <1>1, <1>5, <2>2 DEF IsBook, IsMap, NoEmptyLevel
    <3>2. HasSlot(b, s, p, 1)
      BY <2>2, <3>1, EmptySeq, LenProperties DEF HasSlot
    <3> QED
      BY <1>3, <3>2
  <2> QED
    BY <1>3, <2>1, <2>2
<1>11. WellFormed(c)
  BY <1>2, <1>7, <1>8, <1>9, <1>10, WellFormedSlots
<1> QED
  BY <1>2, <1>11 DEF Good, c

-----------------------------------------------------------------------------
(* Removing an order. *)

\* What cancelOrder, a reinsertion and a complete fill do to the order's slot.
Removed(b, s, p, i) == Forget(EraseAt(b, s, p, i), At(b, s, p, i).orderId)

(***************************************************************************)
(* An id is in one slot only.                                              *)
(***************************************************************************)
LEMMA SlotOfId ==
  ASSUME NEW b, Good(b),
         NEW s, NEW p, NEW i, HasSlot(b, s, p, i),
         NEW t, NEW r, NEW j, HasSlot(b, t, r, j),
         At(b, s, p, i).orderId = At(b, t, r, j).orderId
  PROVE  s = t /\ p = r /\ i = j
<1>1. IsBook(b) /\ SlotsAreRight(b) /\ SlotsAreOrdered(b)
  BY WellFormedSlots DEF Good
<1>2. LocationOf(b, s, p, i) = LocationOf(b, t, r, j)
  BY <1>1 DEF SlotsAreRight
<1>3. s = t /\ p = r /\ At(b, s, p, i).node = At(b, t, r, j).node
  BY <1>2 DEF LocationOf
<1>4. i \in Nat /\ j \in Nat /\ At(b, s, p, i).node \in Nat
  BY <1>1, SlotTypes
<1>5. ~ (i < j)
  BY <1>1, <1>3, <1>4 DEF SlotsAreOrdered
<1>6. ~ (j < i)
  BY <1>1, <1>3, <1>4 DEF SlotsAreOrdered
<1> QED
  BY <1>3, <1>4, <1>5, <1>6

(***************************************************************************)
(* Removing an order changes one queue and the index.                      *)
(***************************************************************************)
LEMMA RemoveEffect ==
  ASSUME NEW b, IsBook(b), NEW s, NEW p, NEW i, HasSlot(b, s, p, i)
  PROVE  LET c == Removed(b, s, p, i)
             rest == RemoveAt(b.levels[s][p], i)
         IN  /\ c.levels[s] = IF rest = <<>> THEN Drop(b.levels[s], p)
                                            ELSE Put(b.levels[s], p, rest)
             /\ \A t \in Side \ {s} : c.levels[t] = b.levels[t]
             /\ c.orderMap = Drop(b.orderMap, At(b, s, p, i).orderId)
             /\ c.nodes = b.nodes
             /\ c.stats = b.stats
             /\ IsBook(c)
<1> DEFINE c == Removed(b, s, p, i)
           rest == RemoveAt(b.levels[s][p], i)
           level == IF rest = <<>> THEN Drop(b.levels[s], p)
                                   ELSE Put(b.levels[s], p, rest)
           id == At(b, s, p, i).orderId
<1>1. /\ b = [levels |-> b.levels, orderMap |-> b.orderMap,
              stats |-> b.stats, nodes |-> b.nodes]
      /\ b.levels = [t \in Side |-> b.levels[t]]
      /\ s \in Side /\ p \in Prices
      /\ rest \in Seq(Order)
  BY SlotTypes, RemoveAtProperties DEF IsBook
<1> HIDE DEF rest
<1>2. EraseAt(b, s, p, i) =
        [levels |-> [b.levels EXCEPT ![s] = level], orderMap |-> b.orderMap,
         stats |-> b.stats, nodes |-> b.nodes]
  BY <1>1 DEF EraseAt, rest
<1>3. c = [levels |-> [b.levels EXCEPT ![s] = level],
           orderMap |-> Drop(b.orderMap, id),
           stats |-> b.stats, nodes |-> b.nodes]
  BY <1>2 DEF Forget, Removed
<1> HIDE DEF c, level
<1>4. /\ c.levels = [b.levels EXCEPT ![s] = level]
      /\ c.orderMap = Drop(b.orderMap, id)
      /\ c.nodes = b.nodes
      /\ c.stats = b.stats
      /\ c = [levels |-> c.levels, orderMap |-> c.orderMap,
              stats |-> c.stats, nodes |-> c.nodes]
  BY <1>3
<1>5. /\ c.levels[s] = level
      /\ \A t \in Side \ {s} : c.levels[t] = b.levels[t]
      /\ c.levels = [t \in Side |-> c.levels[t]]
  BY <1>1, <1>4
<1>6. IsMap(level, Prices, Seq(Order))
  <2>1. IsMap(b.levels[s], Prices, Seq(Order))
    BY <1>1 DEF IsBook
  <2>2. IsMap(Drop(b.levels[s], p), Prices, Seq(Order))
    BY <2>1, DropIsMap
  <2>3. IsMap(Put(b.levels[s], p, rest), Prices, Seq(Order))
    BY <1>1, <2>1, PutIsMap
  <2> QED
    BY <2>2, <2>3 DEF level
<1>7. IsMap(c.orderMap, OrderIds, OrderLocation)
  BY <1>4, DropIsMap DEF IsBook
<1>8. IsBook(c)
  BY <1>4, <1>5, <1>6, <1>7 DEF IsBook
<1> QED
  BY <1>4, <1>5, <1>8 DEF c, level, rest

\* Where the order in slot j of queue (t, r) stood before slot i of (s, p) went.
OldPlace(s, p, i, t, r, j) == IF t = s /\ r = p /\ i <= j THEN j + 1 ELSE j

(***************************************************************************)
(* The slots that remain are the others, those behind moved up by one; no  *)
(* level is left without a slot.                                           *)
(***************************************************************************)
LEMMA RemoveSlots ==
  ASSUME NEW b, IsBook(b), NEW s, NEW p, NEW i, HasSlot(b, s, p, i)
  PROVE  LET c == Removed(b, s, p, i)
         IN  /\ \A t, r, j : HasSlot(c, t, r, j) =>
                  LET k == OldPlace(s, p, i, t, r, j)
                  IN  /\ HasSlot(b, t, r, k)
                      /\ At(c, t, r, j) = At(b, t, r, k)
                      /\ ~ (t = s /\ r = p /\ k = i)
             /\ \A t, r, k : HasSlot(b, t, r, k) /\ ~ (t = s /\ r = p /\ k = i) =>
                  \E j : HasSlot(c, t, r, j) /\ At(c, t, r, j) = At(b, t, r, k)
             /\ NoEmptyLevel(b) => NoEmptyLevel(c)
<1> DEFINE c == Removed(b, s, p, i)
           q == b.levels[s][p]
           rest == RemoveAt(q, i)
<1>1. /\ c.levels[s] = IF rest = <<>> THEN Drop(b.levels[s], p)
                                     ELSE Put(b.levels[s], p, rest)
      /\ \A t \in Side \ {s} : c.levels[t] = b.levels[t]
  BY RemoveEffect
<1>2. /\ s \in Side /\ p \in DOMAIN b.levels[s]
      /\ q \in Seq(Order) /\ i \in 1 .. Len(q)
      /\ Len(q) \in Nat /\ DOMAIN q = 1 .. Len(q)
  BY SlotTypes, LenProperties DEF HasSlot
<1>3. /\ rest \in Seq(Order)
      /\ Len(rest) = Len(q) - 1
      /\ DOMAIN rest = 1 .. Len(q) - 1
      /\ \A j \in 1 .. Len(q) - 1 : rest[j] = IF j < i THEN q[j] ELSE q[j + 1]
  <2> HIDE DEF q
  <2>1. /\ rest \in Seq(Order)
        /\ Len(rest) = Len(q) - 1
        /\ \A j \in 1 .. Len(q) - 1 : rest[j] = IF j < i THEN q[j] ELSE q[j + 1]
    BY <1>2, RemoveAtProperties
  <2> HIDE DEF rest
  <2>2. DOMAIN rest = 1 .. Len(rest)
    BY <2>1, LenProperties
  <2> QED
    BY <2>1, <2>2
<1> HIDE DEF c, rest
<1>4. \A r : r # p => /\ r \in DOMAIN c.levels[s] <=> r \in DOMAIN b.levels[s]
                      /\ r \in DOMAIN b.levels[s] =>
                           c.levels[s][r] = b.levels[s][r]
  BY <1>1, <1>2 DEF Drop, Restrict, Put
<1>5. p \in DOMAIN c.levels[s] <=> rest # <<>>
  BY <1>1, <1>2 DEF Drop, Restrict, Put
<1>6. rest # <<>> => c.levels[s][p] = rest
  BY <1>1, <1>2 DEF Put
<1>7. rest # <<>> <=> Len(q) > 1
  BY <1>2, <1>3, EmptySeq
<1>8. ASSUME NEW t, NEW r, NEW j, HasSlot(c, t, r, j)
      PROVE  LET k == OldPlace(s, p, i, t, r, j)
             IN  /\ HasSlot(b, t, r, k)
                 /\ At(c, t, r, j) = At(b, t, r, k)
                 /\ ~ (t = s /\ r = p /\ k = i)
  <2>1. CASE t = s /\ r = p
    <3>1. c.levels[t][r] = rest /\ j \in 1 .. Len(q) - 1
      BY <1>3, <1>5, <1>6, <1>8, <2>1 DEF HasSlot
    <3>2. CASE j < i
      BY <1>2, <1>3, <2>1, <3>1, <3>2 DEF HasSlot, At, OldPlace
    <3>3. CASE i <= j
      BY <1>2, <1>3, <2>1, <3>1, <3>3 DEF HasSlot, At, OldPlace
    <3> QED
      BY <1>2, <3>1, <3>2, <3>3
  <2>2. CASE t = s /\ r # p
    BY <1>4, <1>8, <2>2 DEF HasSlot, At, OldPlace
  <2>3. CASE t # s
    BY <1>1, <1>8, <2>3 DEF HasSlot, At, OldPlace
  <2> QED
    BY <2>1, <2>2, <2>3
<1>9. ASSUME NEW t, NEW r, NEW k, HasSlot(b, t, r, k), ~ (t = s /\ r = p /\ k = i)
      PROVE  \E j : HasSlot(c, t, r, j) /\ At(c, t, r, j) = At(b, t, r, k)
  <2>1. CASE t = s /\ r = p
    <3>1. k \in 1 .. Len(q) /\ k # i
      BY <1>2, <1>9, <2>1 DEF HasSlot
    <3>2. p \in DOMAIN c.levels[s] /\ c.levels[s][p] = rest
      BY <1>2, <1>5, <1>6, <1>7, <3>1
    <3>3. CASE k < i
      <4>1. k \in 1 .. Len(q) - 1 /\ rest[k] = q[k]
        BY <1>2, <1>3, <3>1, <3>3
      <4> QED
        BY <1>2, <1>3, <2>1, <3>2, <4>1 DEF HasSlot, At
    <3>4. CASE i < k
      <4>1. k - 1 \in 1 .. Len(q) - 1 /\ rest[k - 1] = q[k]
        BY <1>2, <1>3, <3>1, <3>4
      <4> QED
        BY <1>2, <1>3, <2>1, <3>2, <4>1 DEF HasSlot, At
    <3> QED
      BY <1>2, <3>1, <3>3, <3>4
  <2>2. CASE t = s /\ r # p
    BY <1>4, <1>9, <2>2 DEF HasSlot, At
  <2>3. CASE t # s
    BY <1>1, <1>9, <2>3 DEF HasSlot, At
  <2> QED
    BY <2>1, <2>2, <2>3
<1>10. ASSUME NoEmptyLevel(b)
       PROVE  NoEmptyLevel(c)
  BY <1>1, <1>4, <1>5, <1>6, <1>10 DEF NoEmptyLevel
<1> QED
  BY <1>8, <1>9, <1>10 DEF c

(***************************************************************************)
(* Removing an order with its index entry keeps a book well-formed.        *)
(***************************************************************************)
LEMMA RemoveKeepsGood ==
  ASSUME NEW b, Good(b), NEW s, NEW p, NEW i, HasSlot(b, s, p, i)
  PROVE  Good(Removed(b, s, p, i))
<1> DEFINE c == Removed(b, s, p, i)
           id == At(b, s, p, i).orderId
<1>1. /\ IsBook(b)
      /\ NoEmptyLevel(b)
      /\ SlotsAreRight(b)
      /\ SlotsAreOrdered(b)
      /\ EntriesHaveSlots(b)
  BY WellFormedSlots DEF Good
<1>2. /\ c.orderMap = Drop(b.orderMap, id)
      /\ c.nodes = b.nodes
      /\ IsBook(c)
  BY <1>1, RemoveEffect
<1>3. /\ \A t, r, j : HasSlot(c, t, r, j) =>
           LET k == OldPlace(s, p, i, t, r, j)
           IN  /\ HasSlot(b, t, r, k)
               /\ At(c, t, r, j) = At(b, t, r, k)
               /\ ~ (t = s /\ r = p /\ k = i)
      /\ \A t, r, k : HasSlot(b, t, r, k) /\ ~ (t = s /\ r = p /\ k = i) =>
           \E j : HasSlot(c, t, r, j) /\ At(c, t, r, j) = At(b, t, r, k)
      /\ NoEmptyLevel(c)
  BY <1>1, RemoveSlots
<1>4. /\ DOMAIN c.orderMap = DOMAIN b.orderMap \ {id}
      /\ \A x \in DOMAIN c.orderMap : c.orderMap[x] = b.orderMap[x]
  BY <1>2 DEF Drop, Restrict
<1> HIDE DEF c
<1>5. SlotsAreRight(c)
  <2> SUFFICES ASSUME NEW t, NEW r, NEW j, HasSlot(c, t, r, j)
               PROVE  /\ At(c, t, r, j).side = t
                      /\ At(c, t, r, j).price = r
                      /\ At(c, t, r, j).node < c.nodes
                      /\ At(c, t, r, j).orderId \in DOMAIN c.orderMap
                      /\ c.orderMap[At(c, t, r, j).orderId] = LocationOf(c, t, r, j)
    BY DEF SlotsAreRight
  <2> DEFINE k == OldPlace(s, p, i, t, r, j)
  <2>1. HasSlot(b, t, r, k) /\ At(c, t, r, j) = At(b, t, r, k)
          /\ ~ (t = s /\ r = p /\ k = i)
    BY <1>3
  <2>2. At(b, t, r, k).orderId # id
    BY <2>1, SlotOfId
  <2> HIDE DEF k
  <2> QED
    BY <1>1, <1>2, <1>4, <2>1, <2>2 DEF SlotsAreRight, LocationOf
<1>6. SlotsAreOrdered(c)
  <2> SUFFICES ASSUME NEW t, NEW r, NEW j, NEW k,
                      HasSlot(c, t, r, j), HasSlot(c, t, r, k), j < k
               PROVE  At(c, t, r, j).node < At(c, t, r, k).node
    BY DEF SlotsAreOrdered
  <2> DEFINE jj == OldPlace(s, p, i, t, r, j)
             kk == OldPlace(s, p, i, t, r, k)
  <2>1. /\ HasSlot(b, t, r, jj) /\ At(c, t, r, j) = At(b, t, r, jj)
        /\ HasSlot(b, t, r, kk) /\ At(c, t, r, k) = At(b, t, r, kk)
    BY <1>3
  <2>2. i \in Nat /\ j \in Nat /\ k \in Nat
    BY <1>1, <1>2, SlotTypes
  <2>3. jj < kk
    BY <2>2 DEF OldPlace
  <2> QED
    BY <1>1, <2>1, <2>3 DEF SlotsAreOrdered
<1>7. EntriesHaveSlots(c)
  <2> SUFFICES ASSUME NEW x \in DOMAIN c.orderMap
               PROVE  \E t, r, j : /\ HasSlot(c, t, r, j)
                                  /\ At(c, t, r, j).orderId = x
                                  /\ c.orderMap[x] = LocationOf(c, t, r, j)
    BY DEF EntriesHaveSlots
  <2>1. PICK t, r, k : /\ HasSlot(b, t, r, k)
                       /\ At(b, t, r, k).orderId = x
                       /\ b.orderMap[x] = LocationOf(b, t, r, k)
    BY <1>1, <1>4 DEF EntriesHaveSlots
  <2>2. ~ (t = s /\ r = p /\ k = i)
    BY <1>4, <2>1
  <2>3. PICK j : HasSlot(c, t, r, j) /\ At(c, t, r, j) = At(b, t, r, k)
    BY <1>3, <2>1, <2>2
  <2> QED
    BY <1>4, <2>1, <2>3 DEF LocationOf
<1>8. WellFormed(c)
  BY <1>2, <1>3, <1>5, <1>6, <1>7, WellFormedSlots
<1> QED
  BY <1>2, <1>8 DEF Good, c

-----------------------------------------------------------------------------
(* Overwriting a quantity. *)

(***************************************************************************)
(* A write through an iterator changes the quantity of one order.          *)
(***************************************************************************)
LEMMA SetEffect ==
  ASSUME NEW b, IsBook(b), NEW s, NEW p, NEW i, HasSlot(b, s, p, i), NEW n \in Int
  PROVE  LET c == SetQuantity(b, s, p, i, n)
         IN  /\ \A t, r, j : HasSlot(c, t, r, j) <=> HasSlot(b, t, r, j)
             /\ \A t, r, j : HasSlot(b, t, r, j) =>
                  At(c, t, r, j) = IF t = s /\ r = p /\ j = i
                                   THEN [At(b, s, p, i) EXCEPT !.quantity = n]
                                   ELSE At(b, t, r, j)
             /\ NoEmptyLevel(b) => NoEmptyLevel(c)
             /\ \A t \in Side \ {s} : c.levels[t] = b.levels[t]
             /\ c.orderMap = b.orderMap
             /\ c.nodes = b.nodes
             /\ c.stats = b.stats
             /\ IsBook(c)
<1> DEFINE c == SetQuantity(b, s, p, i, n)
           q == b.levels[s][p]
           o == [q[i] EXCEPT !.quantity = n]
           queue == [q EXCEPT ![i] = o]
           level == [b.levels[s] EXCEPT ![p] = queue]
<1>1. /\ b = [levels |-> b.levels, orderMap |-> b.orderMap,
              stats |-> b.stats, nodes |-> b.nodes]
      /\ b.levels = [t \in Side |-> b.levels[t]]
      /\ s \in Side /\ p \in Prices /\ p \in DOMAIN b.levels[s]
      /\ q \in Seq(Order) /\ i \in 1 .. Len(q)
      /\ q[i] \in Order
  BY SlotTypes DEF IsBook, HasSlot, At
<1>2. c = [levels |-> [b.levels EXCEPT ![s] = level], orderMap |-> b.orderMap,
           stats |-> b.stats, nodes |-> b.nodes]
  <2> DEFINE levels == [b.levels EXCEPT ![s] = level]
  <2>1. c = [b EXCEPT !.levels = levels]
    BY DEF SetQuantity
  <2> HIDE DEF c, levels
  <2>2. c = [levels |-> levels, orderMap |-> b.orderMap,
             stats |-> b.stats, nodes |-> b.nodes]
    BY <1>1, <2>1
  <2> QED
    BY <2>2 DEF levels
<1>3. o \in Order
  BY <1>1 DEF Order
<1> HIDE DEF c, o
<1>4. /\ queue \in Seq(Order)
      /\ Len(queue) = Len(q)
      /\ DOMAIN queue = DOMAIN q
      /\ \A j \in 1 .. Len(q) : queue[j] = IF j = i THEN o ELSE q[j]
      /\ DOMAIN q = 1 .. Len(q)
  BY <1>1, <1>3, ExceptSeq, LenProperties
<1> HIDE DEF q, queue
<1>5. /\ IsMap(b.levels[s], Prices, Seq(Order))
      /\ b.levels[s][p] = q
  BY <1>1 DEF IsBook, q
<1>6. /\ IsMap(level, Prices, Seq(Order))
      /\ DOMAIN level = DOMAIN b.levels[s]
      /\ level[p] = queue
      /\ \A r \in DOMAIN b.levels[s] \ {p} : level[r] = b.levels[s][r]
  BY <1>1, <1>4, <1>5 DEF IsMap
<1> HIDE DEF level
<1>7. /\ c.orderMap = b.orderMap
      /\ c.nodes = b.nodes
      /\ c.stats = b.stats
      /\ c = [levels |-> c.levels, orderMap |-> c.orderMap,
              stats |-> c.stats, nodes |-> c.nodes]
      /\ c.levels = [t \in Side |-> c.levels[t]]
      /\ c.levels[s] = level
      /\ \A t \in Side \ {s} : c.levels[t] = b.levels[t]
  BY <1>1, <1>2
<1>8. IsBook(c)
  BY <1>6, <1>7 DEF IsBook
<1>9. \A t, r, j : HasSlot(c, t, r, j) <=> HasSlot(b, t, r, j)
  BY <1>4, <1>5, <1>6, <1>7 DEF HasSlot
<1>10. ASSUME NEW t, NEW r, NEW j, HasSlot(b, t, r, j)
       PROVE  At(c, t, r, j) = IF t = s /\ r = p /\ j = i THEN o
                               ELSE At(b, t, r, j)
  <2>1. CASE t = s /\ r = p
    BY <1>4, <1>5, <1>6, <1>7, <1>10, <2>1 DEF HasSlot, At
  <2>2. CASE t = s /\ r # p
    BY <1>6, <1>7, <1>10, <2>2 DEF HasSlot, At
  <2>3. CASE t # s
    BY <1>7, <1>10, <2>3 DEF HasSlot, At
  <2> QED
    BY <2>1, <2>2, <2>3
<1>11. NoEmptyLevel(b) => NoEmptyLevel(c)
  <2>1. queue # <<>>
    BY <1>1, <1>4, EmptySeq DEF q
  <2> QED
    BY <1>6, <1>7, <2>1 DEF NoEmptyLevel
<1>12. o = [At(b, s, p, i) EXCEPT !.quantity = n]
  BY <1>5 DEF At, o
<1> QED
  BY <1>7, <1>8, <1>9, <1>10, <1>11, <1>12 DEF c

(***************************************************************************)
(* ... and keeps a book well-formed: no part of it is about quantities.    *)
(***************************************************************************)
LEMMA SetKeepsGood ==
  ASSUME NEW b, Good(b), NEW s, NEW p, NEW i, HasSlot(b, s, p, i), NEW n \in Int
  PROVE  Good(SetQuantity(b, s, p, i, n))
<1> DEFINE c == SetQuantity(b, s, p, i, n)
<1>1. /\ IsBook(b)
      /\ NoEmptyLevel(b)
      /\ SlotsAreRight(b)
      /\ SlotsAreOrdered(b)
      /\ EntriesHaveSlots(b)
  BY WellFormedSlots DEF Good
<1>2. /\ \A t, r, j : HasSlot(c, t, r, j) <=> HasSlot(b, t, r, j)
      /\ \A t, r, j : HasSlot(b, t, r, j) =>
           At(c, t, r, j) = IF t = s /\ r = p /\ j = i
                            THEN [At(b, s, p, i) EXCEPT !.quantity = n]
                            ELSE At(b, t, r, j)
      /\ NoEmptyLevel(c)
      /\ c.orderMap = b.orderMap
      /\ c.nodes = b.nodes
      /\ IsBook(c)
  BY <1>1, SetEffect
<1> HIDE DEF c
<1>3. At(b, s, p, i) \in Order
  BY <1>1, SlotTypes
<1>4. \A t, r, j : HasSlot(b, t, r, j) =>
        /\ At(c, t, r, j).orderId = At(b, t, r, j).orderId
        /\ At(c, t, r, j).side = At(b, t, r, j).side
        /\ At(c, t, r, j).price = At(b, t, r, j).price
        /\ At(c, t, r, j).node = At(b, t, r, j).node
  BY <1>2, <1>3 DEF Order
<1>5. \A t, r, j : HasSlot(b, t, r, j) =>
        LocationOf(c, t, r, j) = LocationOf(b, t, r, j)
  BY <1>4 DEF LocationOf
<1>6. SlotsAreRight(c)
  BY <1>1, <1>2, <1>4, <1>5 DEF SlotsAreRight
<1>7. SlotsAreOrdered(c)
  BY <1>1, <1>2, <1>4 DEF SlotsAreOrdered
<1>8. EntriesHaveSlots(c)
  BY <1>1, <1>2, <1>4, <1>5 DEF EntriesHaveSlots
<1>9. WellFormed(c)
  BY <1>2, <1>6, <1>7, <1>8, WellFormedSlots
<1> QED
  BY <1>2, <1>9 DEF Good, c

-----------------------------------------------------------------------------
(* The public operations of a book (addOrder, cancelOrder, modifyOrder, one *)
(* iteration of matchOrders): a well-formed book stays well-formed, and     *)
(* which orders can meet the other side of the book is under control.       *)

(***************************************************************************)
(* No two orders of the book meet, but for the order id with others.       *)
(***************************************************************************)
MeetsOnly(b, id) ==
  \A p, i, r, j :
    HasSlot(b, "BUY", p, i) /\ HasSlot(b, "SELL", r, j) /\ p >= r =>
      id \in {At(b, "BUY", p, i).orderId, At(b, "SELL", r, j).orderId}

\* Every slot of c comes from a slot of b: same place, same order but for
\* its quantity.
Shrunk(c, b) ==
  \A s, p, i : HasSlot(c, s, p, i) =>
    \E j : HasSlot(b, s, p, j) /\ At(c, s, p, i).orderId = At(b, s, p, j).orderId

LEMMA UncrossedMeetsOnly ==
  ASSUME NEW b, IsBook(b), NEW id, Uncrossed(b)
  PROVE  MeetsOnly(b, id)
<1> SUFFICES ASSUME NEW p, NEW i, NEW r, NEW j,
                    HasSlot(b, "BUY", p, i), HasSlot(b, "SELL", r, j), p >= r
             PROVE  FALSE
  BY DEF MeetsOnly
<1>1. p \in Int /\ r \in Int
  BY SlotTypes, BookAssumption
<1>2. p < r
  BY DEF Uncrossed, HasSlot
<1> QED
  BY <1>1, <1>2

(***************************************************************************)
(* When the order that may meet others is not in the book, none does.      *)
(***************************************************************************)
LEMMA MeetsOnlyUncrossed ==
  ASSUME NEW b, Good(b), NEW id, id \notin DOMAIN b.orderMap, MeetsOnly(b, id)
  PROVE  Uncrossed(b)
<1> SUFFICES ASSUME NEW p \in DOMAIN b.levels["BUY"],
                    NEW r \in DOMAIN b.levels["SELL"], ~ (p < r)
             PROVE  FALSE
  BY DEF Uncrossed
<1>1. IsBook(b) /\ NoEmptyLevel(b) /\ SlotsAreRight(b)
  BY WellFormedSlots DEF Good
<1>2. HasSlot(b, "BUY", p, 1) /\ HasSlot(b, "SELL", r, 1)
  <2>1. /\ b.levels["BUY"][p] \in Seq(Order) /\ b.levels["BUY"][p] # <<>>
        /\ b.levels["SELL"][r] \in Seq(Order) /\ b.levels["SELL"][r] # <<>>
    BY <1>1 DEF IsBook, IsMap, NoEmptyLevel, Side
  <2> QED
    BY <2>1, EmptySeq, LenProperties DEF HasSlot, Side
<1>3. p \in Int /\ r \in Int
  BY <1>1, <1>2, SlotTypes, BookAssumption
<1>4. id \in {At(b, "BUY", p, 1).orderId, At(b, "SELL", r, 1).orderId}
  BY <1>2, <1>3 DEF MeetsOnly
<1> QED
  BY <1>1, <1>2, <1>4 DEF SlotsAreRight

(***************************************************************************)
(* Removing orders and changing quantities makes no two orders meet.       *)
(***************************************************************************)
LEMMA ShrunkMeetsOnly ==
  ASSUME NEW b, NEW c, Shrunk(c, b), NEW id, MeetsOnly(b, id)
  PROVE  MeetsOnly(c, id)
<1> SUFFICES ASSUME NEW p, NEW i, NEW r, NEW j,
                    HasSlot(c, "BUY", p, i), HasSlot(c, "SELL", r, j), p >= r
             PROVE  id \in {At(c, "BUY", p, i).orderId, At(c, "SELL", r, j).orderId}
  BY DEF MeetsOnly
<1>1. PICK k : /\ HasSlot(b, "BUY", p, k)
               /\ At(c, "BUY", p, i).orderId = At(b, "BUY", p, k).orderId
  BY DEF Shrunk
<1>2. PICK l : /\ HasSlot(b, "SELL", r, l)
               /\ At(c, "SELL", r, j).orderId = At(b, "SELL", r, l).orderId
  BY DEF Shrunk
<1> QED
  BY <1>1, <1>2 DEF MeetsOnly

LEMMA ShrunkUncrossed ==
  ASSUME NEW b, NEW c, Good(c), IsBook(b), Shrunk(c, b), Uncrossed(b)
  PROVE  Uncrossed(c)
<1>1. 0 \notin DOMAIN c.orderMap
  BY BookAssumption DEF Good, IsBook, IsMap
<1> QED
  BY <1>1, UncrossedMeetsOnly, ShrunkMeetsOnly, MeetsOnlyUncrossed

LEMMA RemovedShrunk ==
  ASSUME NEW b, IsBook(b), NEW s, NEW p, NEW i, HasSlot(b, s, p, i)
  PROVE  Shrunk(Removed(b, s, p, i), b)
  BY RemoveSlots DEF Shrunk

LEMMA SetShrunk ==
  ASSUME NEW b, IsBook(b), NEW s, NEW p, NEW i, HasSlot(b, s, p, i), NEW n \in Int
  PROVE  Shrunk(SetQuantity(b, s, p, i, n), b)
<1> DEFINE c == SetQuantity(b, s, p, i, n)
<1>1. /\ \A t, r, j : HasSlot(c, t, r, j) <=> HasSlot(b, t, r, j)
      /\ \A t, r, j : HasSlot(b, t, r, j) =>
           At(c, t, r, j) = IF t = s /\ r = p /\ j = i
                            THEN [At(b, s, p, i) EXCEPT !.quantity = n]
                            ELSE At(b, t, r, j)
  BY SetEffect
<1>2. At(b, s, p, i) \in Order
  BY SlotTypes
<1> HIDE DEF c
<1>3. \A t, r, j : HasSlot(b, t, r, j) =>
        At(c, t, r, j).orderId = At(b, t, r, j).orderId
  BY <1>1, <1>2 DEF Order
<1> QED
  BY <1>1, <1>3 DEF Shrunk, c

LEMMA ShrunkTransitive ==
  ASSUME NEW a, NEW b, NEW c, Shrunk(b, a), Shrunk(c, b)
  PROVE  Shrunk(c, a)
  BY DEF Shrunk

-----------------------------------------------------------------------------
(* A new book, and addOrder *)

LEMMA EmptyBookGood == Good(EmptyBook) /\ Uncrossed(EmptyBook)
<1>1. /\ EmptyBook.levels = [s \in Side |-> <<>>]
      /\ \A s \in Side : EmptyBook.levels[s] = <<>>
      /\ EmptyBook.orderMap = <<>>
      /\ EmptyBook.nodes = 0
      /\ EmptyBook.stats \in SymbolStats
      /\ EmptyBook = [levels |-> EmptyBook.levels,
                      orderMap |-> EmptyBook.orderMap,
                      stats |-> EmptyBook.stats, nodes |-> EmptyBook.nodes]
  BY DEF EmptyBook, SymbolStats
<1>2. DOMAIN <<>> = {}
  OBVIOUS
<1>3. \A K, V : IsMap(<<>>, K, V)
  BY <1>2 DEF IsMap
<1>4. IsBook(EmptyBook)
  BY <1>1, <1>3 DEF IsBook
<1>5. WellFormed(EmptyBook)
  BY <1>1, <1>2 DEF WellFormed, NoEmptyLevel, QueuesHoldOwnOrders,
       QueuesAreFifo, IndexCoversQueues, IndexPointsToQueues
<1> QED
  BY <1>1, <1>2, <1>4, <1>5 DEF Good, Uncrossed, Side

(***************************************************************************)
(* Statistics are no part of a book's well-formedness.                     *)
(***************************************************************************)
LEMMA StatsEffect ==
  ASSUME NEW b, IsBook(b), NEW st \in SymbolStats
  PROVE  LET c == [b EXCEPT !.stats = st]
         IN  /\ IsBook(c)
             /\ c.levels = b.levels /\ c.orderMap = b.orderMap
             /\ c.nodes = b.nodes /\ c.stats = st
             /\ WellFormed(b) => WellFormed(c)
             /\ Shrunk(c, b)
<1> DEFINE c == [b EXCEPT !.stats = st]
<1>1. c = [levels |-> b.levels, orderMap |-> b.orderMap,
           stats |-> st, nodes |-> b.nodes]
  BY DEF IsBook
<1> HIDE DEF c
<1>2. /\ c.levels = b.levels /\ c.orderMap = b.orderMap
      /\ c.nodes = b.nodes /\ c.stats = st
      /\ c = [levels |-> c.levels, orderMap |-> c.orderMap,
              stats |-> c.stats, nodes |-> c.nodes]
  BY <1>1
<1>3. IsBook(c)
  BY <1>2 DEF IsBook
<1>4. /\ \A s, p, i : HasSlot(c, s, p, i) <=> HasSlot(b, s, p, i)
      /\ \A s, p, i : At(c, s, p, i) = At(b, s, p, i)
      /\ \A s, p, i : LocationOf(c, s, p, i) = LocationOf(b, s, p, i)
  BY <1>2 DEF HasSlot, At, LocationOf
<1>5. Shrunk(c, b)
  BY <1>4 DEF Shrunk
<1>6. ASSUME WellFormed(b)
      PROVE  WellFormed(c)
  <2>1. /\ NoEmptyLevel(b)
        /\ SlotsAreRight(b)
        /\ SlotsAreOrdered(b)
        /\ EntriesHaveSlots(b)
    BY <1>6, WellFormedSlots
  <2>2. NoEmptyLevel(c)
    BY <1>2, <2>1 DEF NoEmptyLevel
  <2>3. SlotsAreRight(c)
    BY <1>2, <1>4, <2>1 DEF SlotsAreRight
  <2>4. SlotsAreOrdered(c)
    BY <1>4, <2>1 DEF SlotsAreOrdered
  <2>5. EntriesHaveSlots(c)
    BY <1>2, <1>4, <2>1 DEF EntriesHaveSlots
  <2> QED
    BY <1>3, <2>2, <2>3, <2>4, <2>5, WellFormedSlots
<1> QED
  BY <1>2, <1>3, <1>5, <1>6 DEF c

(***************************************************************************)
(* Inserting an order lets no order meet another but with the new one.     *)
(***************************************************************************)
LEMMA InsertMeetsOnly ==
  ASSUME NEW b, IsBook(b), NEW o \in Order, Uncrossed(b)
  PROVE  MeetsOnly(InsertOrder(b, o), o.orderId)
<1> DEFINE c == InsertOrder(b, o)
<1> SUFFICES ASSUME NEW p, NEW i, NEW r, NEW j,
                    HasSlot(c, "BUY", p, i), HasSlot(c, "SELL", r, j), p >= r
             PROVE  o.orderId \in {At(c, "BUY", p, i).orderId,
                                   At(c, "SELL", r, j).orderId}
  BY DEF MeetsOnly
<1>1. ~ (HasSlot(b, "BUY", p, i) /\ HasSlot(b, "SELL", r, j))
  <2> SUFFICES ASSUME HasSlot(b, "BUY", p, i), HasSlot(b, "SELL", r, j)
               PROVE  FALSE
    OBVIOUS
  <2>1. p \in Int /\ r \in Int
    BY SlotTypes, BookAssumption
  <2>2. p < r
    BY DEF Uncrossed, HasSlot
  <2> QED
    BY <2>1, <2>2
<1> QED
  BY <1>1, InsertSlots

(***************************************************************************)
(* addOrder with a fresh id.                                               *)
(***************************************************************************)
LEMMA AddOrderKeeps ==
  ASSUME NEW b, Good(b), Uncrossed(b),
         NEW id \in OrderIds, id \notin DOMAIN b.orderMap,
         NEW side \in Side, NEW price \in Prices, NEW quantity \in Int,
         NEW timestamp \in Timestamps
  PROVE  LET c == AddOrder(b, id, side, price, quantity, timestamp)
         IN  /\ Good(c)
             /\ MeetsOnly(c, id)
             /\ DOMAIN c.orderMap = DOMAIN b.orderMap \cup {id}
             /\ c.nodes = b.nodes + 1
             /\ c.stats.totalVolume = b.stats.totalVolume
<1> DEFINE o == NewOrder(b, id, side, price, quantity, timestamp)
           d == InsertOrder(b, o)
           st == [d.stats EXCEPT !.totalOrders = @ + 1]
           c == AddOrder(b, id, side, price, quantity, timestamp)
<1>1. IsBook(b)
  BY DEF Good
<1>2. /\ o \in Order
      /\ o.orderId = id /\ o.node = b.nodes
  BY <1>1 DEF NewOrder, Order, IsBook
<1> HIDE DEF o
<1>3. Good(d) /\ MeetsOnly(d, id)
  BY <1>1, <1>2, InsertKeepsGood, InsertMeetsOnly
<1>4. /\ DOMAIN d.orderMap = DOMAIN b.orderMap \cup {id}
      /\ d.nodes = b.nodes + 1 /\ d.stats = b.stats
  <2>1. /\ d.orderMap = Put(b.orderMap, o.orderId,
                        [side |-> o.side, price |-> o.price, it |-> o.node])
        /\ d.nodes = b.nodes + 1 /\ d.stats = b.stats
    BY <1>1, <1>2, InsertEffect
  <2> QED
    BY <1>2, <2>1 DEF Put
<1>5. d.stats \in SymbolStats /\ IsBook(d) /\ WellFormed(d)
  BY <1>3 DEF Good, IsBook
<1> HIDE DEF d
<1>6. st \in SymbolStats /\ st.totalVolume = b.stats.totalVolume
  BY <1>4, <1>5 DEF SymbolStats
<1>7. c = [d EXCEPT !.stats = st]
  BY DEF AddOrder, d, o
<1> HIDE DEF c, st
<1>8. /\ Good(c) /\ Shrunk(c, d) /\ c.orderMap = d.orderMap
      /\ c.nodes = d.nodes /\ c.stats = st
  BY <1>5, <1>6, <1>7, StatsEffect DEF Good
<1>9. MeetsOnly(c, id)
  BY <1>3, <1>8, ShrunkMeetsOnly
<1> QED
  BY <1>4, <1>6, <1>8, <1>9 DEF c

-----------------------------------------------------------------------------
(* cancelOrder and modifyOrder *)

(***************************************************************************)
(* The stored iterator of an indexed order leads to that order.            *)
(***************************************************************************)
LEMMA PlaceOfIndexed ==
  ASSUME NEW b, Good(b), NEW id \in DOMAIN b.orderMap
  PROVE  LET loc == b.orderMap[id]
             i == PlaceOf(b.levels[loc.side][loc.price], loc.it)
         IN  /\ HasSlot(b, loc.side, loc.price, i)
             /\ At(b, loc.side, loc.price, i).orderId = id
<1> DEFINE loc == b.orderMap[id]
           q == b.levels[loc.side][loc.price]
           i == PlaceOf(q, loc.it)
<1>1. IsBook(b) /\ EntriesHaveSlots(b) /\ SlotsAreOrdered(b)
  BY WellFormedSlots DEF Good
<1>2. PICK s, p, j : /\ HasSlot(b, s, p, j)
                     /\ At(b, s, p, j).orderId = id
                     /\ loc = LocationOf(b, s, p, j)
  BY <1>1 DEF EntriesHaveSlots
<1>3. loc.side = s /\ loc.price = p /\ loc.it = At(b, s, p, j).node
  BY <1>2 DEF LocationOf
<1>4. j \in DOMAIN q /\ q[j].node = loc.it
  BY <1>2, <1>3 DEF HasSlot, At
<1>5. i \in DOMAIN q /\ q[i].node = loc.it
  BY <1>4 DEF PlaceOf
<1>6. HasSlot(b, s, p, i) /\ At(b, s, p, i).node = At(b, s, p, j).node
  BY <1>2, <1>3, <1>5 DEF HasSlot, At
<1> HIDE DEF i
<1>7. i \in Nat /\ j \in Nat /\ At(b, s, p, j).node \in Nat
  BY <1>1, <1>2, <1>6, SlotTypes
<1>8. ~ (i < j) /\ ~ (j < i)
  BY <1>1, <1>2, <1>6, <1>7 DEF SlotsAreOrdered
<1>9. i = j
  BY <1>7, <1>8
<1> QED
  BY <1>2, <1>3, <1>6, <1>9 DEF i

(***************************************************************************)
(* Erasing an indexed order by its location and forgetting its id.         *)
(***************************************************************************)
LEMMA RemoveByLocationKeeps ==
  ASSUME NEW b, Good(b), NEW id \in DOMAIN b.orderMap
  PROVE  LET c == Forget(RemoveByLocation(b, b.orderMap[id]), id)
         IN  /\ Good(c)
             /\ Shrunk(c, b)
             /\ DOMAIN c.orderMap = DOMAIN b.orderMap \ {id}
             /\ c.nodes = b.nodes /\ c.stats = b.stats
<1> DEFINE loc == b.orderMap[id]
           s == loc.side
           p == loc.price
           i == PlaceOf(b.levels[s][p], loc.it)
           c == Forget(RemoveByLocation(b, loc), id)
<1>1. HasSlot(b, s, p, i) /\ At(b, s, p, i).orderId = id
  BY PlaceOfIndexed
<1>2. c = Removed(b, s, p, i)
  BY <1>1 DEF RemoveByLocation, Removed, HasSlot
<1> HIDE DEF s, p, i, c
<1>3. IsBook(b)
  BY DEF Good
<1>4. Good(c) /\ Shrunk(c, b)
  BY <1>1, <1>2, <1>3, RemoveKeepsGood, RemovedShrunk
<1>5. /\ c.orderMap = Drop(b.orderMap, id)
      /\ c.nodes = b.nodes /\ c.stats = b.stats
  BY <1>1, <1>2, <1>3, RemoveEffect
<1>6. DOMAIN c.orderMap = DOMAIN b.orderMap \ {id}
  BY <1>5 DEF Drop, Restrict
<1> QED
  BY <1>4, <1>5, <1>6 DEF c

(***************************************************************************)
(* cancelOrder, of whatever id.                                            *)
(***************************************************************************)
LEMMA CancelOrderKeeps ==
  ASSUME NEW b, Good(b), Uncrossed(b), NEW id
  PROVE  LET c == CancelOrder(b, id)
         IN  /\ Good(c)
             /\ Uncrossed(c)
             /\ DOMAIN c.orderMap = DOMAIN b.orderMap \ {id}
             /\ c.nodes = b.nodes /\ c.stats = b.stats
<1>1. CASE id \in DOMAIN b.orderMap
  <2> DEFINE c == Forget(RemoveByLocation(b, b.orderMap[id]), id)
  <2>1. /\ Good(c)
        /\ Shrunk(c, b)
        /\ DOMAIN c.orderMap = DOMAIN b.orderMap \ {id}
        /\ c.nodes = b.nodes /\ c.stats = b.stats
    BY <1>1, RemoveByLocationKeeps
  <2>2. CancelOrder(b, id) = c
    BY <1>1 DEF CancelOrder
  <2> HIDE DEF c
  <2>3. Uncrossed(c)
    BY <2>1, ShrunkUncrossed DEF Good
  <2> QED
    BY <2>1, <2>2, <2>3
<1>2. CASE id \notin DOMAIN b.orderMap
  BY <1>2 DEF CancelOrder
<1> QED
  BY <1>1, <1>2

(***************************************************************************)
(* modifyOrder, of whatever id: only the modified order may meet others.   *)
(***************************************************************************)
LEMMA ModifyOrderKeeps ==
  ASSUME NEW b, Good(b), Uncrossed(b), NEW id \in OrderIds,
         NEW quantity \in Int, NEW price \in Prices, NEW timestamp \in Timestamps
  PROVE  LET c == ModifyOrder(b, id, quantity, price, timestamp)
         IN  /\ Good(c)
             /\ MeetsOnly(c, id)
             /\ DOMAIN c.orderMap = DOMAIN b.orderMap
             /\ c.nodes \in {b.nodes, b.nodes + 1}
             /\ c.stats = b.stats
<1> DEFINE c == ModifyOrder(b, id, quantity, price, timestamp)
<1>1. IsBook(b)
  BY DEF Good
<1>2. CASE id \notin DOMAIN b.orderMap
  <2>1. c = b
    BY <1>2 DEF ModifyOrder
  <2> QED
    BY <1>1, <2>1, UncrossedMeetsOnly
<1>3. CASE id \in DOMAIN b.orderMap
  <2> DEFINE loc == b.orderMap[id]
             s == loc.side
             p == loc.price
             i == PlaceOf(b.levels[s][p], loc.it)
             existing == At(b, s, p, i)
             gone == Forget(RemoveByLocation(b, loc), id)
             o == NewOrder(gone, id, existing.side, price, quantity, timestamp)
  <2>1. HasSlot(b, s, p, i) /\ existing.orderId = id
    BY <1>3, PlaceOfIndexed
  <2>2. c = IF KeepsPriority(existing, quantity, price)
            THEN SetQuantity(b, s, p, i, quantity)
            ELSE InsertOrder(gone, o)
    BY <1>3 DEF ModifyOrder, At
  <2>3. /\ Good(gone)
        /\ Shrunk(gone, b)
        /\ DOMAIN gone.orderMap = DOMAIN b.orderMap \ {id}
        /\ gone.nodes = b.nodes /\ gone.stats = b.stats
    BY <1>3, RemoveByLocationKeeps
  <2>4. existing \in Order
    BY <1>1, <2>1, SlotTypes
  <2> HIDE DEF c, s, p, i, gone
  <2>5. CASE KeepsPriority(existing, quantity, price)
    <3>1. c = SetQuantity(b, s, p, i, quantity)
      BY <2>2, <2>5
    <3>2. /\ Good(c) /\ Shrunk(c, b)
          /\ c.orderMap = b.orderMap
          /\ c.nodes = b.nodes /\ c.stats = b.stats
      BY <1>1, <2>1, <3>1, SetKeepsGood, SetShrunk, SetEffect
    <3> QED
      BY <1>1, <3>2, UncrossedMeetsOnly, ShrunkMeetsOnly DEF c
  <2>6. CASE ~ KeepsPriority(existing, quantity, price)
    <3>1. c = InsertOrder(gone, o)
      BY <2>2, <2>6
    <3>2. /\ IsBook(gone)
          /\ o \in Order
          /\ o.orderId = id /\ o.node = gone.nodes
      BY <2>3, <2>4 DEF NewOrder, Order, Good, IsBook
    <3>3. Uncrossed(gone)
      BY <1>1, <2>3, ShrunkUncrossed
    <3> HIDE DEF o
    <3>4. Good(c) /\ MeetsOnly(c, id)
      BY <2>3, <3>1, <3>2, <3>3, InsertKeepsGood, InsertMeetsOnly
    <3>5. /\ DOMAIN c.orderMap = DOMAIN b.orderMap
          /\ c.nodes = b.nodes + 1 /\ c.stats = b.stats
      <4>1. /\ c.orderMap = Put(gone.orderMap, o.orderId,
                  [side |-> o.side, price |-> o.price, it |-> o.node])
            /\ c.nodes = gone.nodes + 1 /\ c.stats = gone.stats
        BY <3>1, <3>2, InsertEffect
      <4>2. DOMAIN c.orderMap = DOMAIN gone.orderMap \cup {id}
        BY <3>2, <4>1 DEF Put
      <4> QED
        BY <1>3, <2>3, <4>1, <4>2
    <3> QED
      BY <3>4, <3>5 DEF c
  <2> QED
    BY <2>5, <2>6
<1> QED
  BY <1>2, <1>3

-----------------------------------------------------------------------------
(* matchOrders *)

(***************************************************************************)
(* The front order of a level gives any quantity.                          *)
(***************************************************************************)
LEMMA TakeFrontKeeps ==
  ASSUME NEW b, Good(b), NEW s \in Side, NEW p \in DOMAIN b.levels[s], NEW n \in Int
  PROVE  LET c == TakeFront(b, s, p, n)
         IN  /\ Good(c)
             /\ Shrunk(c, b)
             /\ DOMAIN c.orderMap \subseteq DOMAIN b.orderMap
             /\ \A t \in Side \ {s} : c.levels[t] = b.levels[t]
             /\ c.stats = b.stats /\ c.nodes = b.nodes
<1> DEFINE c == TakeFront(b, s, p, n)
           front == At(b, s, p, 1)
<1>1. IsBook(b) /\ NoEmptyLevel(b)
  BY DEF Good, WellFormed
<1>2. HasSlot(b, s, p, 1)
  <2>1. b.levels[s][p] \in Seq(Order) /\ b.levels[s][p] # <<>>
    BY <1>1 DEF IsBook, IsMap, NoEmptyLevel
  <2> QED
    BY <2>1, EmptySeq, LenProperties DEF HasSlot
<1>3. Head(b.levels[s][p]) = front
  BY DEF At
<1>4. front \in Order /\ front.quantity \in Int
  BY <1>1, <1>2, SlotTypes DEF Order
<1>5. c = IF front.quantity = n THEN Removed(b, s, p, 1)
          ELSE SetQuantity(b, s, p, 1, front.quantity - n)
  BY <1>3 DEF TakeFront, Removed
<1> HIDE DEF c, front
<1>6. CASE front.quantity = n
  <2>1. c = Removed(b, s, p, 1)
    BY <1>5, <1>6
  <2>2. Good(c) /\ Shrunk(c, b)
    BY <1>1, <1>2, <2>1, RemoveKeepsGood, RemovedShrunk
  <2>3. /\ c.orderMap = Drop(b.orderMap, At(b, s, p, 1).orderId)
        /\ \A t \in Side \ {s} : c.levels[t] = b.levels[t]
        /\ c.stats = b.stats /\ c.nodes = b.nodes
    BY <1>1, <1>2, <2>1, RemoveEffect
  <2>4. DOMAIN c.orderMap \subseteq DOMAIN b.orderMap
    BY <2>3 DEF Drop, Restrict
  <2> QED
    BY <2>2, <2>3, <2>4 DEF c
<1>7. CASE front.quantity # n
  <2>1. front.quantity - n \in Int
    BY <1>4
  <2>2. c = SetQuantity(b, s, p, 1, front.quantity - n)
    BY <1>5, <1>7
  <2>3. Good(c) /\ Shrunk(c, b)
    BY <1>1, <1>2, <2>1, <2>2, SetKeepsGood, SetShrunk
  <2>4. /\ c.orderMap = b.orderMap
        /\ \A t \in Side \ {s} : c.levels[t] = b.levels[t]
        /\ c.stats = b.stats /\ c.nodes = b.nodes
    BY <1>1, <1>2, <2>1, <2>2, SetEffect
  <2> QED
    BY <2>3, <2>4 DEF c
<1> QED
  BY <1>6, <1>7

(***************************************************************************)
(* One iteration of matchOrders, and who takes part in its trade.          *)
(***************************************************************************)
LEMMA FillKeeps ==
  ASSUME NEW b, Good(b), NEW bp, NEW ap, Crosses(b, bp, ap)
  PROVE  LET c == Fill(b, bp, ap)
         IN  /\ Good(c)
             /\ Shrunk(c, b)
             /\ DOMAIN c.orderMap \subseteq DOMAIN b.orderMap
             /\ c.nodes = b.nodes
             /\ c.stats.totalTrades = b.stats.totalTrades + 1
             /\ c.stats.totalVolume =
                  (b.stats.totalVolume
                     + TradeQuantity(Head(b.levels["BUY"][bp]),
                                     Head(b.levels["SELL"][ap]))) % VolumeModulus
<1> DEFINE bid == Head(b.levels["BUY"][bp])
           ask == Head(b.levels["SELL"][ap])
           n == TradeQuantity(bid, ask)
           d == TakeFront(b, "BUY", bp, n)
           e == TakeFront(d, "SELL", ap, n)
           st == [totalOrders |-> e.stats.totalOrders,
                  totalTrades |-> e.stats.totalTrades + 1,
                  totalVolume |-> (e.stats.totalVolume + n) % VolumeModulus]
           c == Fill(b, bp, ap)
<1>1. /\ bp \in DOMAIN b.levels["BUY"] /\ ap \in DOMAIN b.levels["SELL"]
      /\ "BUY" \in Side /\ "SELL" \in Side
  BY DEF Crosses, IsBest, Side
<1>2. bid \in Order /\ ask \in Order
  <2>1. /\ b.levels["BUY"][bp] \in Seq(Order) /\ b.levels["BUY"][bp] # <<>>
        /\ b.levels["SELL"][ap] \in Seq(Order) /\ b.levels["SELL"][ap] # <<>>
    BY <1>1 DEF Good, WellFormed, IsBook, IsMap, NoEmptyLevel
  <2> QED
    BY <2>1, HeadTailProperties
<1>3. n \in Int
  BY <1>2 DEF TradeQuantity, Order
<1>4. c = [e EXCEPT !.stats = st]
  BY DEF Fill
<1> HIDE DEF n, c
<1>5. /\ Good(d)
      /\ Shrunk(d, b)
      /\ DOMAIN d.orderMap \subseteq DOMAIN b.orderMap
      /\ d.levels["SELL"] = b.levels["SELL"] /\ d.nodes = b.nodes
      /\ d.stats = b.stats
  BY <1>1, <1>3, TakeFrontKeeps
<1> HIDE DEF d
<1>6. /\ Good(e)
      /\ Shrunk(e, d)
      /\ DOMAIN e.orderMap \subseteq DOMAIN d.orderMap
      /\ e.nodes = d.nodes /\ e.stats = d.stats
  BY <1>1, <1>3, <1>5, TakeFrontKeeps
<1>7. IsBook(e) /\ WellFormed(e) /\ e.stats \in SymbolStats
  BY <1>6 DEF Good, IsBook
<1> HIDE DEF e
<1>8. st \in SymbolStats
  <2>1. /\ e.stats.totalOrders \in Nat
        /\ e.stats.totalTrades \in Nat
        /\ e.stats.totalVolume \in Nat
    BY <1>7 DEF SymbolStats
  <2>2. (e.stats.totalVolume + n) % VolumeModulus \in Nat
    BY <1>3, <2>1, BookAssumption
  <2> QED
    BY <2>1, <2>2 DEF SymbolStats
<1>9. /\ st.totalTrades = b.stats.totalTrades + 1
      /\ st.totalVolume = (b.stats.totalVolume + n) % VolumeModulus
  BY <1>5, <1>6
<1> HIDE DEF st
<1>10. c.stats = st
  BY <1>4, <1>7 DEF IsBook
<1>11. Good(c) /\ Shrunk(c, e) /\ c.orderMap = e.orderMap /\ c.nodes = e.nodes
  BY <1>4, <1>7, <1>8, StatsEffect DEF Good
<1>12. Shrunk(c, b)
  BY <1>5, <1>6, <1>11, ShrunkTransitive
<1> QED
  BY <1>5, <1>6, <1>9, <1>10, <1>11, <1>12 DEF c, n

(***************************************************************************)
(* The best bid and ask are orders of the book, on their own sides, and    *)
(* one of them is the one order that may meet others.                      *)
(***************************************************************************)
LEMMA FrontsOfCrossed ==
  ASSUME NEW b, Good(b), NEW bp, NEW ap, Crosses(b, bp, ap),
         NEW id, MeetsOnly(b, id)
  PROVE  LET bid == Head(b.levels["BUY"][bp])
             ask == Head(b.levels["SELL"][ap])
         IN  /\ bid \in Order /\ ask \in Order
             /\ bid.side = "BUY" /\ ask.side = "SELL"
             /\ id \in {bid.orderId, ask.orderId}
<1>1. /\ bp \in DOMAIN b.levels["BUY"] /\ ap \in DOMAIN b.levels["SELL"]
      /\ bp >= ap
      /\ "BUY" \in Side /\ "SELL" \in Side
  BY DEF Crosses, IsBest, Side
<1>2. HasSlot(b, "BUY", bp, 1) /\ HasSlot(b, "SELL", ap, 1)
  <2>1. /\ b.levels["BUY"][bp] \in Seq(Order) /\ b.levels["BUY"][bp] # <<>>
        /\ b.levels["SELL"][ap] \in Seq(Order) /\ b.levels["SELL"][ap] # <<>>
    BY <1>1 DEF Good, WellFormed, IsBook, IsMap, NoEmptyLevel
  <2> QED
    BY <1>1, <2>1, EmptySeq, LenProperties DEF HasSlot
<1>3. /\ Head(b.levels["BUY"][bp]) = At(b, "BUY", bp, 1)
      /\ Head(b.levels["SELL"][ap]) = At(b, "SELL", ap, 1)
  BY DEF At
<1>4. IsBook(b) /\ SlotsAreRight(b)
  BY WellFormedSlots DEF Good
<1> QED
  BY <1>1, <1>2, <1>3, <1>4, SlotTypes DEF SlotsAreRight, MeetsOnly

-----------------------------------------------------------------------------
(* The orders of a book as a set: what each operation does to it, wherever *)
(* in the queues the orders stand.                                         *)

LEMMA RestingSlots ==
  ASSUME NEW b
  PROVE  \A o : o \in Resting(b) <=>
                  \E s, p, i : HasSlot(b, s, p, i) /\ At(b, s, p, i) = o
<1>1. \A s \in Side : \A o :
        o \in OrdersOn(b, s) <=> \E p, i : HasSlot(b, s, p, i) /\ At(b, s, p, i) = o
  BY DEF OrdersOn, Range, HasSlot, At
<1> QED
  BY <1>1 DEF Resting, Side, HasSlot

(***************************************************************************)
(* A resting order is on its side's map, in an allocated node, and indexed;*)
(* no other has its id.                                                    *)
(***************************************************************************)
LEMMA RestingFacts ==
  ASSUME NEW b, Good(b)
  PROVE  /\ \A o \in Resting(b) :
              /\ o \in Order /\ o.node < b.nodes
              /\ o.orderId \in DOMAIN b.orderMap
         /\ \A o, q \in Resting(b) : o.orderId = q.orderId => o = q
<1>1. IsBook(b) /\ SlotsAreRight(b)
  BY WellFormedSlots DEF Good
<1>2. ASSUME NEW o \in Resting(b)
      PROVE  o \in Order /\ o.node < b.nodes /\ o.orderId \in DOMAIN b.orderMap
  <2>1. PICK s, p, i : HasSlot(b, s, p, i) /\ At(b, s, p, i) = o
    BY RestingSlots
  <2> QED
    BY <1>1, <2>1, SlotTypes DEF SlotsAreRight
<1>3. ASSUME NEW o \in Resting(b), NEW q \in Resting(b), o.orderId = q.orderId
      PROVE  o = q
  <2>1. PICK s, p, i : HasSlot(b, s, p, i) /\ At(b, s, p, i) = o
    BY RestingSlots
  <2>2. PICK t, r, j : HasSlot(b, t, r, j) /\ At(b, t, r, j) = q
    BY RestingSlots
  <2> QED
    BY <1>3, <2>1, <2>2, SlotOfId
<1> QED
  BY <1>2, <1>3

LEMMA IndexedRests ==
  ASSUME NEW b, Good(b), NEW id \in DOMAIN b.orderMap
  PROVE  \E o \in Resting(b) : o.orderId = id
<1>1. EntriesHaveSlots(b)
  BY WellFormedSlots DEF Good
<1> QED
  BY <1>1, RestingSlots DEF EntriesHaveSlots

\* Resting looks at the levels only.
LEMMA RestingOfLevels ==
  ASSUME NEW b, NEW c, c.levels = b.levels
  PROVE  Resting(c) = Resting(b)
  BY DEF Resting, OrdersOn

LEMMA InsertResting ==
  ASSUME NEW b, IsBook(b), NEW o \in Order
  PROVE  Resting(InsertOrder(b, o)) = Resting(b) \cup {o}
<1> DEFINE c == InsertOrder(b, o)
           n == Len(QueueAt(b.levels[o.side], o.price)) + 1
<1>1. /\ HasSlot(c, o.side, o.price, n)
      /\ At(c, o.side, o.price, n) = o
      /\ \A s, p, i : HasSlot(b, s, p, i) =>
           HasSlot(c, s, p, i) /\ At(c, s, p, i) = At(b, s, p, i)
      /\ \A s, p, i : HasSlot(c, s, p, i) =>
           \/ s = o.side /\ p = o.price /\ i = n
           \/ HasSlot(b, s, p, i)
  BY InsertSlots
<1> HIDE DEF c, n
<1>2. \A q : q \in Resting(c) <=> q \in Resting(b) \/ q = o
  BY <1>1, RestingSlots
<1> QED
  BY <1>2 DEF c

LEMMA RemoveResting ==
  ASSUME NEW b, Good(b), NEW s, NEW p, NEW i, HasSlot(b, s, p, i)
  PROVE  Resting(Removed(b, s, p, i)) = Resting(b) \ {At(b, s, p, i)}
<1> DEFINE c == Removed(b, s, p, i)
           o == At(b, s, p, i)
<1>1. IsBook(b)
  BY DEF Good
<1>2. /\ \A t, r, j : HasSlot(c, t, r, j) =>
           LET k == OldPlace(s, p, i, t, r, j)
           IN  /\ HasSlot(b, t, r, k)
               /\ At(c, t, r, j) = At(b, t, r, k)
               /\ ~ (t = s /\ r = p /\ k = i)
      /\ \A t, r, k : HasSlot(b, t, r, k) /\ ~ (t = s /\ r = p /\ k = i) =>
           \E j : HasSlot(c, t, r, j) /\ At(c, t, r, j) = At(b, t, r, k)
  BY <1>1, RemoveSlots
<1>3. \A t, r, k : HasSlot(b, t, r, k) /\ At(b, t, r, k) = o =>
                     t = s /\ r = p /\ k = i
  BY SlotOfId
<1> HIDE DEF c, o
<1>4. ASSUME NEW q \in Resting(c)
      PROVE  q \in Resting(b) /\ q # o
  <2>1. PICK t, r, j : HasSlot(c, t, r, j) /\ At(c, t, r, j) = q
    BY RestingSlots
  <2> QED
    BY <1>2, <1>3, <2>1, RestingSlots
<1>5. ASSUME NEW q \in Resting(b), q # o
      PROVE  q \in Resting(c)
  <2>1. PICK t, r, k : HasSlot(b, t, r, k) /\ At(b, t, r, k) = q
    BY RestingSlots
  <2>2. ~ (t = s /\ r = p /\ k = i)
    BY <1>5, <2>1 DEF o
  <2> QED
    BY <1>2, <2>1, <2>2, RestingSlots
<1> QED
  BY <1>4, <1>5 DEF c, o

LEMMA SetResting ==
  ASSUME NEW b, Good(b), NEW s, NEW p, NEW i, HasSlot(b, s, p, i), NEW n \in Int
  PROVE  LET o == At(b, s, p, i)
         IN  Resting(SetQuantity(b, s, p, i, n)) =
               (Resting(b) \ {o}) \cup {[o EXCEPT !.quantity = n]}
<1> DEFINE c == SetQuantity(b, s, p, i, n)
           o == At(b, s, p, i)
           new == [o EXCEPT !.quantity = n]
<1>1. IsBook(b)
  BY DEF Good
<1>2. /\ \A t, r, j : HasSlot(c, t, r, j) <=> HasSlot(b, t, r, j)
      /\ \A t, r, j : HasSlot(b, t, r, j) =>
           At(c, t, r, j) = IF t = s /\ r = p /\ j = i THEN new
                            ELSE At(b, t, r, j)
  BY <1>1, SetEffect
<1>3. \A t, r, k : HasSlot(b, t, r, k) /\ At(b, t, r, k) = o =>
                     t = s /\ r = p /\ k = i
  BY SlotOfId
<1> HIDE DEF c, new
<1>4. ASSUME NEW q \in Resting(c)
      PROVE  q = new \/ (q \in Resting(b) /\ q # o)
  <2>1. PICK t, r, j : HasSlot(c, t, r, j) /\ At(c, t, r, j) = q
    BY RestingSlots
  <2> HIDE DEF o
  <2> QED
    BY <1>2, <1>3, <2>1, RestingSlots
<1>5. ASSUME NEW q \in Resting(b), q # o
      PROVE  q \in Resting(c)
  <2>1. PICK t, r, k : HasSlot(b, t, r, k) /\ At(b, t, r, k) = q
    BY RestingSlots
  <2>2. ~ (t = s /\ r = p /\ k = i)
    BY <1>5, <2>1
  <2> QED
    BY <1>2, <2>1, <2>2, RestingSlots
<1>6. new \in Resting(c)
  BY <1>2, RestingSlots
<1> QED
  BY <1>4, <1>5, <1>6 DEF c, new

(***************************************************************************)
(* addOrder, cancelOrder, modifyOrder.                                     *)
(***************************************************************************)
LEMMA AddOrderResting ==
  ASSUME NEW b, IsBook(b), NEW id \in OrderIds, NEW side \in Side,
         NEW price \in Prices, NEW quantity \in Int, NEW timestamp \in Timestamps
  PROVE  Resting(AddOrder(b, id, side, price, quantity, timestamp)) =
           Resting(b) \cup {NewOrder(b, id, side, price, quantity, timestamp)}
<1> DEFINE o == NewOrder(b, id, side, price, quantity, timestamp)
           d == InsertOrder(b, o)
<1>1. o \in Order
  BY DEF NewOrder, Order, IsBook
<1>2. AddOrder(b, id, side, price, quantity, timestamp).levels = d.levels
  BY DEF AddOrder, InsertOrder
<1> HIDE DEF o
<1> QED
  BY <1>1, <1>2, InsertResting, RestingOfLevels DEF o

\* An indexed order, and the book without it.
LEMMA RemoveByLocationResting ==
  ASSUME NEW b, Good(b), NEW id \in DOMAIN b.orderMap
  PROVE  LET loc == b.orderMap[id]
             o == b.levels[loc.side][loc.price]
                    [PlaceOf(b.levels[loc.side][loc.price], loc.it)]
         IN  /\ o \in Resting(b) /\ o.orderId = id
             /\ Resting(Forget(RemoveByLocation(b, loc), id)) = Resting(b) \ {o}
<1> DEFINE loc == b.orderMap[id]
           s == loc.side
           p == loc.price
           i == PlaceOf(b.levels[s][p], loc.it)
           c == Forget(RemoveByLocation(b, loc), id)
<1>1. HasSlot(b, s, p, i) /\ At(b, s, p, i).orderId = id
  BY PlaceOfIndexed
<1>2. c = Removed(b, s, p, i)
  BY <1>1 DEF RemoveByLocation, Removed, HasSlot
<1>3. b.levels[s][p][i] = At(b, s, p, i)
  BY DEF At
<1> HIDE DEF s, p, i, c
<1>4. At(b, s, p, i) \in Resting(b) /\ Resting(c) = Resting(b) \ {At(b, s, p, i)}
  BY <1>1, <1>2, RemoveResting, RestingSlots
<1> QED
  BY <1>1, <1>3, <1>4 DEF c, s, p, i

LEMMA CancelOrderResting ==
  ASSUME NEW b, Good(b), NEW id
  PROVE  Resting(CancelOrder(b, id)) = {o \in Resting(b) : o.orderId # id}
<1>1. CASE id \in DOMAIN b.orderMap
  <2> DEFINE loc == b.orderMap[id]
             o == b.levels[loc.side][loc.price]
                    [PlaceOf(b.levels[loc.side][loc.price], loc.it)]
             c == Forget(RemoveByLocation(b, loc), id)
  <2>1. o \in Resting(b) /\ o.orderId = id /\ Resting(c) = Resting(b) \ {o}
    BY <1>1, RemoveByLocationResting
  <2> HIDE DEF o
  <2>2. \A q \in Resting(b) : q.orderId = id => q = o
    BY <2>1, RestingFacts
  <2>3. Resting(CancelOrder(b, id)) = Resting(b) \ {o}
    BY <1>1, <2>1 DEF CancelOrder
  <2> QED
    BY <2>1, <2>2, <2>3
<1>2. CASE id \notin DOMAIN b.orderMap
  <2>1. CancelOrder(b, id) = b
    BY <1>2 DEF CancelOrder
  <2>2. \A o \in Resting(b) : o.orderId # id
    BY <1>2, RestingFacts
  <2> QED
    BY <2>1, <2>2
<1> QED
  BY <1>1, <1>2

(***************************************************************************)
(* The modify table: nothing for an unknown order, a smaller quantity at   *)
(* the same price in place, a new place for anything else.                 *)
(***************************************************************************)
LEMMA ModifyOrderResting ==
  ASSUME NEW b, Good(b), NEW id \in OrderIds,
         NEW quantity \in Int, NEW price \in Prices, NEW timestamp \in Timestamps
  PROVE  LET c == ModifyOrder(b, id, quantity, price, timestamp)
         IN  \/ /\ \A o \in Resting(b) : o.orderId # id
                /\ Resting(c) = Resting(b) /\ c.nodes = b.nodes
             \/ \E o \in Resting(b) :
                  /\ o.orderId = id /\ KeepsPriority(o, quantity, price)
                  /\ Resting(c) =
                       (Resting(b) \ {o}) \cup {[o EXCEPT !.quantity = quantity]}
                  /\ c.nodes = b.nodes
             \/ \E o \in Resting(b) :
                  /\ o.orderId = id /\ ~ KeepsPriority(o, quantity, price)
                  /\ Resting(c) = (Resting(b) \ {o}) \cup
                       {NewOrder(b, id, o.side, price, quantity, timestamp)}
                  /\ c.nodes = b.nodes + 1
<1> DEFINE c == ModifyOrder(b, id, quantity, price, timestamp)
<1>1. CASE id \notin DOMAIN b.orderMap
  <2>1. c = b
    BY <1>1 DEF ModifyOrder
  <2>2. \A o \in Resting(b) : o.orderId # id
    BY <1>1, RestingFacts
  <2> QED
    BY <2>1, <2>2
<1>2. CASE id \in DOMAIN b.orderMap
  <2> DEFINE loc == b.orderMap[id]
             s == loc.side
             p == loc.price
             i == PlaceOf(b.levels[s][p], loc.it)
             existing == b.levels[s][p][i]
             gone == Forget(RemoveByLocation(b, loc), id)
             o == NewOrder(gone, id, existing.side, price, quantity, timestamp)
  <2>1. /\ HasSlot(b, s, p, i) /\ At(b, s, p, i) = existing
        /\ existing.orderId = id
    BY <1>2, PlaceOfIndexed DEF At
  <2>2. existing \in Resting(b) /\ Resting(gone) = Resting(b) \ {existing}
    BY <1>2, RemoveByLocationResting
  <2>3. existing \in Order
    BY <2>2, RestingFacts
  <2>4. c = IF KeepsPriority(existing, quantity, price)
            THEN SetQuantity(b, s, p, i, quantity) ELSE InsertOrder(gone, o)
    BY <1>2 DEF ModifyOrder
  <2>5. Good(gone) /\ gone.nodes = b.nodes
    BY <1>2, RemoveByLocationKeeps
  <2> HIDE DEF c, s, p, i, existing, gone
  <2>6. CASE KeepsPriority(existing, quantity, price)
    <3>1. c = SetQuantity(b, s, p, i, quantity)
      BY <2>4, <2>6
    <3>2. Resting(c) = (Resting(b) \ {existing})
                         \cup {[existing EXCEPT !.quantity = quantity]}
      BY <2>1, <3>1, SetResting
    <3>3. c.nodes = b.nodes
      BY <2>1, <3>1, SetEffect DEF Good
    <3> QED
      BY <2>1, <2>2, <2>6, <3>2, <3>3 DEF c
  <2>7. CASE ~ KeepsPriority(existing, quantity, price)
    <3>1. c = InsertOrder(gone, o)
      BY <2>4, <2>7
    <3>2. o \in Order /\ IsBook(gone)
      BY <2>3, <2>5 DEF NewOrder, Order, Good, IsBook
    <3>3. o = NewOrder(b, id, existing.side, price, quantity, timestamp)
      BY <2>5 DEF NewOrder
    <3> HIDE DEF o
    <3>4. Resting(c) = Resting(gone) \cup {o} /\ c.nodes = gone.nodes + 1
      BY <3>1, <3>2, InsertResting, InsertEffect
    <3> QED
      BY <2>1, <2>2, <2>5, <2>7, <3>3, <3>4 DEF c
  <2> QED
    BY <2>6, <2>7
<1> QED
  BY <1>1, <1>2

(***************************************************************************)
(* matchOrders: the fronts of the two best levels are the first of their   *)
(* sides, and what they do not trade is left of them.                      *)
(***************************************************************************)
Leftover(o, n) ==
  IF o.quantity = n THEN {} ELSE {[o EXCEPT !.quantity = @ - n]}

LEMMA FrontRests ==
  ASSUME NEW b, Good(b), NEW s \in Side, NEW p \in DOMAIN b.levels[s]
  PROVE  LET o == Head(b.levels[s][p])
         IN  /\ HasSlot(b, s, p, 1) /\ At(b, s, p, 1) = o
             /\ o \in Resting(b) /\ o.side = s /\ o.price = p
<1>1. IsBook(b) /\ NoEmptyLevel(b) /\ SlotsAreRight(b)
  BY WellFormedSlots DEF Good, WellFormed
<1>2. b.levels[s][p] \in Seq(Order) /\ b.levels[s][p] # <<>>
  BY <1>1 DEF IsBook, IsMap, NoEmptyLevel
<1>3. HasSlot(b, s, p, 1) /\ At(b, s, p, 1) = Head(b.levels[s][p])
  BY <1>2, EmptySeq, LenProperties DEF HasSlot, At
<1> QED
  BY <1>1, <1>3, RestingSlots DEF SlotsAreRight

LEMMA FrontIsFirst ==
  ASSUME NEW b, Good(b), NEW s \in Side, NEW p, IsBest(b, s, p)
  PROVE  LET o == Head(b.levels[s][p])
         IN  \A q \in Resting(b) \ {o} :
               q.side = s =>
                 \/ IF s = "BUY" THEN q.price < p ELSE p < q.price
                 \/ q.price = p /\ o.node < q.node
<1> DEFINE o == Head(b.levels[s][p])
<1>1. IsBook(b) /\ SlotsAreRight(b) /\ SlotsAreOrdered(b)
  BY WellFormedSlots DEF Good
<1>2. p \in DOMAIN b.levels[s] /\ HasSlot(b, s, p, 1) /\ At(b, s, p, 1) = o
  BY FrontRests DEF IsBest
<1> HIDE DEF o
<1> SUFFICES ASSUME NEW q \in Resting(b), q # o, q.side = s
             PROVE  \/ IF s = "BUY" THEN q.price < p ELSE p < q.price
                    \/ q.price = p /\ o.node < q.node
  BY DEF o
<1>3. PICK t, r, j : HasSlot(b, t, r, j) /\ At(b, t, r, j) = q
  BY RestingSlots
<1>4. t = s /\ q.price = r
  BY <1>1, <1>3 DEF SlotsAreRight
<1>5. r \in Int /\ p \in Int /\ j \in 1 .. Len(b.levels[t][r])
  BY <1>1, <1>2, <1>3, SlotTypes, BookAssumption
<1>6. IF s = "BUY" THEN r <= p ELSE p <= r
  BY <1>3, <1>4 DEF IsBest, HasSlot
<1>7. CASE r = p
  <2>1. j # 1
    BY <1>2, <1>3, <1>4, <1>7
  <2>2. 1 < j
    BY <1>5, <2>1
  <2> QED
    BY <1>1, <1>2, <1>3, <1>4, <1>7, <2>2 DEF SlotsAreOrdered
<1>8. CASE r # p
  BY <1>4, <1>5, <1>6, <1>8
<1> QED
  BY <1>7, <1>8

LEMMA TakeFrontResting ==
  ASSUME NEW b, Good(b), NEW s \in Side, NEW p \in DOMAIN b.levels[s], NEW n \in Int
  PROVE  LET front == Head(b.levels[s][p])
         IN  Resting(TakeFront(b, s, p, n)) =
               (Resting(b) \ {front}) \cup Leftover(front, n)
<1> DEFINE c == TakeFront(b, s, p, n)
           front == At(b, s, p, 1)
<1>1. /\ HasSlot(b, s, p, 1) /\ Head(b.levels[s][p]) = front
      /\ front \in Resting(b)
  BY FrontRests
<1>2. front \in Order
  BY <1>1, RestingFacts
<1>3. c = IF front.quantity = n THEN Removed(b, s, p, 1)
          ELSE SetQuantity(b, s, p, 1, front.quantity - n)
  BY <1>1 DEF TakeFront, Removed
<1>4. front.quantity - n \in Int
  BY <1>2 DEF Order
<1> HIDE DEF c
<1>5. CASE front.quantity = n
  BY <1>1, <1>3, <1>5, RemoveResting DEF Leftover, c
<1>6. CASE front.quantity # n
  <2>1. Resting(c) = (Resting(b) \ {front})
                       \cup {[front EXCEPT !.quantity = front.quantity - n]}
    BY <1>1, <1>3, <1>4, <1>6, SetResting
  <2> QED
    BY <1>1, <1>6, <2>1 DEF Leftover, c
<1> QED
  BY <1>5, <1>6

LEMMA FillResting ==
  ASSUME NEW b, Good(b), NEW bp, NEW ap, Crosses(b, bp, ap)
  PROVE  LET bid == Head(b.levels["BUY"][bp])
             ask == Head(b.levels["SELL"][ap])
             n == TradeQuantity(bid, ask)
         IN  Resting(Fill(b, bp, ap)) =
               (Resting(b) \ {bid, ask}) \cup Leftover(bid, n) \cup Leftover(ask, n)
<1> DEFINE bid == Head(b.levels["BUY"][bp])
           ask == Head(b.levels["SELL"][ap])
           n == TradeQuantity(bid, ask)
           d == TakeFront(b, "BUY", bp, n)
           e == TakeFront(d, "SELL", ap, n)
<1>1. /\ "BUY" \in Side /\ "SELL" \in Side
      /\ bp \in DOMAIN b.levels["BUY"] /\ ap \in DOMAIN b.levels["SELL"]
  BY DEF Crosses, IsBest, Side
<1>2. /\ bid \in Order /\ bid.side = "BUY"
      /\ ask \in Order /\ ask.side = "SELL"
  BY <1>1, FrontRests, RestingFacts
<1>3. n \in Int
  BY <1>2 DEF TradeQuantity, Order
<1>4. Fill(b, bp, ap).levels = e.levels
  BY DEF Fill
<1> HIDE DEF n
<1>5. Good(d) /\ d.levels["SELL"] = b.levels["SELL"]
  BY <1>1, <1>3, TakeFrontKeeps
<1>6. Resting(d) = (Resting(b) \ {bid}) \cup Leftover(bid, n)
  BY <1>1, <1>3, TakeFrontResting
<1> HIDE DEF d
<1>7. Resting(e) = (Resting(d) \ {ask}) \cup Leftover(ask, n)
  BY <1>1, <1>3, <1>5, TakeFrontResting
<1>8. ask \notin Leftover(bid, n)
  BY <1>2 DEF Leftover, Order
<1> HIDE DEF bid, ask, e
<1>9. Resting(e) = (Resting(b) \ {bid, ask}) \cup Leftover(bid, n)
                                             \cup Leftover(ask, n)
  BY <1>6, <1>7, <1>8
<1> QED
  BY <1>4, <1>9, RestingOfLevels DEF bid, ask, n

\* Uncrossed, told of the orders.
LEMMA UncrossedResting ==
  ASSUME NEW b, Good(b), Uncrossed(b)
  PROVE  \A bid, ask \in Resting(b) :
           bid.side = "BUY" /\ ask.side = "SELL" => bid.price < ask.price
<1> SUFFICES ASSUME NEW bid \in Resting(b), NEW ask \in Resting(b),
                    bid.side = "BUY", ask.side = "SELL"
             PROVE  bid.price < ask.price
  OBVIOUS
<1>1. SlotsAreRight(b)
  BY WellFormedSlots DEF Good
<1>2. PICK s, p, i : HasSlot(b, s, p, i) /\ At(b, s, p, i) = bid
  BY RestingSlots
<1>3. PICK t, r, j : HasSlot(b, t, r, j) /\ At(b, t, r, j) = ask
  BY RestingSlots
<1> QED
  BY <1>1, <1>2, <1>3 DEF SlotsAreRight, Uncrossed, HasSlot
=============================================================================
