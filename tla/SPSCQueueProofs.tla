-------------------------- MODULE SPSCQueueProofs --------------------------
(***************************************************************************)
(* The safety properties of the ring of SPSCQueue.tla, for every capacity, *)
(* every set of items and any number of pushes: its indices go round many  *)
(* times and loads may be as stale as the memory model allows.             *)
(***************************************************************************)
EXTENDS SPSCQueue, SequenceTheorems, TLAPS

-----------------------------------------------------------------------------
(* Arithmetic of the indices: what "% Capacity" tells apart. *)

LEMMA DivMod ==
  ASSUME NEW C \in Nat \ {0}, NEW a \in Nat
  PROVE  \E q \in Nat, r \in 0 .. C - 1 : a = C * q + r /\ a % C = r
<1>1. /\ a \div C \in Nat /\ a % C \in 0 .. C - 1
      /\ a = C * (a \div C) + (a % C)
  OBVIOUS
<1> QED
  BY <1>1

LEMMA MultipleOf ==
  ASSUME NEW C \in Nat \ {0}, NEW d \in Int
  PROVE  /\ d >= 1 => C * d >= C
         /\ d <= -1 => C * d <= -C
         /\ d = 0 => C * d = 0
OBVIOUS

LEMMA ModUnique ==
  ASSUME NEW C \in Nat \ {0}, NEW a \in Nat,
         NEW q \in Nat, NEW r \in 0 .. C - 1, a = C * q + r
  PROVE  a % C = r
<1>1. PICK p \in Nat, s \in 0 .. C - 1 : a = C * p + s /\ a % C = s
  BY DivMod
<1>2. C * (p - q) = r - s
  BY <1>1
<1>3. p - q = 0
  BY <1>2, MultipleOf
<1> QED
  BY <1>1, <1>2, <1>3

\* After, taken from a wrapped index, is the wrapped next number.
LEMMA NextSlot ==
  ASSUME NEW C \in Nat \ {0}, NEW a \in Nat
  PROVE  ((a % C) + 1) % C = (a + 1) % C
<1>1. PICK q \in Nat, r \in 0 .. C - 1 : a = C * q + r /\ a % C = r
  BY DivMod
<1>2. CASE r = C - 1
  <2>1. a + 1 = C * (q + 1) + 0 /\ r + 1 = C * 1 + 0
    BY <1>1, <1>2
  <2>2. q + 1 \in Nat /\ a + 1 \in Nat /\ r + 1 \in Nat /\ 0 \in 0 .. C - 1
    OBVIOUS
  <2>3. (a + 1) % C = 0
    BY ONLY <2>1, <2>2, ModUnique, C \in Nat \ {0}
  <2>4. (r + 1) % C = 0
    BY <2>1, <2>2, ModUnique
  <2> QED
    BY <1>1, <2>3, <2>4
<1>3. CASE r # C - 1
  <2>1. a + 1 = C * q + (r + 1) /\ r + 1 = C * 0 + (r + 1)
    BY <1>1
  <2>2. r + 1 \in 0 .. C - 1 /\ a + 1 \in Nat
    BY <1>3
  <2>3. (a + 1) % C = r + 1
    BY <2>1, <2>2, ModUnique
  <2>4. (r + 1) % C = r + 1
    BY <2>1, <2>2, ModUnique
  <2> QED
    BY <1>1, <2>3, <2>4
<1> QED
  BY <1>2, <1>3

\* Two numbers have the same slot only a whole turn apart.
LEMMA SameSlot ==
  ASSUME NEW C \in Nat \ {0}, NEW a \in Nat, NEW b \in Nat
  PROVE  /\ a < b /\ a % C = b % C => b - a >= C
         /\ b = a + C => b % C = a % C
<1>1. PICK q \in Nat, r \in 0 .. C - 1 : a = C * q + r /\ a % C = r
  BY DivMod
<1>2. PICK p \in Nat, s \in 0 .. C - 1 : b = C * p + s /\ b % C = s
  BY DivMod
<1>3. ASSUME a < b, r = s  PROVE  b - a >= C
  <2>1. C * (p - q) = b - a
    BY <1>1, <1>2, <1>3
  <2> QED
    BY <2>1, <1>3, MultipleOf
<1>4. ASSUME b = a + C  PROVE  b % C = r
  <2>1. b = C * (q + 1) + r
    BY <1>1, <1>4
  <2> QED
    BY <2>1, ModUnique, q + 1 \in Nat
<1> QED
  BY <1>1, <1>2, <1>3, <1>4

-----------------------------------------------------------------------------
(***************************************************************************)
(* The inductive invariant.  S items have been sent and R received; Sl(n)  *)
(* is the slot of the item after the first n.                              *)
(***************************************************************************)
S == Len(sent)
R == Len(received)
Sl(n) == n % Capacity

\* The n-th store to an index moved it to the slot after n - 1 items, and
\* publishes n - 1 accesses.
IsIndexLog(log, n) ==
  /\ log \in Seq(Store)
  /\ Len(log) = n + 1
  /\ \A k \in 1 .. n + 1 : log[k] = [val |-> Sl(k - 1), view |-> k - 1]

LogsMatchHistory == IsIndexLog(tailLog, S) /\ IsIndexLog(headLog, R)

\* What the producer has seen of the pops; past the test it has seen room.
ProducerInv ==
  /\ prod.seen \in 1 .. R + 1 /\ prod.knows = prod.seen - 1
  /\ S - prod.knows <= Capacity - 1
  /\ prod.pc \in {"write", "store"} => S - prod.knows < Capacity - 1
  /\ prod.pc = "full" => S - prod.knows = Capacity - 1
  /\ prod.pc # "idle" => prod.tail = Sl(S) /\ prod.item \in Items

\* What the consumer has seen of the pushes; past the test, one more.
ConsumerInv ==
  /\ cons.seen \in 1 .. S + 1 /\ cons.knows = cons.seen - 1
  /\ R <= cons.knows
  /\ cons.pc \in {"read", "store"} => R < cons.knows
  /\ cons.pc # "idle" => cons.head = Sl(R)
  /\ cons.pc = "store" => cons.item = sent[R + 1]

\* The items inside are in their slots, where nothing was written later.
SlotsHoldItems ==
  /\ \A k \in R + 1 .. S : buffer[Sl(k - 1)] = sent[k] /\ writtenAt[Sl(k - 1)] = k
  /\ prod.pc = "store" => /\ buffer[prod.tail] = prod.item
                          /\ writtenAt[prod.tail] = S + 1

\* The n-th read was of the slot of the n-th item.
Reads == IF cons.pc = "store" THEN R + 1 ELSE R
ReadsFollowItems ==
  \A s \in Slots :
    readAt[s] # 0 => readAt[s] <= Reads /\ s = Sl(readAt[s] - 1)

IInv ==
  /\ TypeOK
  /\ LogsMatchHistory
  /\ ProducerInv
  /\ ConsumerInv
  /\ SlotsHoldItems
  /\ ReadsFollowItems

-----------------------------------------------------------------------------
(* Facts read off the invariant. *)

LEMMA SlotRange ==
  ASSUME NEW n \in Nat
  PROVE  Sl(n) \in Slots
BY DivMod, SPSCAssumption DEF Sl, Slots

\* Between nothing and Capacity - 1 items are inside.
LEMMA Sizes ==
  ASSUME IInv
  PROVE  /\ S \in Nat /\ R \in Nat
         /\ R <= S /\ S - R <= Capacity - 1
         /\ S = Len(sent) /\ R = Len(received)
<1>1. S \in Nat /\ R \in Nat
  BY LenProperties DEF IInv, TypeOK, S, R
<1> QED
  BY <1>1, SPSCAssumption DEF IInv, ProducerInv, ConsumerInv, S, R

LEMMA LogFacts ==
  ASSUME NEW log, NEW n \in Nat, IsIndexLog(log, n)
  PROVE  /\ Own(log) = Sl(n)
         /\ \A v \in 1 .. Len(log) : log[v].val = Sl(v - 1) /\ log[v].view = v - 1
BY DEF IsIndexLog, Own

LEMMA LogGrows ==
  ASSUME NEW log, NEW n \in Nat, IsIndexLog(log, n)
  PROVE  IsIndexLog(Append(log, [val |-> Sl(n + 1), view |-> n + 1]), n + 1)
<1> DEFINE e == [val |-> Sl(n + 1), view |-> n + 1]
<1>1. e \in Store
  BY SlotRange DEF Store
<1>2. /\ Append(log, e) \in Seq(Store)
      /\ Len(Append(log, e)) = n + 2
      /\ \A k \in 1 .. n + 1 : Append(log, e)[k] = log[k]
      /\ Append(log, e)[n + 2] = e
  <2> HIDE DEF e
  <2> QED
    BY <1>1, AppendProperties DEF IsIndexLog
<1> QED
  BY <1>2 DEF IsIndexLog

\* The slot after that of item n is that of item n + 1.
LEMMA AfterSl ==
  ASSUME NEW n \in Nat
  PROVE  After(Sl(n)) = Sl(n + 1)
BY NextSlot, SPSCAssumption DEF After, Sl

\* Less than a turn apart, two numbers have different slots.
LEMMA SlDiffer ==
  ASSUME NEW a \in Nat, NEW b \in Nat, a < b, b - a < Capacity
  PROVE  Sl(a) # Sl(b)
<1>1. Capacity \in Nat \ {0}
  BY SPSCAssumption
<1>2. a % Capacity = b % Capacity => b - a >= Capacity
  BY <1>1, SameSlot
<1> QED
  BY <1>1, <1>2 DEF Sl

LEMMA SlEqual ==
  ASSUME NEW a \in Nat, NEW b \in Nat, b = a + Capacity
  PROVE  Sl(a) = Sl(b)
BY SameSlot, SPSCAssumption DEF Sl

-----------------------------------------------------------------------------
LEMMA InitInv == Init => IInv
<1> SUFFICES ASSUME Init PROVE IInv
  OBVIOUS
<1>1. S = 0 /\ R = 0 /\ Capacity \in Nat \ {0}
  BY SPSCAssumption DEF Init, S, R
<1>2. 0 \in Slots /\ Sl(0) = 0
  BY <1>1, ModUnique, 0 = Capacity * 0 + 0, 0 \in 0 .. Capacity - 1 DEF Slots, Sl
<1>3. IsIndexLog(<<[val |-> 0, view |-> 0]>>, 0)
  BY <1>2 DEF IsIndexLog, Store
<1>4. TypeOK
  BY <1>2, <1>3 DEF Init, TypeOK, IsIndexLog
<1>5. LogsMatchHistory
  BY <1>1, <1>3 DEF LogsMatchHistory, Init
<1>6. ProducerInv /\ ConsumerInv
  BY <1>1 DEF Init, ProducerInv, ConsumerInv
<1>7. SlotsHoldItems /\ ReadsFollowItems
  BY <1>1 DEF Init, SlotsHoldItems, ReadsFollowItems
<1> QED
  BY <1>4, <1>5, <1>6, <1>7 DEF IInv

-----------------------------------------------------------------------------
(* The producer's steps preserve the invariant. *)

LEMMA PushCallStep ==
  ASSUME IInv, NEW item \in Items, PushCall(item)
  PROVE  IInv'
<1>1. S \in Nat /\ UNCHANGED <<ring, cons, history>>
  BY Sizes DEF PushCall
<1>2. Own(tailLog) = Sl(S) /\ Sl(S) \in Slots
  BY <1>1, LogFacts, SlotRange DEF IInv, LogsMatchHistory
<1>3. /\ prod' = [prod EXCEPT !.pc = "loadHead", !.item = item, !.tail = Sl(S)]
      /\ prod.pc = "idle"
  BY <1>2 DEF PushCall
<1>4. TypeOK'
  BY <1>1, <1>2, <1>3 DEF IInv, TypeOK, ring, history
<1>5. ProducerInv'
  BY <1>1, <1>3 DEF IInv, TypeOK, ProducerInv, S, R, Sl, history
<1>6. SlotsHoldItems'
  BY <1>1, <1>3 DEF IInv, TypeOK, SlotsHoldItems, S, R, Sl, ring, history
<1>7. (LogsMatchHistory /\ ConsumerInv /\ ReadsFollowItems)'
  BY <1>1 DEF IInv, LogsMatchHistory, IsIndexLog, ConsumerInv, ReadsFollowItems,
              Reads, S, R, Sl, Slots, Store, ring, history
<1> QED
  BY <1>4, <1>5, <1>6, <1>7 DEF IInv

\* What the load of head tells: full exactly when no place is left.
LEMMA FullMeansNoPlace ==
  ASSUME IInv, prod.pc = "loadHead",
         NEW v \in Nat, v \in prod.seen .. Len(headLog)
  PROVE  /\ v - 1 \in Nat /\ v <= R + 1 /\ S - (v - 1) <= Capacity - 1
         /\ headLog[v].view = v - 1
         /\ Full(prod.tail, headLog[v].val) <=> S - (v - 1) = Capacity - 1
<1>1. /\ S \in Nat /\ R \in Nat /\ R <= S /\ Capacity \in Nat \ {0}
      /\ prod.seen \in Nat /\ prod.knows = prod.seen - 1 /\ prod.seen >= 1
      /\ S - prod.knows <= Capacity - 1 /\ prod.tail = Sl(S)
      /\ IsIndexLog(headLog, R)
  BY Sizes, SPSCAssumption DEF IInv, ProducerInv, LogsMatchHistory
<1>2. Len(headLog) = R + 1
  BY <1>1 DEF IsIndexLog
<1>3. v - 1 \in Nat /\ v <= R + 1 /\ v >= prod.seen /\ v \in 1 .. Len(headLog)
  BY <1>1, <1>2
<1>4. headLog[v].val = Sl(v - 1) /\ headLog[v].view = v - 1
  BY <1>1, <1>3, LogFacts
<1>5. S - (v - 1) <= Capacity - 1
  BY <1>1, <1>3
<1>6. After(prod.tail) = Sl(S + 1)
  BY <1>1, AfterSl
<1>7. ASSUME S - (v - 1) = Capacity - 1  PROVE  Sl(S + 1) = Sl(v - 1)
  BY <1>1, <1>3, <1>7, SlEqual, S + 1 = (v - 1) + Capacity, S + 1 \in Nat
<1>8. ASSUME S - (v - 1) # Capacity - 1  PROVE  Sl(v - 1) # Sl(S + 1)
  <2>1. v - 1 < S + 1 /\ (S + 1) - (v - 1) < Capacity /\ S + 1 \in Nat
    BY <1>1, <1>3, <1>5, <1>8
  <2> QED
    BY <2>1, <1>3, SlDiffer
<1> QED
  BY <1>3, <1>4, <1>5, <1>6, <1>7, <1>8 DEF Full

LEMMA PushLoadHeadStep ==
  ASSUME IInv, NEW v \in 1 .. Len(headLog), PushLoadHead(v)
  PROVE  IInv'
<1>1. UNCHANGED <<ring, cons, history>> /\ v \in Nat
  BY DEF PushLoadHead, IInv, TypeOK
<1>2. /\ v - 1 \in Nat /\ v <= R + 1 /\ S - (v - 1) <= Capacity - 1
      /\ headLog[v].view = v - 1
      /\ Full(prod.tail, headLog[v].val) <=> S - (v - 1) = Capacity - 1
  BY <1>1, FullMeansNoPlace DEF PushLoadHead
<1>3. /\ S \in Nat /\ R \in Nat /\ Capacity \in Nat /\ v >= 1
      /\ prod.knows = prod.seen - 1 /\ prod.seen \in Nat /\ v >= prod.seen
      /\ prod.tail = Sl(S) /\ prod.item \in Items
  BY SMTT(30), Sizes, SPSCAssumption DEF PushLoadHead, IInv, TypeOK, ProducerInv
<1>4. MaxOf(prod.knows, headLog[v].view) = v - 1
  BY <1>2, <1>3 DEF MaxOf
<1>5. prod' = [prod EXCEPT
                 !.pc = IF S - (v - 1) = Capacity - 1 THEN "full" ELSE "write",
                 !.seen = v, !.knows = v - 1]
  BY <1>2, <1>4 DEF PushLoadHead
<1>6. TypeOK'
  BY <1>1, <1>2, <1>5 DEF IInv, TypeOK, ring, history
<1>7. S' = S /\ R' = R /\ Sl(S)' = Sl(S)
  BY <1>1 DEF S, R, Sl, history
<1>8. ProducerInv'
  <2>1. prod \in [pc : {"idle", "loadHead", "full", "write", "store"},
                  item : Items \cup {NoItem}, tail : Slots, seen : Nat, knows : Nat]
    BY DEF IInv, TypeOK
  <2>2. /\ prod'.seen = v /\ prod'.knows = v - 1
        /\ prod'.pc = IF S - (v - 1) = Capacity - 1 THEN "full" ELSE "write"
        /\ prod'.tail = prod.tail /\ prod'.item = prod.item
    BY <2>1, <1>5
  <2> QED
    BY <2>2, <1>2, <1>3, <1>7 DEF ProducerInv
<1>9. SlotsHoldItems'
  BY <1>1, <1>5 DEF IInv, TypeOK, SlotsHoldItems, S, R, Sl, ring, history
<1>10. (LogsMatchHistory /\ ConsumerInv /\ ReadsFollowItems)'
  BY <1>1 DEF IInv, LogsMatchHistory, IsIndexLog, ConsumerInv, ReadsFollowItems,
              Reads, S, R, Sl, Slots, Store, ring, history
<1> QED
  BY <1>6, <1>8, <1>9, <1>10 DEF IInv

\* PushRetry and PushGiveUp touch nothing but the producer's locals.
LEMMA PushFullStep ==
  ASSUME IInv, PushRetry \/ PushGiveUp
  PROVE  IInv'
<1>1. UNCHANGED <<ring, cons, history>>
  BY DEF PushRetry, PushGiveUp
<1>2. /\ prod.pc = "full"
      /\ \/ prod' = [prod EXCEPT !.pc = "loadHead"]
         \/ prod' = [prod EXCEPT !.pc = "idle", !.item = NoItem]
  BY DEF PushRetry, PushGiveUp
<1>3. TypeOK'
  BY <1>1, <1>2 DEF IInv, TypeOK, ring, history
<1>4. ProducerInv'
  BY <1>1, <1>2 DEF IInv, TypeOK, ProducerInv, S, R, Sl, history
<1>5. SlotsHoldItems'
  <2>1. UNCHANGED <<buffer, writtenAt, sent, received>> /\ prod'.pc # "store"
    BY <1>1, <1>2 DEF IInv, TypeOK, ring, history
  <2> QED
    BY <2>1 DEF IInv, SlotsHoldItems, S, R, Sl
<1>6. (LogsMatchHistory /\ ConsumerInv /\ ReadsFollowItems)'
  BY <1>1 DEF IInv, LogsMatchHistory, IsIndexLog, ConsumerInv, ReadsFollowItems,
              Reads, S, R, Sl, Slots, Store, ring, history
<1> QED
  BY <1>3, <1>4, <1>5, <1>6 DEF IInv

LEMMA PushWriteStep ==
  ASSUME IInv, PushWrite
  PROVE  IInv'
<1>1. /\ S \in Nat /\ R \in Nat /\ R <= S /\ Capacity \in Nat \ {0}
      /\ S - R < Capacity - 1 /\ S = Len(sent)
      /\ prod.tail = Sl(S) /\ prod.item \in Items /\ Sl(S) \in Slots
      /\ S - prod.knows < Capacity - 1
  BY Sizes, SlotRange, SPSCAssumption DEF PushWrite, IInv, ProducerInv
<1>2. /\ buffer' = [buffer EXCEPT ![Sl(S)] = prod.item]
      /\ writtenAt' = [writtenAt EXCEPT ![Sl(S)] = S + 1]
      /\ prod' = [prod EXCEPT !.pc = "store"]
      /\ UNCHANGED <<headLog, tailLog, cons, sent, received, readAt>>
      /\ S' = S /\ R' = R /\ Sl(S)' = Sl(S)
  BY <1>1 DEF PushWrite, S, R, Sl
<1>3. TypeOK'
  <2>1. /\ buffer' \in [Slots -> Items \cup {NoItem}]
        /\ writtenAt' \in [Slots -> Nat]
    BY SMTT(30), <1>1, <1>2 DEF IInv, TypeOK
  <2> QED
    BY <1>2, <2>1 DEF IInv, TypeOK
<1>4. ProducerInv'
  <2>1. /\ prod'.pc = "store" /\ prod'.seen = prod.seen /\ prod'.knows = prod.knows
        /\ prod'.tail = prod.tail /\ prod'.item = prod.item
    BY <1>2 DEF IInv, TypeOK
  <2> QED
    BY <1>1, <1>2, <2>1 DEF IInv, ProducerInv
<1>5. SlotsHoldItems'
  <2>1. buffer'[Sl(S)] = prod.item /\ writtenAt'[Sl(S)] = S + 1
    BY <1>1, <1>2 DEF IInv, TypeOK
  <2>2. ASSUME NEW k \in R + 1 .. S
        PROVE  buffer'[Sl(k - 1)] = sent[k] /\ writtenAt'[Sl(k - 1)] = k
    <3>1. k - 1 \in Nat /\ Sl(k - 1) # Sl(S) /\ Sl(k - 1) \in Slots
      BY <1>1, SlDiffer, SlotRange
    <3>2. buffer[Sl(k - 1)] = sent[k] /\ writtenAt[Sl(k - 1)] = k
      BY DEF IInv, SlotsHoldItems
    <3> QED
      BY <1>2, <3>1, <3>2 DEF IInv, TypeOK
  <2>3. prod'.tail = Sl(S) /\ prod'.item = prod.item
    BY <1>1, <1>2 DEF IInv, TypeOK
  <2>4. \A k : Sl(k)' = Sl(k)
    BY DEF Sl
  <2> QED
    BY <1>2, <2>1, <2>2, <2>3, <2>4 DEF SlotsHoldItems
<1>6. (LogsMatchHistory /\ ConsumerInv /\ ReadsFollowItems)'
  BY <1>2 DEF IInv, LogsMatchHistory, IsIndexLog, ConsumerInv, ReadsFollowItems,
              Reads, Slots, Store, Sl
<1> QED
  BY <1>3, <1>4, <1>5, <1>6 DEF IInv

LEMMA PushStoreStep ==
  ASSUME IInv, PushStore
  PROVE  IInv'
<1>1. /\ S \in Nat /\ R \in Nat /\ R <= S /\ Capacity \in Nat \ {0}
      /\ S = Len(sent) /\ sent \in Seq(Items)
      /\ prod.tail = Sl(S) /\ prod.item \in Items
      /\ S - prod.knows < Capacity - 1 /\ prod.pc = "store"
  BY Sizes, SPSCAssumption DEF PushStore, IInv, ProducerInv, TypeOK
<1>2. /\ tailLog' = Append(tailLog, [val |-> Sl(S + 1), view |-> S + 1])
      /\ sent' = Append(sent, prod.item)
      /\ prod' = [prod EXCEPT !.pc = "idle", !.item = NoItem]
      /\ UNCHANGED <<buffer, headLog, cons, received, writtenAt, readAt>>
  BY <1>1, AfterSl DEF PushStore, Released
<1>3. /\ sent' \in Seq(Items) /\ S' = S + 1 /\ R' = R
      /\ \A k \in 1 .. S : sent'[k] = sent[k]
      /\ sent'[S + 1] = prod.item
      /\ \A k : Sl(k)' = Sl(k)
  BY <1>1, <1>2, AppendProperties DEF S, R, Sl
<1>4. LogsMatchHistory'
  <2>1. IsIndexLog(tailLog', S + 1)
    BY <1>1, <1>2, LogGrows DEF IInv, LogsMatchHistory
  <2> QED
    BY <1>2, <1>3, <2>1 DEF IInv, LogsMatchHistory, IsIndexLog, Store, Slots, Sl
<1>5. TypeOK'
  <2>1. tailLog' \in Seq(Store) \ {<<>>}
    BY <1>1, <1>3, <1>4 DEF LogsMatchHistory, IsIndexLog, Store, Slots
  <2> QED
    BY <1>2, <1>3, <2>1 DEF IInv, TypeOK, Store, Slots
<1>6. ProducerInv'
  <2>1. prod'.pc = "idle" /\ prod'.seen = prod.seen /\ prod'.knows = prod.knows
    BY <1>2 DEF IInv, TypeOK
  <2>2. prod.knows \in Nat /\ (S + 1) - prod.knows <= Capacity - 1
    BY <1>1 DEF IInv, TypeOK
  <2> QED
    BY <1>1, <1>3, <2>1, <2>2 DEF IInv, ProducerInv
<1>7. ConsumerInv'
  <2>1. cons.pc = "store" => R + 1 \in 1 .. S
    BY <1>1 DEF IInv, ConsumerInv
  <2> QED
    BY <1>1, <1>2, <1>3, <2>1 DEF IInv, ConsumerInv
<1>8. SlotsHoldItems'
  <2>1. prod'.pc = "idle"
    BY <1>2 DEF IInv, TypeOK
  <2>2. ASSUME NEW k \in R + 1 .. S + 1
        PROVE  buffer[Sl(k - 1)] = sent'[k] /\ writtenAt[Sl(k - 1)] = k
    <3>1. CASE k = S + 1
      BY <1>1, <1>3, <3>1, k - 1 = S DEF IInv, SlotsHoldItems
    <3>2. CASE k # S + 1
      BY <1>1, <1>3, <3>2, k \in R + 1 .. S, k \in 1 .. S DEF IInv, SlotsHoldItems
    <3> QED
      BY <3>1, <3>2
  <2> QED
    BY <1>2, <1>3, <2>1, <2>2 DEF SlotsHoldItems
<1>9. ReadsFollowItems'
  BY <1>2, <1>3 DEF IInv, ReadsFollowItems, Reads, Slots
<1> QED
  BY <1>4, <1>5, <1>6, <1>7, <1>8, <1>9 DEF IInv

-----------------------------------------------------------------------------
(* The consumer's steps preserve the invariant. *)

LEMMA PopCallStep ==
  ASSUME IInv, PopCall
  PROVE  IInv'
<1>1. R \in Nat /\ UNCHANGED <<ring, prod, history>>
  BY Sizes DEF PopCall
<1>2. Own(headLog) = Sl(R) /\ Sl(R) \in Slots
  BY <1>1, LogFacts, SlotRange DEF IInv, LogsMatchHistory
<1>3. cons' = [cons EXCEPT !.pc = "loadTail", !.head = Sl(R)] /\ cons.pc = "idle"
  BY <1>2 DEF PopCall
<1>4. TypeOK'
  BY <1>1, <1>2, <1>3 DEF IInv, TypeOK, ring, history
<1>5. ConsumerInv'
  BY <1>1, <1>3 DEF IInv, TypeOK, ConsumerInv, S, R, Sl, history
<1>6. ReadsFollowItems'
  BY <1>1, <1>3 DEF IInv, TypeOK, ReadsFollowItems, Reads, R, Sl, Slots, history
<1>7. (LogsMatchHistory /\ ProducerInv /\ SlotsHoldItems)'
  BY <1>1 DEF IInv, LogsMatchHistory, IsIndexLog, ProducerInv, SlotsHoldItems,
              S, R, Sl, Slots, Store, ring, history
<1> QED
  BY <1>4, <1>5, <1>6, <1>7 DEF IInv

LEMMA PopLoadTailStep ==
  ASSUME IInv, NEW v \in 1 .. Len(tailLog), PopLoadTail(v)
  PROVE  IInv'
<1>1. UNCHANGED <<ring, prod, history>> /\ v \in Nat
  BY DEF PopLoadTail, IInv, TypeOK
<1>2. /\ S \in Nat /\ R \in Nat /\ cons.seen \in Nat /\ v >= cons.seen
      /\ cons.knows = cons.seen - 1 /\ cons.seen >= 1 /\ R <= cons.knows
      /\ cons.head = Sl(R)
  BY Sizes DEF PopLoadTail, IInv, TypeOK, ConsumerInv
<1>3. /\ tailLog[v].val = Sl(v - 1) /\ tailLog[v].view = v - 1 /\ v <= S + 1
  BY <1>2, LogFacts DEF IInv, LogsMatchHistory, IsIndexLog
<1>4. MaxOf(cons.knows, tailLog[v].view) = v - 1 /\ v - 1 \in Nat
  BY <1>2, <1>3 DEF MaxOf
<1>5. cons' = [cons EXCEPT !.pc = IF Sl(R) = Sl(v - 1) THEN "idle" ELSE "read",
                           !.seen = v, !.knows = v - 1]
  BY <1>2, <1>3, <1>4 DEF PopLoadTail
<1>6. TypeOK'
  BY <1>1, <1>4, <1>5 DEF IInv, TypeOK, ring, history
<1>7. ConsumerInv'
  <2>1. /\ cons'.pc = IF Sl(R) = Sl(v - 1) THEN "idle" ELSE "read"
        /\ cons'.seen = v /\ cons'.knows = v - 1 /\ cons'.head = cons.head
    BY <1>5 DEF IInv, TypeOK
  <2>2. S' = S /\ R' = R /\ Sl(R)' = Sl(R)
    BY <1>1 DEF S, R, Sl, history
  <2> QED
    BY <1>2, <1>3, <2>1, <2>2 DEF ConsumerInv
<1>8. ReadsFollowItems'
  BY <1>1, <1>5 DEF PopLoadTail, IInv, TypeOK, ReadsFollowItems, Reads, R, Sl, Slots, history
<1>9. (LogsMatchHistory /\ ProducerInv /\ SlotsHoldItems)'
  BY <1>1 DEF IInv, LogsMatchHistory, IsIndexLog, ProducerInv, SlotsHoldItems,
              S, R, Sl, Slots, Store, ring, history
<1> QED
  BY <1>6, <1>7, <1>8, <1>9 DEF IInv

LEMMA PopReadStep ==
  ASSUME IInv, PopRead
  PROVE  IInv'
<1>1. /\ S \in Nat /\ R \in Nat /\ R < S /\ R = Len(received)
      /\ R < cons.knows /\ cons.head = Sl(R) /\ Sl(R) \in Slots /\ cons.pc = "read"
  <2>1. S \in Nat /\ R \in Nat /\ R = Len(received) /\ Sl(R) \in Slots
    BY Sizes, SlotRange
  <2>2. cons.pc = "read"
    BY DEF PopRead
  <2> QED
    BY <2>1, <2>2 DEF IInv, ConsumerInv
<1>2. buffer[Sl(R)] = sent[R + 1] /\ buffer[Sl(R)] \in Items \cup {NoItem}
  BY <1>1, R + 1 \in R + 1 .. S, (R + 1) - 1 = R DEF IInv, SlotsHoldItems, TypeOK
<1>3. /\ readAt' = [readAt EXCEPT ![Sl(R)] = R + 1]
      /\ cons' = [cons EXCEPT !.pc = "store", !.item = sent[R + 1]]
      /\ UNCHANGED <<buffer, headLog, tailLog, prod, sent, received, writtenAt>>
      /\ S' = S /\ R' = R /\ \A k : Sl(k)' = Sl(k)
  BY <1>1, <1>2 DEF PopRead, S, R, Sl
<1>4. TypeOK'
  <2>1. readAt' \in [Slots -> Nat] /\ sent[R + 1] \in Items \cup {NoItem}
    BY <1>1, <1>2, <1>3 DEF IInv, TypeOK
  <2> QED
    BY <1>3, <2>1 DEF IInv, TypeOK
<1>5. cons'.pc = "store" /\ cons'.item = sent[R + 1] /\ cons'.seen = cons.seen
      /\ cons'.knows = cons.knows /\ cons'.head = cons.head
  BY <1>3 DEF IInv, TypeOK
<1>6. ConsumerInv'
  BY <1>1, <1>3, <1>5 DEF IInv, ConsumerInv
<1>7. ReadsFollowItems'
  <2>1. Reads' = R + 1 /\ Reads = R
    BY <1>1, <1>3, <1>5 DEF Reads
  <2>2. ASSUME NEW s \in Slots, readAt'[s] # 0
        PROVE  readAt'[s] <= R + 1 /\ s = Sl(readAt'[s] - 1)
    <3>1. CASE s = Sl(R)
      BY <1>1, <1>3, <3>1, readAt'[s] = R + 1, (R + 1) - 1 = R DEF IInv, TypeOK
    <3>2. CASE s # Sl(R)
      BY <1>1, <1>3, <2>1, <2>2, <3>2 DEF IInv, TypeOK, ReadsFollowItems
    <3> QED
      BY <3>1, <3>2
  <2> QED
    BY <1>3, <2>1, <2>2 DEF ReadsFollowItems, Slots
<1>8. (LogsMatchHistory /\ ProducerInv /\ SlotsHoldItems)'
  BY <1>3 DEF IInv, LogsMatchHistory, IsIndexLog, ProducerInv, SlotsHoldItems,
              Slots, Store, Sl
<1> QED
  BY <1>4, <1>6, <1>7, <1>8 DEF IInv

LEMMA PopStoreStep ==
  ASSUME IInv, PopStore
  PROVE  IInv'
<1>1. /\ S \in Nat /\ R \in Nat /\ R < S /\ R = Len(received) /\ S = Len(sent)
      /\ R < cons.knows /\ cons.head = Sl(R) /\ cons.pc = "store"
      /\ cons.item = sent[R + 1] /\ received \in Seq(Items) /\ sent \in Seq(Items)
  BY SMTT(30), Sizes DEF PopStore, IInv, TypeOK, ConsumerInv
<1>2. cons.item \in Items
  BY <1>1, ElementOfSeq, R + 1 \in 1 .. Len(sent)
<1>3. /\ headLog' = Append(headLog, [val |-> Sl(R + 1), view |-> R + 1])
      /\ received' = Append(received, cons.item)
      /\ cons' = [cons EXCEPT !.pc = "idle", !.item = NoItem]
      /\ UNCHANGED <<buffer, tailLog, prod, sent, writtenAt, readAt>>
  BY <1>1, AfterSl DEF PopStore
<1>4. /\ received' \in Seq(Items) /\ S' = S /\ R' = R + 1
      /\ \A k : Sl(k)' = Sl(k)
  BY <1>1, <1>2, <1>3, AppendProperties DEF S, R, Sl
<1>5. LogsMatchHistory'
  <2>1. IsIndexLog(headLog', R + 1)
    BY <1>1, <1>3, LogGrows DEF IInv, LogsMatchHistory
  <2> QED
    BY <1>3, <1>4, <2>1 DEF IInv, LogsMatchHistory, IsIndexLog, Store, Slots, Sl
<1>6. TypeOK'
  <2>1. headLog' \in Seq(Store) \ {<<>>}
    BY <1>1, <1>4, <1>5 DEF LogsMatchHistory, IsIndexLog, Store, Slots
  <2> QED
    BY <1>3, <1>4, <2>1 DEF IInv, TypeOK, Store, Slots
<1>7. /\ cons'.pc = "idle" /\ cons'.seen = cons.seen /\ cons'.knows = cons.knows
  BY <1>3 DEF IInv, TypeOK
<1>8. ConsumerInv'
  BY <1>1, <1>4, <1>7 DEF IInv, TypeOK, ConsumerInv
<1>9. ProducerInv'
  BY <1>1, <1>3, <1>4 DEF IInv, TypeOK, ProducerInv
<1>10. SlotsHoldItems'
  BY <1>1, <1>3, <1>4 DEF IInv, SlotsHoldItems
<1>11. ReadsFollowItems'
  <2>1. Reads' = Reads
    BY <1>1, <1>4, <1>7 DEF Reads
  <2> QED
    BY <1>3, <1>4, <2>1 DEF IInv, ReadsFollowItems, Slots
<1> QED
  BY <1>5, <1>6, <1>8, <1>9, <1>10, <1>11 DEF IInv

-----------------------------------------------------------------------------
LEMMA NextInv == IInv /\ [Next]_vars => IInv'
<1> SUFFICES ASSUME IInv, [Next]_vars PROVE IInv'
  OBVIOUS
<1>1. CASE UNCHANGED vars
  BY <1>1 DEF IInv, TypeOK, LogsMatchHistory, IsIndexLog, ProducerInv, ConsumerInv,
              SlotsHoldItems, ReadsFollowItems, Reads, S, R, Sl, Slots, Store,
              ring, history, vars
<1>2. CASE Producer
  BY <1>2, PushCallStep, PushLoadHeadStep, PushFullStep, PushWriteStep,
     PushStoreStep DEF Producer
<1>3. CASE Consumer
  BY <1>3, PopCallStep, PopLoadTailStep, PopReadStep, PopStoreStep DEF Consumer
<1> QED
  BY <1>1, <1>2, <1>3 DEF Next

\* The strengthened invariant holds throughout.
LEMMA SpecInv == Spec => []IInv
BY InitInv, NextInv, PTL DEF Spec

(***************************************************************************)
(* The locals, the logs and the slots have their types: an index stays in  *)
(* the ring, and what push publishes and pop returns is always an item and *)
(* never the content of a slot that was not written.                       *)
(***************************************************************************)
THEOREM RingTypeOK == Spec => []TypeOK
BY SpecInv, PTL DEF IInv

LEMMA InvNoRace == IInv => NoDataRace
<1> SUFFICES ASSUME IInv PROVE NoDataRace
  OBVIOUS
<1>1. /\ S \in Nat /\ R \in Nat /\ R <= S /\ Capacity \in Nat \ {0}
      /\ readAt \in [Slots -> Nat] /\ writtenAt \in [Slots -> Nat]
      /\ prod.knows \in Nat /\ cons.knows \in Nat
  BY Sizes, SPSCAssumption DEF IInv, TypeOK
<1>2. ASSUME prod.pc = "write"  PROVE  readAt[prod.tail] <= prod.knows
  <2> DEFINE k == readAt[Sl(S)]
  <2>1. prod.tail = Sl(S) /\ S - prod.knows < Capacity - 1
    BY <1>2 DEF IInv, ProducerInv
  <2>2. Sl(S) \in Slots /\ k \in Nat
    BY <1>1, SlotRange
  <2>3. ASSUME k # 0  PROVE  k <= prod.knows
    <3>1. k <= Reads /\ Sl(S) = Sl(k - 1)
      BY <2>2, <2>3 DEF IInv, ReadsFollowItems
    \* The read was of an item sent before: not of the one to come.
    <3>2. Reads <= S
      BY <1>1 DEF Reads, IInv, ConsumerInv
    <3>3. k - 1 \in Nat /\ k - 1 < S
      <4>1. Reads \in Nat
        BY <1>1 DEF Reads
      <4> HIDE DEF k
      <4> QED
        BY <1>1, <2>2, <2>3, <3>1, <3>2, <4>1
    <3>4. S - (k - 1) >= Capacity
      <4> HIDE DEF k
      <4>1. S - (k - 1) < Capacity => Sl(k - 1) # Sl(S)
        BY <1>1, <3>3, SlDiffer
      <4> QED
        BY <1>1, <2>2, <3>1, <4>1
    <3> HIDE DEF k
    <3> QED
      BY <1>1, <2>1, <2>2, <3>4
  <2>4. CASE k = 0
    BY <1>1, <2>1, <2>4
  <2> QED
    BY <2>1, <2>3, <2>4
<1>3. ASSUME cons.pc = "read"  PROVE  writtenAt[cons.head] <= cons.knows
  <2>1. cons.head = Sl(R) /\ R < cons.knows /\ cons.knows <= S
    BY <1>1, <1>3 DEF IInv, ConsumerInv
  <2>2. R + 1 \in R + 1 .. S /\ (R + 1) - 1 = R
    BY <1>1, <2>1
  <2>3. writtenAt[Sl(R)] = R + 1
    BY <2>2 DEF IInv, SlotsHoldItems
  <2> QED
    BY <1>1, <2>1, <2>3
<1> QED
  BY <1>2, <1>3 DEF NoDataRace

(***************************************************************************)
(* No access of a slot by push or pop races with the other thread's last   *)
(* access of it: the acquire loads of head and tail suffice, in a ring of  *)
(* any size, however often it has gone round.                              *)
(***************************************************************************)
THEOREM RingNoDataRace == Spec => []NoDataRace
BY SpecInv, InvNoRace, PTL

(***************************************************************************)
(* push answers false only when the pops it has seen leave Capacity - 1    *)
(* items in the ring: the slot kept free is never mistaken for another.    *)
(***************************************************************************)
THEOREM RingFullOnlyWhenFull == Spec => []FullOnlyWhenFull
<1>1. IInv => FullOnlyWhenFull
  BY DEF IInv, ProducerInv, FullOnlyWhenFull, S
<1> QED
  BY <1>1, SpecInv, PTL

-----------------------------------------------------------------------------
(* The ring implements the bounded FIFO. *)

Inside == SubSeq(sent, R + 1, S)

LEMMA InsideFacts ==
  ASSUME IInv
  PROVE  Inside \in Seq(Items) /\ Len(Inside) = S - R
<1>1. /\ S \in Nat /\ R \in Nat /\ R <= S /\ S = Len(sent)
      /\ sent \in Seq(Items)
  BY Sizes DEF IInv, TypeOK
<1>2. \A i \in R + 1 .. S : sent[i] \in Items
  BY <1>1, ElementOfSeq
<1>3. /\ Inside \in Seq(Items)
      /\ Len(Inside) = IF R + 1 <= S THEN S - (R + 1) + 1 ELSE 0
  BY <1>1, <1>2, SubSeqProperties, R + 1 \in Int, S \in Int DEF Inside
<1> QED
  BY <1>1, <1>3

LEMMA StoreIsEnqueue ==
  ASSUME IInv, PushStore
  PROVE  FIFO!Enqueue(prod.item) /\ prod.item \in Items
<1>1. /\ S \in Nat /\ R \in Nat /\ R <= S /\ S = Len(sent) /\ Capacity \in Nat
      /\ sent \in Seq(Items) /\ prod.item \in Items
      /\ prod.knows \in Nat /\ prod.knows <= R /\ S - prod.knows < Capacity - 1
  <2>1. /\ S \in Nat /\ R \in Nat /\ R <= S /\ S = Len(sent) /\ Capacity \in Nat
        /\ sent \in Seq(Items) /\ prod.knows \in Nat /\ prod.pc = "store"
    BY Sizes, SPSCAssumption DEF PushStore, IInv, TypeOK
  <2> QED
    BY <2>1 DEF IInv, ProducerInv
<1>2. sent' = Append(sent, prod.item) /\ received' = received
  BY DEF PushStore
<1>3. /\ sent' \in Seq(Items) /\ Len(sent') = S + 1
      /\ sent' = sent \o <<prod.item>> /\ sent'[S + 1] = prod.item
  BY <1>1, <1>2, AppendProperties, AppendIsConcat
<1>4. Len(Inside) < Capacity - 1
  BY <1>1, InsideFacts
<1>5. SubSeq(sent', R + 1, S + 1) = SubSeq(sent', R + 1, S) \o <<prod.item>>
  BY <1>1, <1>3, SubSeqRecursiveSecond, R + 1 \in 1 .. Len(sent'),
     S + 1 \in R + 1 .. Len(sent'), (S + 1) - 1 = S
<1>6. SubSeq(sent', R + 1, S) = Inside
  <2>1. CASE R = S
    BY <1>1, <2>1, SubSeqEmpty, S < R + 1, R + 1 \in Int, S \in Int DEF Inside
  <2>2. CASE R # S
    BY <1>1, <1>3, <2>2, SubSeqOfConcat1, <<prod.item>> \in Seq(Items),
       R + 1 \in 1 .. Len(sent), S \in 1 .. Len(sent) DEF Inside
  <2> QED
    BY <2>1, <2>2
<1>7. Inside' = Append(Inside, prod.item)
  <2>1. Inside' = SubSeq(sent', R + 1, S + 1)
    BY <1>2, <1>3 DEF Inside, S, R
  <2> QED
    BY <1>1, <1>5, <1>6, <2>1, InsideFacts, AppendIsConcat
<1> QED
  BY <1>1, <1>2, <1>4, <1>7 DEF FIFO!Enqueue, Inside, S, R

LEMMA StoreIsDequeue ==
  ASSUME IInv, PopStore
  PROVE  FIFO!Dequeue
<1>1. /\ S \in Nat /\ R \in Nat /\ R < S /\ S = Len(sent) /\ R = Len(received)
      /\ sent \in Seq(Items) /\ received \in Seq(Items)
      /\ cons.item = sent[R + 1]
  BY SMTT(30), Sizes DEF PopStore, IInv, TypeOK, ConsumerInv
<1>2. received' = Append(received, sent[R + 1]) /\ sent' = sent
  BY <1>1 DEF PopStore
<1>3. R' = R + 1 /\ S' = S
  BY <1>1, <1>2, AppendProperties, ElementOfSeq, R + 1 \in 1 .. Len(sent) DEF R, S
<1>4. Head(Inside) = sent[R + 1] /\ Tail(Inside) = SubSeq(sent, (R + 1) + 1, S)
  BY <1>1, HeadTailOfSubSeq, R + 1 \in 1 .. Len(sent), S \in R + 1 .. Len(sent)
     DEF Inside
<1>5. Inside' = Tail(Inside)
  BY <1>2, <1>3, <1>4 DEF Inside
<1>6. Inside # <<>>
  BY <1>1, InsideFacts
<1> QED
  BY <1>2, <1>4, <1>5, <1>6 DEF FIFO!Dequeue, Inside, S, R

(***************************************************************************)
(* The safety part of ImplementsFIFO, for every capacity: a release store  *)
(* of push enqueues its item if there is room, one of pop dequeues the     *)
(* oldest, and no other step changes what is inside.  Nothing is lost,     *)
(* duplicated, reordered or overwritten.                                   *)
(***************************************************************************)
THEOREM RingIsFIFO == Spec => FIFO!SafetySpec
<1>1. Init => FIFO!Init
  BY SubSeqEmpty DEF Init, FIFO!Init
<1>2. IInv /\ [Next]_vars => [FIFO!Next]_(FIFO!vars)
  <2> SUFFICES ASSUME IInv, [Next]_vars PROVE [FIFO!Next]_(FIFO!vars)
    OBVIOUS
  <2>1. CASE PushStore
    BY <2>1, StoreIsEnqueue DEF FIFO!Next
  <2>2. CASE PopStore
    BY <2>2, StoreIsDequeue DEF FIFO!Next
  <2>3. CASE UNCHANGED <<sent, received>>
    BY <2>3 DEF FIFO!vars
  <2>4. UNCHANGED <<sent, received>> \/ PushStore \/ PopStore
    BY DEF Next, Producer, Consumer, PushCall, PushLoadHead, PushRetry, PushGiveUp,
           PushWrite, PopCall, PopLoadTail, PopRead, history, vars
  <2> QED
    BY <2>1, <2>2, <2>3, <2>4
<1> QED
  BY <1>1, <1>2, SpecInv, PTL DEF Spec, FIFO!SafetySpec
=============================================================================
