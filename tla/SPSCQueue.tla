----------------------------- MODULE SPSCQueue -----------------------------
(***************************************************************************)
(* The lock-free ring buffer of spsc_queue.h, one atomic access per step,  *)
(* under the C++ memory model rather than sequential consistency.          *)
(*                                                                         *)
(* Each atomic index is the log of the stores made to it.  A load by the   *)
(* other thread may return any of them, only never one older than that     *)
(* thread has already seen; a load by the one thread that stores to it     *)
(* returns the latest.  A release store carries the number of slot         *)
(* accesses its thread has made ("view"), and an acquire load that reads   *)
(* it learns that they happened before.  A slot is plain memory: accessing *)
(* it without knowing of the other thread's last access is a data race.    *)
(***************************************************************************)
EXTENDS Naturals, Sequences

CONSTANTS
  Capacity,  \* template argument: slots of the ring (1024 in the server)
  Items,     \* what can be pushed
  NoItem,    \* content of a slot never written
  MaxItems   \* bounds the pushes of one behaviour

ASSUME SPSCAssumption ==
  /\ Capacity \in Nat \ {0}
  /\ NoItem \notin Items
  /\ MaxItems \in Nat

VARIABLES
  buffer,    \* the slots
  headLog,   \* stores to head, the read index
  tailLog,   \* stores to tail, the write index
  prod,      \* the producer: program counter, locals, what it has seen
  cons,      \* the consumer: likewise
  sent,      \* history: items published, in order
  received,  \* history: items popped, in order
  writtenAt, \* per slot, the number of the write that last touched it
  readAt     \* per slot, the number of the read that last touched it

ring == <<buffer, headLog, tailLog>>
history == <<sent, received, writtenAt, readAt>>
vars == <<ring, prod, cons, history>>

Slots == 0 .. Capacity - 1

\* FAULT for After: the index does not go round.
AfterWithoutWrap(i) == i + 1

After(i) == (i + 1) % Capacity

\* What the one thread that stores to an index reads back from it.
Own(log) == log[Len(log)].val

MaxOf(m, n) == IF m >= n THEN m ELSE n

Init ==
  /\ buffer = [s \in Slots |-> NoItem]
  /\ headLog = <<[val |-> 0, view |-> 0]>>
  /\ tailLog = <<[val |-> 0, view |-> 0]>>
  /\ prod = [pc |-> "idle", item |-> NoItem, tail |-> 0, seen |-> 1, knows |-> 0]
  /\ cons = [pc |-> "idle", item |-> NoItem, head |-> 0, seen |-> 1, knows |-> 0]
  /\ sent = <<>> /\ received = <<>>
  /\ writtenAt = [s \in Slots |-> 0] /\ readAt = writtenAt

-----------------------------------------------------------------------------
(* The producer. *)

\* push(item) is called; tail.load(relaxed).
PushCall(item) ==
  /\ prod.pc = "idle"
  /\ Len(sent) < MaxItems
  /\ prod' = [prod EXCEPT !.pc = "loadHead", !.item = item,
                          !.tail = Own(tailLog)]
  /\ UNCHANGED <<ring, cons, history>>

\* FAULT for Full: no test for a full ring.
FullNever(tail, head) == FALSE

\* FAULT for Full: no slot is kept free, so empty is taken for full.
FullWhenEqual(tail, head) == tail = head

Full(tail, head) == After(tail) = head

\* head.load(acquire) returns the v-th store, and the test for a full ring.
PushLoadHead(v) ==
  /\ prod.pc = "loadHead"
  /\ v \in prod.seen .. Len(headLog)
  /\ prod' = [prod EXCEPT
                !.pc = IF Full(prod.tail, headLog[v].val) THEN "full"
                                                          ELSE "write",
                !.seen = v,
                !.knows = MaxOf(@, headLog[v].view)]
  /\ UNCHANGED <<ring, cons, history>>

\* FAULT for PushRetry: the loop tests the first answer again.
PushRetryStale ==
  /\ prod.pc = "full"
  /\ UNCHANGED vars

\* push returned false and its caller spins: it calls again.
PushRetry ==
  /\ prod.pc = "full"
  /\ prod' = [prod EXCEPT !.pc = "loadHead"]
  /\ UNCHANGED <<ring, cons, history>>

\* push returned false and its caller gives up (the final STATS of main).
PushGiveUp ==
  /\ prod.pc = "full"
  /\ prod' = [prod EXCEPT !.pc = "idle", !.item = NoItem]
  /\ UNCHANGED <<ring, cons, history>>

\* buffer[current_tail] = item
PushWrite ==
  /\ prod.pc = "write"
  /\ buffer' = [buffer EXCEPT ![prod.tail] = prod.item]
  /\ writtenAt' = [writtenAt EXCEPT ![prod.tail] = Len(sent) + 1]
  /\ prod' = [prod EXCEPT !.pc = "store"]
  /\ UNCHANGED <<headLog, tailLog, cons, sent, received, readAt>>

\* FAULT for Released: tail.store(relaxed).
ReleasedNothing == 0

\* What a thread learns that acquires the next store to tail: the writes so far.
Released == Len(sent) + 1

\* tail.store(release); push returns true.
PushStore ==
  /\ prod.pc = "store"
  /\ tailLog' = Append(tailLog, [val |-> After(prod.tail), view |-> Released])
  /\ sent' = Append(sent, prod.item)
  /\ prod' = [prod EXCEPT !.pc = "idle", !.item = NoItem]
  /\ UNCHANGED <<buffer, headLog, cons, received, writtenAt, readAt>>

-----------------------------------------------------------------------------
(* The consumer. *)

\* pop(item) is called; head.load(relaxed).
PopCall ==
  /\ cons.pc = "idle"
  /\ cons' = [cons EXCEPT !.pc = "loadTail", !.head = Own(headLog)]
  /\ UNCHANGED <<ring, prod, history>>

\* tail.load(acquire) returns the v-th store; pop returns false when empty.
PopLoadTail(v) ==
  /\ cons.pc = "loadTail"
  /\ v \in cons.seen .. Len(tailLog)
  /\ cons' = [cons EXCEPT
                !.pc = IF cons.head = tailLog[v].val THEN "idle" ELSE "read",
                !.seen = v,
                !.knows = MaxOf(@, tailLog[v].view)]
  /\ UNCHANGED <<ring, prod, history>>

\* item = buffer[current_head]
PopRead ==
  /\ cons.pc = "read"
  /\ readAt' = [readAt EXCEPT ![cons.head] = Len(received) + 1]
  /\ cons' = [cons EXCEPT !.pc = "store", !.item = buffer[cons.head]]
  /\ UNCHANGED <<buffer, headLog, tailLog, prod, sent, received, writtenAt>>

\* head.store(release); pop returns true.
PopStore ==
  /\ cons.pc = "store"
  /\ headLog' = Append(headLog, [val |-> After(cons.head),
                                 view |-> Len(received) + 1])
  /\ received' = Append(received, cons.item)
  /\ cons' = [cons EXCEPT !.pc = "idle", !.item = NoItem]
  /\ UNCHANGED <<buffer, tailLog, prod, sent, writtenAt, readAt>>

-----------------------------------------------------------------------------
Producer ==
  \/ \E item \in Items : PushCall(item)
  \/ \E v \in 1 .. Len(headLog) : PushLoadHead(v)
  \/ PushRetry \/ PushGiveUp \/ PushWrite \/ PushStore

Consumer ==
  \/ PopCall
  \/ \E v \in 1 .. Len(tailLog) : PopLoadTail(v)
  \/ PopRead \/ PopStore

Next == Producer \/ Consumer

(***************************************************************************)
(* Both threads keep running, a spinning caller keeps calling, and a store *)
(* does not stay invisible for ever to a thread that keeps loading         *)
(* (C++17 [intro.progress]).  Nobody has to call push.                     *)
(***************************************************************************)
Fairness ==
  /\ WF_vars(\E v \in 1 .. Len(headLog) : PushLoadHead(v))
  /\ SF_vars(PushLoadHead(Len(headLog)))
  /\ WF_vars(PushRetry) /\ WF_vars(PushWrite) /\ WF_vars(PushStore)
  /\ WF_vars(Consumer)
  /\ SF_vars(PopLoadTail(Len(tailLog)))

Spec == Init /\ [][Next]_vars /\ Fairness

-----------------------------------------------------------------------------
(* Type invariant. *)
Store == [val : Slots, view : Nat]

TypeOK ==
  /\ buffer \in [Slots -> Items \cup {NoItem}]
  /\ headLog \in Seq(Store) \ {<<>>}
  /\ tailLog \in Seq(Store) \ {<<>>}
  /\ prod \in [pc : {"idle", "loadHead", "full", "write", "store"},
               item : Items \cup {NoItem}, tail : Slots, seen : Nat, knows : Nat]
  /\ cons \in [pc : {"idle", "loadTail", "read", "store"},
               item : Items \cup {NoItem}, head : Slots, seen : Nat, knows : Nat]
  /\ sent \in Seq(Items)
  /\ received \in Seq(Items)
  /\ writtenAt \in [Slots -> Nat]
  /\ readAt \in [Slots -> Nat]

(***************************************************************************)
(* No data race on a slot: when the producer is about to write one it has  *)
(* learnt, through head, of the consumer's last read of it, and when the   *)
(* consumer is about to read one it has learnt, through tail, of the       *)
(* producer's last write.  (What the acquire/release pairs are for.)       *)
(***************************************************************************)
NoDataRace ==
  /\ prod.pc = "write" => readAt[prod.tail] <= prod.knows
  /\ cons.pc = "read" => writtenAt[cons.head] <= cons.knows

(***************************************************************************)
(* push reports a full ring only if Capacity - 1 items were inside at some *)
(* moment the producer may still take for the present: the last pop it has *)
(* seen leaves that many unread.                                           *)
(***************************************************************************)
FullOnlyWhenFull ==
  prod.pc = "full" => Len(sent) - (prod.seen - 1) = Capacity - 1

(***************************************************************************)
(* The ring implements a FIFO of Capacity - 1 places: nothing is lost,     *)
(* duplicated, reordered or overwritten before it is read, and a consumer  *)
(* that keeps popping gets every item.                                     *)
(***************************************************************************)
FIFO == INSTANCE BoundedFIFO
          WITH Bound <- Capacity - 1, delivered <- received,
               queue <- SubSeq(sent, Len(received) + 1, Len(sent))

ImplementsFIFO == FIFO!Spec

(***************************************************************************)
(* A caller that spins on a full ring gets its item in.                    *)
(***************************************************************************)
SpinningPushEnds == prod.pc = "full" ~> prod.pc = "idle"
=============================================================================
