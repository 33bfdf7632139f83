------------------------------ MODULE Pipeline ------------------------------
(***************************************************************************)
(* The way of a command from one thread to the other with its five stamps, *)
(* and the LatencyTracker at its end: in the benchmark (benchmark.cpp),    *)
(* which runs it several times over either queue with orders only, and in  *)
(* the server, where STATS comes in between and prints a report.  A round  *)
(* is one such run, with a tracker that was just reset.                    *)
(*                                                                         *)
(* The SPSC ring is the bounded FIFO SPSCQueue.tla is shown to implement.  *)
(* MutexQueue is taken apart: the container is read when the mutex has     *)
(* been locked and written when it is unlocked, so that two threads inside *)
(* at once would undo each other's work.                                   *)
(***************************************************************************)
EXTENDS LatencyTracker

CONSTANTS
  Rounds,      \* the runs: [kind |-> "spsc" or "mutex", types |-> commands]
  QueueBound,  \* commands the ring can hold
  MaxClock     \* bounds steady_clock

ASSUME PipelineAssumption ==
  /\ QueueBound \in Nat \ {0} /\ MaxClock \in Nat \ {0}
  /\ MaxTime \in Nat /\ MaxTime > MaxClock
  /\ Rounds # <<>>
  /\ Rounds \in Seq([kind : {"spsc", "mutex"}, types : Seq({"NEW", "STATS"})])

VARIABLES
  round, clock,
  prod, hand,   \* the producer: where it is, and its command
  sent,         \* its loop counter i
  cons, cmd,    \* the consumer: where it is, and its command
  processed,
  queue_, mtx_, \* the queue, and who has the mutex
  view,         \* MutexQueue: the container as each thread found it
  tracker,
  done          \* history: the commands recorded in this round

producer == <<prod, hand, sent>>
consumer == <<cons, cmd, processed, tracker, done>>
queueVars == <<queue_, mtx_, view>>
world == <<round, clock>>
vars == <<world, producer, consumer, queueVars>>

Kind == Rounds[round].kind
Types == Rounds[round].types
N == Len(Types)
None == [id |-> 0]
Threads == {"producer", "consumer"}

\* makeCommand: ids count from 1; what the order says is left out.
MakeCommand(i) ==
  [id |-> i + 1, type |-> Types[i + 1],
   recv |-> 0, push |-> 0, pop |-> 0, start |-> 0, complete |-> 0]

Init ==
  /\ round = 1 /\ clock = 1
  /\ prod = "recv" /\ hand = None /\ sent = 0
  /\ cons = "pop" /\ cmd = None /\ processed = 0
  /\ queue_ = <<>> /\ mtx_ = "free" /\ view = [t \in Threads |-> <<>>]
  /\ tracker = Fresh /\ done = <<>>

\* steady_clock goes on, never back.
Tick ==
  /\ clock < MaxClock
  /\ clock' = clock + 1
  /\ UNCHANGED <<round, producer, consumer, queueVars>>

-----------------------------------------------------------------------------
(* MutexQueue: lock_guard, then the body, then the unlock. *)

\* FAULT for Free: no lock_guard.
FreeAlways == TRUE

Free == mtx_ = "free"

Lock(t) ==
  /\ Kind = "mutex" /\ Free
  /\ mtx_' = t
  /\ view' = [view EXCEPT ![t] = queue_]
  /\ UNCHANGED queue_

Unlock(t, contents) ==
  /\ mtx_' = "free"
  /\ queue_' = contents
  /\ view' = [view EXCEPT ![t] = <<>>]

-----------------------------------------------------------------------------
(* The producer. *)

StampRecv ==
  /\ prod = "recv" /\ sent < N
  /\ hand' = [MakeCommand(sent) EXCEPT !.recv = clock]
  /\ prod' = "stamp"
  /\ UNCHANGED <<world, sent, consumer, queueVars>>

\* FAULT for StampPush: the stamp of an earlier use of the command stays.
StampPushNever ==
  /\ prod = "stamp"
  /\ hand' = [hand EXCEPT !.push = 0]
  /\ prod' = "push"
  /\ UNCHANGED <<world, sent, consumer, queueVars>>

StampPush ==
  /\ prod = "stamp"
  /\ hand' = [hand EXCEPT !.push = clock]
  /\ prod' = "push"
  /\ UNCHANGED <<world, sent, consumer, queueVars>>

Pushed == prod' = "recv" /\ sent' = sent + 1 /\ hand' = None

\* FAULT for HasRoom: the ring takes any number of commands.
HasRoomAlways == TRUE

HasRoom == Len(queue_) < QueueBound

\* while (!queue.push) yield: goes on when there is room.
Push ==
  /\ prod = "push" /\ Kind = "spsc" /\ HasRoom
  /\ queue_' = Append(queue_, hand)
  /\ Pushed
  /\ UNCHANGED <<world, consumer, mtx_, view>>

PushLock ==
  /\ prod = "push" /\ Lock("producer")
  /\ prod' = "locked"
  /\ UNCHANGED <<world, hand, sent, consumer>>

PushUnlock ==
  /\ prod = "locked"
  /\ Unlock("producer", Append(view["producer"], hand))
  /\ Pushed
  /\ UNCHANGED <<world, consumer>>

-----------------------------------------------------------------------------
(* The consumer. *)

\* FAULT for Going: "<=" for "<".
GoingLate == processed <= N

\* while (processed < numOrders)
Going == processed < N

Pop ==
  /\ cons = "pop" /\ Kind = "spsc" /\ Going
  /\ queue_ # <<>>
  /\ cmd' = Head(queue_)
  /\ queue_' = Tail(queue_)
  /\ cons' = "popped"
  /\ UNCHANGED <<world, producer, processed, tracker, done, mtx_, view>>

PopLock ==
  /\ cons = "pop" /\ Going /\ Lock("consumer")
  /\ cons' = "locked"
  /\ UNCHANGED <<world, producer, cmd, processed, tracker, done>>

\* false when the queue is empty: yield and try again.
PopUnlock ==
  LET found == view["consumer"]
  IN  /\ cons = "locked"
      /\ IF found = <<>>
         THEN Unlock("consumer", found) /\ cons' = "pop" /\ UNCHANGED cmd
         ELSE /\ Unlock("consumer", Tail(found))
              /\ cons' = "popped"
              /\ cmd' = Head(found)
      /\ UNCHANGED <<world, producer, processed, tracker, done>>

StampPop ==
  /\ cons = "popped"
  /\ cmd' = [cmd EXCEPT !.pop = clock]
  /\ cons' = "dispatch"
  /\ UNCHANGED <<world, producer, processed, tracker, done, queueVars>>

Stats ==
  /\ cons = "dispatch" /\ cmd.type = "STATS"
  /\ tracker' = PrintStats(tracker)
  /\ cons' = "pop" /\ cmd' = None /\ processed' = processed + 1
  /\ UNCHANGED <<world, producer, done, queueVars>>

StampStart ==
  /\ cons = "dispatch" /\ cmd.type = "NEW"
  /\ cmd' = [cmd EXCEPT !.start = clock]
  /\ cons' = "match"
  /\ UNCHANGED <<world, producer, processed, tracker, done, queueVars>>

\* addOrder and matchOrders are over: the last stamp, and record.
Complete ==
  LET stamped == [cmd EXCEPT !.complete = clock]
  IN  /\ cons = "match"
      /\ tracker' = Record(tracker, stamped)
      /\ done' = Append(done, stamped)
      /\ cons' = "pop" /\ cmd' = None /\ processed' = processed + 1
      /\ UNCHANGED <<world, producer, queueVars>>

\* The loop is left.
Leave ==
  /\ cons = "pop" /\ ~Going
  /\ cons' = "done"
  /\ UNCHANGED <<world, producer, cmd, processed, tracker, done, queueVars>>

-----------------------------------------------------------------------------
\* consumer.join(), and the report of the percentiles.
Join ==
  /\ prod = "recv" /\ sent = N /\ cons = "done"
  /\ prod' = "joined"
  /\ tracker' = ReadPercentiles(tracker)
  /\ UNCHANGED <<world, hand, sent, cons, cmd, processed, done, queueVars>>

\* The next run: another queue, and tracker.reset().
NextRound ==
  /\ prod = "joined" /\ round < Len(Rounds)
  /\ round' = round + 1
  /\ prod' = "recv" /\ sent' = 0
  /\ cons' = "pop" /\ processed' = 0
  /\ queue_' = <<>>
  /\ tracker' = Fresh /\ done' = <<>>
  /\ UNCHANGED <<clock, hand, cmd, mtx_, view>>

Producing ==
  StampRecv \/ StampPush \/ Push \/ PushLock \/ PushUnlock \/ Join \/ NextRound
Consuming ==
  \/ Pop \/ PopLock \/ PopUnlock \/ StampPop
  \/ Stats \/ StampStart \/ Complete \/ Leave

Next == Tick \/ Producing \/ Consuming

(***************************************************************************)
(* Both threads run; and a mutex that is released again and again is not   *)
(* taken by the spinning consumer every time.                              *)
(***************************************************************************)
Spec ==
  /\ Init /\ [][Next]_vars
  /\ WF_vars(Producing) /\ WF_vars(Consuming) /\ SF_vars(PushLock)

-----------------------------------------------------------------------------
(* Type invariant. *)
TypeOK ==
  /\ round \in DOMAIN Rounds /\ clock \in 1 .. MaxClock
  /\ prod \in {"recv", "stamp", "push", "locked", "joined"}
  /\ cons \in {"pop", "locked", "popped", "dispatch", "match", "done"}
  /\ mtx_ \in {"free"} \cup Threads
  /\ 0 <= processed /\ processed <= sent /\ sent <= N
  /\ Kind = "spsc" => Len(queue_) <= QueueBound
  /\ \A f \in Vectors : tracker[f] \in Seq(Int)
  /\ \A f \in DOMAIN tracker \ Vectors : tracker[f] \in Int

(***************************************************************************)
(* "Guarantees non-negative deltas" (order.h): across two threads, every   *)
(* latency recorded is non-negative, and the network, queue and matching   *)
(* times of a command are disjoint parts of its end-to-end time.           *)
(***************************************************************************)
SegmentsFit ==
  \A i \in DOMAIN done :
    LET l == Latency(done[i])
    IN  /\ \A f \in Vectors : l[f] >= 0
        /\ l.network + l.queue + l.match <= l.e2e

\* The least sample that at least p hundredths of them do not exceed.
NearestRank(samples, p) ==
  LET Share(v) == Cardinality({i \in DOMAIN samples : samples[i] <= v})
  IN  Min({v \in Range(samples) : 100 * Share(v) >= p * Len(samples)})

(***************************************************************************)
(* Whenever a report is printed, after earlier ones sorted the vectors and *)
(* earlier rounds filled them: count, average, minimum, maximum, totals    *)
(* and percentiles are those of the commands recorded in this round.       *)
(***************************************************************************)
TrackerIsExact ==
  LET Of(f) == [i \in DOMAIN done |-> Latency(done[i])[f]]
      Total(f) == FoldLeft(+, 0, Of(f))
  IN  /\ tracker.totalCount = Len(done)
      /\ tracker.timeNetwork = Total("network")
      /\ tracker.timeQueue = Total("queue")
      /\ tracker.timeOrderbook = Total("match")
      /\ done # <<>> =>
           /\ GetAvgE2E(tracker) = Total("e2e") \div Len(done)
           /\ tracker.minE2E = Min(Range(Of("e2e")))
           /\ tracker.maxE2E = Max(Range(Of("e2e")))
           /\ \A f \in Vectors, p \in {50, 95, 99} :
                Percentile(tracker[f], p) = NearestRank(Of(f), p)

(***************************************************************************)
(* Over either queue the orders of a round are recorded once each and in   *)
(* the order they were pushed, an order never before an earlier one, and   *)
(* none of them is left behind at join.                                    *)
(***************************************************************************)
RecordedOnceInOrder ==
  LET Orders == {n \in 1 .. N : Types[n] = "NEW"}
      Ids == {done[i].id : i \in DOMAIN done}
  IN  /\ \A i, j \in DOMAIN done : i < j => done[i].id < done[j].id
      /\ Ids \subseteq Orders
      /\ \A n \in Ids, m \in Orders : m < n => m \in Ids
      /\ prod = "joined" => Ids = Orders /\ queue_ = <<>>

(***************************************************************************)
(* Every round ends, with the ring full or the consumer spinning on the    *)
(* mutex: the join of the benchmark does not wait for ever.                *)
(***************************************************************************)
RoundsEnd == <>(round = Len(Rounds) /\ prod = "joined")
=============================================================================
