---------------------------- MODULE PipelineProofs ----------------------------
(***************************************************************************)
(* Proofs about the way of a command through either queue, for every list  *)
(* of rounds, every number of commands, every size of the ring and every   *)
(* clock.                                                                  *)
(*                                                                         *)
(* The inductive invariant numbers what is under way: done and processed,  *)
(* then the command of the consumer, then the queue, then the command of   *)
(* the producer, without a gap; and it orders the stamps each of them has  *)
(* got so far.  Over MutexQueue it holds because the thread that has the   *)
(* mutex knows the container as it is.  On top of it, Kept says that the   *)
(* tracker's vectors are the latencies of the commands done, rearranged,   *)
(* and its aggregates the sums and the extremes of those.                  *)
(***************************************************************************)
EXTENDS Pipeline, DataLemmas

Command ==
  [id : Nat, type : {"NEW", "STATS"},
   recv : Nat, push : Nat, pop : Nat, start : Nat, complete : Nat]

\* The producer, or the consumer, is at work on a command.
HasHand == prod \in {"stamp", "push", "locked"}
HasCmd == cons \in {"popped", "dispatch", "match"}

Typed ==
  /\ round \in DOMAIN Rounds /\ clock \in Nat
  /\ prod \in {"recv", "stamp", "push", "locked", "joined"}
  /\ cons \in {"pop", "locked", "popped", "dispatch", "match", "done"}
  /\ sent \in Nat /\ sent <= N /\ processed \in Nat
  /\ HasHand => hand \in Command
  /\ HasCmd => cmd \in Command
  /\ queue_ \in Seq(Command) /\ done \in Seq(Command)
  /\ view \in [Threads -> Seq(Command)]

\* Who has the mutex is between lock and unlock, and its view is the queue.
OneInside ==
  /\ mtx_ = "producer" <=> prod = "locked"
  /\ mtx_ = "consumer" <=> cons = "locked"
  /\ \A t \in Threads : mtx_ = t => Kind = "mutex" /\ view[t] = queue_

\* The command with number n, pushed when its stamps say.
Numbered(c, n) == c.id = n /\ n <= N /\ c.type = Types[n]
Sent(c) == c.recv <= c.push /\ c.push <= clock

HandIsNext ==
  HasHand =>
    /\ Numbered(hand, sent + 1) /\ hand.recv <= clock
    /\ prod # "stamp" => Sent(hand)

\* Nothing is missing between the consumer and the producer.
NoGap == sent = processed + (IF HasCmd THEN 1 ELSE 0) + Len(queue_)

QueueInOrder ==
  \A i \in 1 .. Len(queue_) :
    Numbered(queue_[i], (sent - Len(queue_)) + i) /\ Sent(queue_[i])

CmdIsNext ==
  HasCmd =>
    /\ Numbered(cmd, processed + 1) /\ Sent(cmd)
    /\ cons # "popped" => cmd.push <= cmd.pop /\ cmd.pop <= clock
    /\ cons = "match" =>
         cmd.pop <= cmd.start /\ cmd.start <= clock /\ cmd.type = "NEW"

\* The orders up to processed, in order, with their stamps in order.
DoneSoFar ==
  /\ \A i, j \in DOMAIN done : i < j => done[i].id < done[j].id
  /\ \A i \in DOMAIN done :
       /\ Numbered(done[i], done[i].id) /\ done[i].type = "NEW"
       /\ 1 <= done[i].id /\ done[i].id <= processed
       /\ done[i].recv <= done[i].push /\ done[i].push <= done[i].pop
       /\ done[i].pop <= done[i].start /\ done[i].start <= done[i].complete
  /\ \A n \in 1 .. processed :
       Types[n] = "NEW" => \E i \in DOMAIN done : done[i].id = n

Ends ==
  /\ cons = "done" => processed >= N
  /\ prod = "joined" => sent = N /\ cons = "done"

IInv ==
  /\ Typed /\ OneInside /\ HandIsNext /\ NoGap /\ QueueInOrder
  /\ CmdIsNext /\ DoneSoFar /\ Ends

-----------------------------------------------------------------------------
(* The commands of a round, and what a stamp does to one. *)

LEMMA RoundFacts ==
  \A r \in DOMAIN Rounds :
    /\ Rounds[r].kind \in {"spsc", "mutex"}
    /\ Rounds[r].types \in Seq({"NEW", "STATS"})
    /\ Len(Rounds[r].types) \in Nat
<1> DEFINE R == [kind : {"spsc", "mutex"}, types : Seq({"NEW", "STATS"})]
<1>1. Rounds \in Seq(R)
  BY PipelineAssumption DEF PipelineAssumption
<1> HIDE DEF R
<1>2. \A r \in DOMAIN Rounds : Rounds[r] \in R
  BY <1>1
<1>3. ASSUME NEW r \in R
      PROVE  /\ r.kind \in {"spsc", "mutex"}
             /\ r.types \in Seq({"NEW", "STATS"}) /\ Len(r.types) \in Nat
  BY DEF R
<1> QED
  BY <1>2, <1>3

\* What the round in hand is.
LEMMA ThisRound ==
  ASSUME Typed
  PROVE  N \in Nat /\ \A n \in 1 .. N : Types[n] \in {"NEW", "STATS"}
<1>1. Types \in Seq({"NEW", "STATS"}) /\ N = Len(Types)
  BY RoundFacts DEF Typed, Types, N
<1> HIDE DEF Types, N
<1> QED
  BY <1>1

\* Nothing of the round changes within the round.
LEMMA SameRound ==
  ASSUME round' = round
  PROVE  Types' = Types /\ N' = N /\ Kind' = Kind
  BY DEF Types, N, Kind

LEMMA MakeFacts ==
  ASSUME Typed, sent < N
  PROVE  LET made == [MakeCommand(sent) EXCEPT !.recv = clock]
         IN  made \in Command /\ Numbered(made, sent + 1) /\ made.recv = clock
<1>1. /\ clock \in Nat /\ sent \in Nat /\ sent + 1 <= N
      /\ Types[sent + 1] \in {"NEW", "STATS"}
  BY ThisRound DEF Typed
<1> HIDE DEF Types, N
<1> QED
  BY <1>1 DEF MakeCommand, Command, Numbered

LEMMA StampFacts ==
  ASSUME NEW c \in Command, NEW t \in Nat
  PROVE  /\ [c EXCEPT !.push = t] \in Command
         /\ [c EXCEPT !.pop = t] \in Command
         /\ [c EXCEPT !.start = t] \in Command
         /\ [c EXCEPT !.complete = t] \in Command
  BY DEF Command

LEMMA CommandFacts ==
  ASSUME NEW c \in Command
  PROVE  /\ c.id \in Nat /\ c.type \in {"NEW", "STATS"}
         /\ {c.recv, c.push, c.pop, c.start, c.complete} \subseteq Nat
  BY DEF Command

\* A command more at the end of a sequence, and one less at its head.
LEMMA SequenceFacts ==
  ASSUME NEW S, NEW s \in Seq(S)
  PROVE  /\ Len(s) \in Nat /\ \A i \in 1 .. Len(s) : s[i] \in S
         /\ \A x \in S :
              /\ Append(s, x) \in Seq(S) /\ Len(Append(s, x)) = Len(s) + 1
              /\ Append(s, x)[Len(s) + 1] = x
              /\ \A i \in 1 .. Len(s) : Append(s, x)[i] = s[i]
         /\ s # <<>> =>
              /\ Tail(s) \in Seq(S) /\ Len(Tail(s)) = Len(s) - 1
              /\ Head(s) = s[1] /\ Head(s) \in S /\ Len(s) >= 1
              /\ \A i \in 1 .. Len(Tail(s)) : Tail(s)[i] = s[i + 1]
  OBVIOUS

\* The consumer takes the command that follows the last one it processed.
LEMMA TakenHead ==
  ASSUME IInv, queue_ # <<>>, ~HasCmd
  PROVE  Numbered(Head(queue_), processed + 1) /\ Sent(Head(queue_))
<1>1. queue_ \in Seq(Command) /\ sent \in Nat /\ processed \in Nat
  BY DEF IInv, Typed
<1>2. Len(queue_) \in Nat /\ 1 \in 1 .. Len(queue_) /\ Head(queue_) = queue_[1]
  BY <1>1, SequenceFacts
<1>3. (sent - Len(queue_)) + 1 = processed + 1
  BY <1>1, <1>2 DEF IInv, NoGap
<1> QED
  BY <1>2, <1>3 DEF IInv, QueueInOrder

LEMMA TakenQueue ==
  ASSUME IInv, queue_ # <<>>, queue_' = Tail(queue_),
         UNCHANGED <<sent, clock, round>>
  PROVE  QueueInOrder'
<1>1. queue_ \in Seq(Command) /\ sent \in Nat
  BY DEF IInv, Typed
<1>2. /\ Len(queue_) \in Nat /\ Len(queue_') = Len(queue_) - 1
      /\ \A i \in 1 .. Len(queue_') : queue_'[i] = queue_[i + 1]
  BY <1>1, SequenceFacts
<1>3. Types' = Types /\ N' = N
  BY SameRound
<1> HIDE DEF Types, N
<1> SUFFICES ASSUME NEW i \in 1 .. Len(queue_')
             PROVE  (Numbered(queue_[i], (sent - Len(queue_)) + i)
                     /\ Sent(queue_[i]))'
  BY DEF QueueInOrder
<1>4. i + 1 \in 1 .. Len(queue_)
      /\ (sent' - Len(queue_')) + i = (sent - Len(queue_)) + (i + 1)
  BY <1>1, <1>2
<1>5. Numbered(queue_[i + 1], (sent - Len(queue_)) + (i + 1))
      /\ Sent(queue_[i + 1])
  BY <1>4 DEF IInv, QueueInOrder
<1> QED
  BY <1>2, <1>3, <1>4, <1>5 DEF Numbered, Sent

-----------------------------------------------------------------------------
(* Every step keeps the invariant. *)

\* Stamps that were taken stay in the past.
LEMMA TickStep ==
  ASSUME IInv, Tick
  PROVE  IInv'
<1> USE DEF IInv, Tick, world, producer, consumer, queueVars
<1>r. Types' = Types /\ N' = N /\ Kind' = Kind
  BY SameRound
<1> HIDE DEF Types, N, Kind
<1>1. Typed'
  BY <1>r DEF Typed, HasHand, HasCmd
<1>2. OneInside'
  BY <1>r DEF OneInside, Typed, Threads
<1>3. HandIsNext'
  <2>1. HasHand => hand.recv \in Nat /\ hand.push \in Nat
    BY CommandFacts DEF Typed
  <2> QED
    BY <1>r, <2>1 DEF HandIsNext, HasHand, Numbered, Sent, Typed
<1>4. NoGap'
  BY <1>r DEF NoGap, HasCmd
<1>5. QueueInOrder'
  <2>1. \A i \in 1 .. Len(queue_) : queue_[i].push \in Nat
    BY SequenceFacts, CommandFacts DEF Typed
  <2> QED
    BY <1>r, <2>1 DEF QueueInOrder, Numbered, Sent, Typed
<1>6. CmdIsNext'
  <2>1. HasCmd => {cmd.push, cmd.pop, cmd.start} \subseteq Nat
    BY CommandFacts DEF Typed
  <2> QED
    BY <1>r, <2>1 DEF CmdIsNext, HasCmd, Numbered, Sent, Typed
<1>7. DoneSoFar'
  BY <1>r DEF DoneSoFar, Numbered
<1>8. Ends'
  BY <1>r DEF Ends
<1> QED
  BY <1>1, <1>2, <1>3, <1>4, <1>5, <1>6, <1>7, <1>8

\* The producer begins the command with the next number.
LEMMA StampRecvStep ==
  ASSUME IInv, StampRecv
  PROVE  IInv'
<1> USE DEF IInv, StampRecv, world, producer, consumer, queueVars
<1>r. Types' = Types /\ N' = N /\ Kind' = Kind
  BY SameRound
<1> HIDE DEF Types, N, Kind
<1>a. hand' \in Command /\ Numbered(hand', sent + 1) /\ hand'.recv = clock
  BY MakeFacts
<1>1. Typed'
  BY <1>r, <1>a DEF Typed, HasHand, HasCmd
<1>2. OneInside'
  BY <1>r DEF OneInside, Typed, Threads
<1>3. HandIsNext'
  BY <1>r, <1>a DEF HandIsNext, Numbered, Typed
<1>4. NoGap'
  BY <1>r DEF NoGap, HasCmd
<1>5. QueueInOrder'
  BY <1>r DEF QueueInOrder, Numbered, Sent
<1>6. CmdIsNext'
  BY <1>r DEF CmdIsNext, HasCmd, Numbered, Sent
<1>7. DoneSoFar'
  BY <1>r DEF DoneSoFar, Numbered
<1>8. Ends'
  BY <1>r DEF Ends
<1> QED
  BY <1>1, <1>2, <1>3, <1>4, <1>5, <1>6, <1>7, <1>8

\* It is stamped just before the push.
LEMMA StampPushStep ==
  ASSUME IInv, StampPush
  PROVE  IInv'
<1> USE DEF IInv, StampPush, world, producer, consumer, queueVars
<1>r. Types' = Types /\ N' = N /\ Kind' = Kind
  BY SameRound
<1> HIDE DEF Types, N, Kind
<1>a. hand \in Command /\ clock \in Nat
  BY DEF Typed, HasHand
<1>b. /\ hand' \in Command /\ hand'.push = clock
      /\ hand'.id = hand.id /\ hand'.type = hand.type
      /\ hand'.recv = hand.recv
  BY <1>a, StampFacts DEF Command
<1>1. Typed'
  BY <1>r, <1>b DEF Typed, HasHand, HasCmd
<1>2. OneInside'
  BY <1>r DEF OneInside, Typed, Threads
<1>3. HandIsNext'
  BY <1>r, <1>a, <1>b DEF HandIsNext, HasHand, Numbered, Sent
<1>4. NoGap'
  BY <1>r DEF NoGap, HasCmd
<1>5. QueueInOrder'
  BY <1>r DEF QueueInOrder, Numbered, Sent
<1>6. CmdIsNext'
  BY <1>r DEF CmdIsNext, HasCmd, Numbered, Sent
<1>7. DoneSoFar'
  BY <1>r DEF DoneSoFar, Numbered
<1>8. Ends'
  BY <1>r DEF Ends
<1> QED
  BY <1>1, <1>2, <1>3, <1>4, <1>5, <1>6, <1>7, <1>8

\* The ring gets the next command.
LEMMA PushStep ==
  ASSUME IInv, Push
  PROVE  IInv'
<1> USE DEF IInv, Push, Pushed, world, producer, consumer, queueVars
<1>r. Types' = Types /\ N' = N /\ Kind' = Kind
  BY SameRound
<1> HIDE DEF Types, N, Kind
<1>a. /\ queue_ \in Seq(Command) /\ hand \in Command
      /\ queue_' = Append(queue_, hand)
      /\ HasHand /\ prod # "stamp" /\ sent \in Nat
  BY DEF Typed, HasHand
<1>b. /\ queue_' \in Seq(Command) /\ Len(queue_') = Len(queue_) + 1
      /\ Len(queue_) \in Nat /\ queue_'[Len(queue_) + 1] = hand
      /\ \A i \in 1 .. Len(queue_) : queue_'[i] = queue_[i]
  BY <1>a, SequenceFacts
<1>c. /\ Numbered(hand, sent + 1) /\ Sent(hand)
      /\ sent' = sent + 1 /\ sent + 1 <= N
  BY <1>a DEF HandIsNext, Numbered
<1>1. Typed'
  BY <1>r, <1>a, <1>b, <1>c DEF Typed, HasHand, HasCmd
<1>2. OneInside'
  BY <1>r DEF OneInside, Typed, Threads
<1>3. HandIsNext'
  BY <1>r DEF HandIsNext, HasHand, Numbered, Sent
<1>4. NoGap'
  <2> DEFINE k == IF HasCmd THEN 1 ELSE 0
  <2>1. k \in Nat /\ k' = k /\ processed' = processed /\ processed \in Nat
    BY DEF HasCmd, Typed
  <2>2. sent = processed + k + Len(queue_)
    BY DEF NoGap
  <2> HIDE DEF k
  <2>3. sent' = processed' + k' + Len(queue_')
    BY <1>a, <1>b, <1>c, <2>1, <2>2
  <2> QED
    BY <2>3 DEF NoGap, k
<1>5. QueueInOrder'
  <2> SUFFICES ASSUME NEW i \in 1 .. Len(queue_')
               PROVE  (Numbered(queue_[i], (sent - Len(queue_)) + i)
                       /\ Sent(queue_[i]))'
    BY DEF QueueInOrder
  <2>1. (sent' - Len(queue_')) + i = (sent - Len(queue_)) + i
    BY <1>a, <1>b, <1>c
  <2>2. CASE i \in 1 .. Len(queue_)
    BY <1>b, <1>r, <2>1, <2>2 DEF QueueInOrder, Numbered, Sent
  <2>3. CASE i = Len(queue_) + 1
    <3>1. (sent - Len(queue_)) + i = sent + 1
      BY <1>a, <1>b, <2>3
    <3> QED
      BY <1>b, <1>c, <1>r, <2>1, <2>3, <3>1 DEF Numbered, Sent
  <2>4. i \in 1 .. Len(queue_) \/ i = Len(queue_) + 1
    BY <1>b
  <2> QED
    BY <2>2, <2>3, <2>4
<1>6. CmdIsNext'
  BY <1>r DEF CmdIsNext, HasCmd, Numbered, Sent
<1>7. DoneSoFar'
  BY <1>r DEF DoneSoFar, Numbered
<1>8. Ends'
  BY <1>r DEF Ends
<1> QED
  BY <1>1, <1>2, <1>3, <1>4, <1>5, <1>6, <1>7, <1>8

\* The producer finds the queue as it is.
LEMMA PushLockStep ==
  ASSUME IInv, PushLock
  PROVE  IInv'
<1> USE DEF IInv, PushLock, Lock, world, producer, consumer, queueVars
<1>r. Types' = Types /\ N' = N /\ Kind' = Kind
  BY SameRound
<1> HIDE DEF Types, N, Kind
<1>1. Typed'
  <2>1. view' \in [Threads -> Seq(Command)]
    BY DEF Typed
  <2> QED
    BY <1>r, <2>1 DEF Typed, HasHand, HasCmd
<1>2. OneInside'
  BY <1>r DEF OneInside, Typed, Threads, Free
<1>3. HandIsNext'
  BY <1>r DEF HandIsNext, HasHand, Numbered, Sent
<1>4. NoGap'
  BY <1>r DEF NoGap, HasCmd
<1>5. QueueInOrder'
  BY <1>r DEF QueueInOrder, Numbered, Sent
<1>6. CmdIsNext'
  BY <1>r DEF CmdIsNext, HasCmd, Numbered, Sent
<1>7. DoneSoFar'
  BY <1>r DEF DoneSoFar, Numbered
<1>8. Ends'
  BY <1>r DEF Ends
<1> QED
  BY <1>1, <1>2, <1>3, <1>4, <1>5, <1>6, <1>7, <1>8

\* The queue was not touched since, and gets the next command.
LEMMA PushUnlockStep ==
  ASSUME IInv, PushUnlock
  PROVE  IInv'
<1> USE DEF IInv, PushUnlock, Unlock, Pushed, world, producer, consumer, queueVars
<1>r. Types' = Types /\ N' = N /\ Kind' = Kind
  BY SameRound
<1> HIDE DEF Types, N, Kind
<1>a. /\ queue_ \in Seq(Command) /\ hand \in Command
      /\ queue_' = Append(queue_, hand)
      /\ HasHand /\ prod # "stamp" /\ sent \in Nat
  BY DEF Typed, HasHand, OneInside, Threads
<1>b. /\ queue_' \in Seq(Command) /\ Len(queue_') = Len(queue_) + 1
      /\ Len(queue_) \in Nat /\ queue_'[Len(queue_) + 1] = hand
      /\ \A i \in 1 .. Len(queue_) : queue_'[i] = queue_[i]
  BY <1>a, SequenceFacts
<1>c. /\ Numbered(hand, sent + 1) /\ Sent(hand)
      /\ sent' = sent + 1 /\ sent + 1 <= N
  BY <1>a DEF HandIsNext, Numbered
<1>1. Typed'
  <2>0. <<>> \in Seq(Command)
    OBVIOUS
  <2>1. view' \in [Threads -> Seq(Command)]
    BY <2>0 DEF Typed
  <2> QED
    BY <1>r, <1>a, <1>b, <1>c, <2>1 DEF Typed, HasHand, HasCmd
<1>2. OneInside'
  BY <1>r DEF OneInside, Typed, Threads
<1>3. HandIsNext'
  BY <1>r DEF HandIsNext, HasHand, Numbered, Sent
<1>4. NoGap'
  <2> DEFINE k == IF HasCmd THEN 1 ELSE 0
  <2>1. k \in Nat /\ k' = k /\ processed' = processed /\ processed \in Nat
    BY DEF HasCmd, Typed
  <2>2. sent = processed + k + Len(queue_)
    BY DEF NoGap
  <2> HIDE DEF k
  <2>3. sent' = processed' + k' + Len(queue_')
    BY <1>a, <1>b, <1>c, <2>1, <2>2
  <2> QED
    BY <2>3 DEF NoGap, k
<1>5. QueueInOrder'
  <2> SUFFICES ASSUME NEW i \in 1 .. Len(queue_')
               PROVE  (Numbered(queue_[i], (sent - Len(queue_)) + i)
                       /\ Sent(queue_[i]))'
    BY DEF QueueInOrder
  <2>1. (sent' - Len(queue_')) + i = (sent - Len(queue_)) + i
    BY <1>a, <1>b, <1>c
  <2>2. CASE i \in 1 .. Len(queue_)
    BY <1>b, <1>r, <2>1, <2>2 DEF QueueInOrder, Numbered, Sent
  <2>3. CASE i = Len(queue_) + 1
    <3>1. (sent - Len(queue_)) + i = sent + 1
      BY <1>a, <1>b, <2>3
    <3> QED
      BY <1>b, <1>c, <1>r, <2>1, <2>3, <3>1 DEF Numbered, Sent
  <2>4. i \in 1 .. Len(queue_) \/ i = Len(queue_) + 1
    BY <1>b
  <2> QED
    BY <2>2, <2>3, <2>4
<1>6. CmdIsNext'
  BY <1>r DEF CmdIsNext, HasCmd, Numbered, Sent
<1>7. DoneSoFar'
  BY <1>r DEF DoneSoFar, Numbered
<1>8. Ends'
  BY <1>r DEF Ends
<1> QED
  BY <1>1, <1>2, <1>3, <1>4, <1>5, <1>6, <1>7, <1>8

\* The consumer takes the command that follows the last.
LEMMA PopStep ==
  ASSUME IInv, Pop
  PROVE  IInv'
<1> USE DEF IInv, Pop, world, producer, consumer, queueVars
<1>r. Types' = Types /\ N' = N /\ Kind' = Kind
  BY SameRound
<1> HIDE DEF Types, N, Kind
<1>a. /\ queue_ \in Seq(Command) /\ queue_ # <<>>
      /\ queue_' = Tail(queue_) /\ cmd' = Head(queue_)
      /\ cons' = "popped" /\ ~HasCmd
  BY DEF Typed, HasCmd
<1>1. Typed'
  BY <1>a, <1>r, SequenceFacts DEF Typed, HasHand, HasCmd
<1>2. OneInside'
  BY <1>r DEF OneInside, Typed, Threads
<1>3. HandIsNext'
  BY <1>r DEF HandIsNext, HasHand, Numbered, Sent
<1>4. NoGap'
  <2>1. Len(queue_') = Len(queue_) - 1 /\ Len(queue_) \in Nat
    BY <1>a, SequenceFacts
  <2> QED
    BY <1>a, <2>1 DEF NoGap, HasCmd, Typed
<1>5. QueueInOrder'
  BY <1>a, <1>r, TakenQueue DEF Typed
<1>6. CmdIsNext'
  <2>1. Numbered(Head(queue_), processed + 1) /\ Sent(Head(queue_))
    BY <1>a, TakenHead
  <2> QED
    BY <1>a, <1>r, <2>1 DEF CmdIsNext, Numbered, Sent
<1>7. DoneSoFar'
  BY <1>r DEF DoneSoFar, Numbered
<1>8. Ends'
  BY <1>r DEF Ends
<1> QED
  BY <1>1, <1>2, <1>3, <1>4, <1>5, <1>6, <1>7, <1>8

\* The consumer finds the queue as it is.
LEMMA PopLockStep ==
  ASSUME IInv, PopLock
  PROVE  IInv'
<1> USE DEF IInv, PopLock, Lock, world, producer, consumer, queueVars
<1>r. Types' = Types /\ N' = N /\ Kind' = Kind
  BY SameRound
<1> HIDE DEF Types, N, Kind
<1>1. Typed'
  <2>1. view' \in [Threads -> Seq(Command)]
    BY DEF Typed
  <2> QED
    BY <1>r, <2>1 DEF Typed, HasHand, HasCmd
<1>2. OneInside'
  BY <1>r DEF OneInside, Typed, Threads, Free
<1>3. HandIsNext'
  BY <1>r DEF HandIsNext, HasHand, Numbered, Sent
<1>4. NoGap'
  BY <1>r DEF NoGap, HasCmd
<1>5. QueueInOrder'
  BY <1>r DEF QueueInOrder, Numbered, Sent
<1>6. CmdIsNext'
  BY <1>r DEF CmdIsNext, HasCmd, Numbered, Sent
<1>7. DoneSoFar'
  BY <1>r DEF DoneSoFar, Numbered
<1>8. Ends'
  BY <1>r DEF Ends
<1> QED
  BY <1>1, <1>2, <1>3, <1>4, <1>5, <1>6, <1>7, <1>8

\* The queue was not touched since; it was empty, or gives its head.
LEMMA PopUnlockStep ==
  ASSUME IInv, PopUnlock
  PROVE  IInv'
<1> USE DEF IInv, PopUnlock, Unlock, world, producer, consumer, queueVars
<1>r. Types' = Types /\ N' = N /\ Kind' = Kind
  BY SameRound
<1> HIDE DEF Types, N, Kind
<1>a. /\ view["consumer"] = queue_ /\ ~HasCmd /\ queue_ \in Seq(Command)
      /\ view' = [view EXCEPT !["consumer"] = <<>>]
  BY DEF OneInside, Threads, HasCmd, Typed
<1>v. view' \in [Threads -> Seq(Command)] /\ mtx_' = "free"
  <2>1. <<>> \in Seq(Command)
    OBVIOUS
  <2> QED
    BY <1>a, <2>1 DEF Typed
<1>1. Typed'
  <2>1. CASE queue_ = <<>>
    <3>1. queue_' = <<>> /\ cmd' = cmd /\ cons' = "pop"
      BY <1>a, <2>1
    <3> QED
      BY <1>r, <1>v, <2>1, <3>1 DEF Typed, HasHand, HasCmd
  <2>2. CASE queue_ # <<>>
    <3>1. /\ queue_' = Tail(queue_) /\ cmd' = Head(queue_) /\ cons' = "popped"
      BY <1>a, <2>2
    <3>2. queue_' \in Seq(Command) /\ cmd' \in Command
      BY <1>a, <2>2, <3>1, SequenceFacts
    <3> QED
      BY <1>r, <1>v, <3>1, <3>2 DEF Typed, HasHand, HasCmd
  <2> QED
    BY <2>1, <2>2
<1>2. OneInside'
  BY <1>r DEF OneInside, Typed, Threads
<1>3. HandIsNext'
  BY <1>r DEF HandIsNext, HasHand, Numbered, Sent
<1>4. NoGap'
  <2>1. CASE queue_ = <<>>
    BY <1>a, <2>1 DEF NoGap, HasCmd
  <2>2. CASE queue_ # <<>>
    <3>1. queue_' = Tail(queue_) /\ cons' = "popped"
      BY <1>a, <2>2
    <3>2. Len(queue_') = Len(queue_) - 1 /\ Len(queue_) \in Nat
      BY <1>a, <2>2, <3>1, SequenceFacts
    <3>3. sent = processed + Len(queue_) /\ sent \in Nat /\ processed \in Nat
      BY <1>a DEF NoGap, Typed
    <3>4. sent' = sent /\ processed' = processed /\ cons' \in {"popped"}
      BY <3>1
    <3>5. sent' = processed' + 1 + Len(queue_')
      BY <3>2, <3>3, <3>4
    <3> QED
      BY <3>4, <3>5 DEF NoGap, HasCmd
  <2> QED
    BY <2>1, <2>2
<1>5. QueueInOrder'
  <2>1. CASE queue_ = <<>>
    BY <1>a, <2>1 DEF QueueInOrder
  <2>2. CASE queue_ # <<>>
    <3>1. queue_' = Tail(queue_)
      BY <1>a, <2>2
    <3> QED
      BY <1>a, <1>r, <2>2, <3>1, TakenQueue DEF Typed
  <2> QED
    BY <2>1, <2>2
<1>6. CmdIsNext'
  <2>1. CASE queue_ = <<>>
    BY <1>a, <2>1 DEF CmdIsNext, HasCmd
  <2>2. CASE queue_ # <<>>
    <3>1. cmd' = Head(queue_) /\ cons' = "popped"
      BY <1>a, <2>2
    <3>2. Numbered(Head(queue_), processed + 1) /\ Sent(Head(queue_))
      BY <1>a, <2>2, TakenHead
    <3> QED
      BY <1>r, <3>1, <3>2 DEF CmdIsNext, Numbered, Sent
  <2> QED
    BY <2>1, <2>2
<1>7. DoneSoFar'
  BY <1>r DEF DoneSoFar, Numbered
<1>8. Ends'
  BY <1>r DEF Ends
<1> QED
  BY <1>1, <1>2, <1>3, <1>4, <1>5, <1>6, <1>7, <1>8

\* The pop is stamped after the push was.
LEMMA StampPopStep ==
  ASSUME IInv, StampPop
  PROVE  IInv'
<1> USE DEF IInv, StampPop, world, producer, consumer, queueVars
<1>r. Types' = Types /\ N' = N /\ Kind' = Kind
  BY SameRound
<1> HIDE DEF Types, N, Kind
<1>a. cmd \in Command /\ clock \in Nat
  BY DEF Typed, HasCmd
<1>b. /\ cmd' \in Command /\ cmd'.pop = clock
      /\ cmd'.id = cmd.id /\ cmd'.type = cmd.type
      /\ cmd'.recv = cmd.recv /\ cmd'.push = cmd.push
  BY <1>a, StampFacts DEF Command
<1>1. Typed'
  BY <1>r, <1>b DEF Typed, HasHand, HasCmd
<1>2. OneInside'
  BY <1>r DEF OneInside, Typed, Threads
<1>3. HandIsNext'
  BY <1>r DEF HandIsNext, HasHand, Numbered, Sent
<1>4. NoGap'
  BY <1>r DEF NoGap, HasCmd
<1>5. QueueInOrder'
  BY <1>r DEF QueueInOrder, Numbered, Sent
<1>6. CmdIsNext'
  BY <1>r, <1>a, <1>b DEF CmdIsNext, HasCmd, Numbered, Sent
<1>7. DoneSoFar'
  BY <1>r DEF DoneSoFar, Numbered
<1>8. Ends'
  BY <1>r DEF Ends
<1> QED
  BY <1>1, <1>2, <1>3, <1>4, <1>5, <1>6, <1>7, <1>8

\* A report counts as processed, but is not an order.
LEMMA StatsStep ==
  ASSUME IInv, Stats
  PROVE  IInv'
<1> USE DEF IInv, Stats, world, producer, consumer, queueVars
<1>r. Types' = Types /\ N' = N /\ Kind' = Kind
  BY SameRound
<1> HIDE DEF Types, N, Kind
<1>1. Typed'
  BY <1>r DEF Typed, HasHand, HasCmd
<1>2. OneInside'
  BY <1>r DEF OneInside, Typed, Threads
<1>3. HandIsNext'
  BY <1>r DEF HandIsNext, HasHand, Numbered, Sent
<1>4. NoGap'
  BY <1>r DEF NoGap, HasCmd
<1>5. QueueInOrder'
  BY <1>r DEF QueueInOrder, Numbered, Sent
<1>6. CmdIsNext'
  BY <1>r DEF CmdIsNext, HasCmd, Numbered, Sent
<1>7. DoneSoFar'
  <2>1. \A i \in DOMAIN done : done[i].id \in Nat
    BY CommandFacts DEF Typed
  <2>2. Types[processed + 1] # "NEW" /\ processed \in Nat
    BY DEF CmdIsNext, HasCmd, Numbered, Typed
  <2>3. processed' = processed + 1 /\ done' = done
    OBVIOUS
  <2>4. \A n \in 1 .. processed' : n \in 1 .. processed \/ n = processed + 1
    BY <2>2, <2>3
  <2> HIDE DEF Stats
  <2> QED
    BY <1>r, <2>1, <2>2, <2>3, <2>4 DEF DoneSoFar, Numbered
<1>8. Ends'
  BY <1>r DEF Ends
<1> QED
  BY <1>1, <1>2, <1>3, <1>4, <1>5, <1>6, <1>7, <1>8

\* The order is dispatched after it was popped.
LEMMA StampStartStep ==
  ASSUME IInv, StampStart
  PROVE  IInv'
<1> USE DEF IInv, StampStart, world, producer, consumer, queueVars
<1>r. Types' = Types /\ N' = N /\ Kind' = Kind
  BY SameRound
<1> HIDE DEF Types, N, Kind
<1>a. cmd \in Command /\ clock \in Nat
  BY DEF Typed, HasCmd
<1>b. /\ cmd' \in Command /\ cmd'.start = clock
      /\ cmd'.id = cmd.id /\ cmd'.type = cmd.type
      /\ cmd'.recv = cmd.recv /\ cmd'.push = cmd.push /\ cmd'.pop = cmd.pop
  BY <1>a, StampFacts DEF Command
<1>1. Typed'
  BY <1>r, <1>b DEF Typed, HasHand, HasCmd
<1>2. OneInside'
  BY <1>r DEF OneInside, Typed, Threads
<1>3. HandIsNext'
  BY <1>r DEF HandIsNext, HasHand, Numbered, Sent
<1>4. NoGap'
  BY <1>r DEF NoGap, HasCmd
<1>5. QueueInOrder'
  BY <1>r DEF QueueInOrder, Numbered, Sent
<1>6. CmdIsNext'
  BY <1>r, <1>a, <1>b DEF CmdIsNext, HasCmd, Numbered, Sent
<1>7. DoneSoFar'
  BY <1>r DEF DoneSoFar, Numbered
<1>8. Ends'
  BY <1>r DEF Ends
<1> QED
  BY <1>1, <1>2, <1>3, <1>4, <1>5, <1>6, <1>7, <1>8

\* The next order is recorded, with its last stamp.
LEMMA CompleteStep ==
  ASSUME IInv, Complete
  PROVE  IInv'
<1> USE DEF IInv, Complete, world, producer, consumer, queueVars
<1>r. Types' = Types /\ N' = N /\ Kind' = Kind
  BY SameRound
<1> HIDE DEF Types, N, Kind
<1> DEFINE stamped == [cmd EXCEPT !.complete = clock]
<1>a. cmd \in Command /\ clock \in Nat /\ done \in Seq(Command)
      /\ processed \in Nat
  BY DEF Typed, HasCmd
<1>b. /\ stamped \in Command /\ stamped.complete = clock
      /\ stamped.id = cmd.id /\ stamped.type = cmd.type
      /\ stamped.recv = cmd.recv /\ stamped.push = cmd.push
      /\ stamped.pop = cmd.pop /\ stamped.start = cmd.start
  BY <1>a, StampFacts DEF Command
<1>c. done' = Append(done, stamped) /\ processed' = processed + 1
  OBVIOUS
<1> HIDE DEF stamped
<1>d. /\ done' \in Seq(Command) /\ Len(done) \in Nat
      /\ DOMAIN done' = 1 .. Len(done) + 1 /\ DOMAIN done = 1 .. Len(done)
      /\ done'[Len(done) + 1] = stamped
      /\ \A i \in 1 .. Len(done) : done'[i] = done[i] /\ done[i] \in Command
  BY <1>a, <1>b, <1>c, SequenceFacts
<1>1. Typed'
  BY <1>r, <1>a, <1>c, <1>d DEF Typed, HasHand, HasCmd
<1>2. OneInside'
  BY <1>r DEF OneInside, Typed, Threads
<1>3. HandIsNext'
  BY <1>r DEF HandIsNext, HasHand, Numbered, Sent
<1>4. NoGap'
  BY <1>a, <1>c DEF NoGap, HasCmd, Typed
<1>5. QueueInOrder'
  BY <1>r DEF QueueInOrder, Numbered, Sent
<1>6. CmdIsNext'
  BY <1>r DEF CmdIsNext, HasCmd, Numbered, Sent
<1>7. DoneSoFar'
  <2>1. /\ Numbered(cmd, processed + 1) /\ cmd.type = "NEW"
        /\ cmd.recv <= cmd.push /\ cmd.push <= cmd.pop /\ cmd.pop <= cmd.start
        /\ cmd.start <= clock
    BY DEF CmdIsNext, HasCmd, Sent
  <2>2. \A i \in 1 .. Len(done) : done[i].id \in Nat
    BY <1>d, CommandFacts
  <2> HIDE DEF Complete
  <2>3. \A i, j \in DOMAIN done' : i < j => done'[i].id < done'[j].id
    <3>1. \A i, j \in 1 .. Len(done) : i < j => done[i].id < done[j].id
      BY <1>d DEF DoneSoFar
    <3>2. \A i \in 1 .. Len(done) : done[i].id < stamped.id
      BY SMTT(30), <1>a, <1>b, <1>d, <2>1, <2>2 DEF DoneSoFar, Numbered
    <3> QED
      BY <1>d, <3>1, <3>2
  <2>4. ASSUME NEW i \in DOMAIN done'
        PROVE  /\ Numbered(done[i], done[i].id)' /\ done'[i].type = "NEW"
               /\ 1 <= done'[i].id /\ done'[i].id <= processed'
               /\ done'[i].recv <= done'[i].push
               /\ done'[i].push <= done'[i].pop
               /\ done'[i].pop <= done'[i].start
               /\ done'[i].start <= done'[i].complete
    <3>1. CASE i = Len(done) + 1
      <4>1. done'[i] = stamped
        BY <1>d, <3>1
      <4>2. /\ stamped.id = processed + 1 /\ processed + 1 <= N
            /\ stamped.type = Types[processed + 1] /\ stamped.type = "NEW"
        BY <1>b, <2>1 DEF Numbered
      <4>3. Numbered(done[i], done[i].id)' /\ stamped.type = "NEW"
        BY <1>r, <4>1, <4>2 DEF Numbered
      <4>4. 1 <= stamped.id /\ stamped.id <= processed'
        BY <1>a, <1>c, <4>2
      <4>5. /\ stamped.recv <= stamped.push /\ stamped.push <= stamped.pop
            /\ stamped.pop <= stamped.start
            /\ stamped.start <= stamped.complete
        BY <1>b, <2>1
      <4> QED
        BY <4>1, <4>3, <4>4, <4>5
    <3>2. CASE i \in 1 .. Len(done)
      BY <1>a, <1>c, <1>d, <1>r, <2>2, <3>2 DEF DoneSoFar, Numbered
    <3> QED
      BY <1>d, <3>1, <3>2
  <2>5. ASSUME NEW n \in 1 .. processed', Types[n] = "NEW"
        PROVE  \E i \in DOMAIN done' : done'[i].id = n
    <3>1. CASE n = processed + 1
      BY <1>b, <1>d, <2>1, <3>1 DEF Numbered
    <3>2. CASE n \in 1 .. processed
      BY <1>d, <2>5, <3>2 DEF DoneSoFar
    <3> QED
      BY <1>a, <1>c, <3>1, <3>2
  <2> QED
    BY <1>r, <2>3, <2>4, <2>5 DEF DoneSoFar
<1>8. Ends'
  BY <1>r DEF Ends
<1> QED
  BY <1>1, <1>2, <1>3, <1>4, <1>5, <1>6, <1>7, <1>8

\* The consumer has processed all.
LEMMA LeaveStep ==
  ASSUME IInv, Leave
  PROVE  IInv'
<1> USE DEF IInv, Leave, Going, world, producer, consumer, queueVars
<1>r. Types' = Types /\ N' = N /\ Kind' = Kind
  BY SameRound
<1> HIDE DEF Types, N, Kind
<1>1. Typed'
  BY <1>r DEF Typed, HasHand, HasCmd
<1>2. OneInside'
  BY <1>r DEF OneInside, Typed, Threads
<1>3. HandIsNext'
  BY <1>r DEF HandIsNext, HasHand, Numbered, Sent
<1>4. NoGap'
  BY <1>r DEF NoGap, HasCmd
<1>5. QueueInOrder'
  BY <1>r DEF QueueInOrder, Numbered, Sent
<1>6. CmdIsNext'
  BY <1>r DEF CmdIsNext, HasCmd, Numbered, Sent
<1>7. DoneSoFar'
  BY <1>r DEF DoneSoFar, Numbered
<1>8. Ends'
  <2>1. N \in Nat
    BY ThisRound
  <2> QED
    BY <1>r, <2>1 DEF Ends, Typed
<1> QED
  BY <1>1, <1>2, <1>3, <1>4, <1>5, <1>6, <1>7, <1>8

\* Both threads are done.
LEMMA JoinStep ==
  ASSUME IInv, Join
  PROVE  IInv'
<1> USE DEF IInv, Join, world, producer, consumer, queueVars
<1>r. Types' = Types /\ N' = N /\ Kind' = Kind
  BY SameRound
<1> HIDE DEF Types, N, Kind
<1>1. Typed'
  BY <1>r DEF Typed, HasHand, HasCmd
<1>2. OneInside'
  BY <1>r DEF OneInside, Typed, Threads
<1>3. HandIsNext'
  BY <1>r DEF HandIsNext, HasHand, Numbered, Sent
<1>4. NoGap'
  BY <1>r DEF NoGap, HasCmd
<1>5. QueueInOrder'
  BY <1>r DEF QueueInOrder, Numbered, Sent
<1>6. CmdIsNext'
  BY <1>r DEF CmdIsNext, HasCmd, Numbered, Sent
<1>7. DoneSoFar'
  BY <1>r DEF DoneSoFar, Numbered
<1>8. Ends'
  BY <1>r DEF Ends
<1> QED
  BY <1>1, <1>2, <1>3, <1>4, <1>5, <1>6, <1>7, <1>8

\* The next round starts with nothing under way.
LEMMA NextRoundStep ==
  ASSUME IInv, NextRound
  PROVE  IInv'
<1> USE DEF IInv, NextRound, world, producer, consumer, queueVars
<1>r. round + 1 \in DOMAIN Rounds /\ cons = "done"
  BY PipelineAssumption DEF Typed, PipelineAssumption, Ends
<1>n. round' \in DOMAIN Rounds /\ N' \in Nat
  BY <1>r, RoundFacts DEF N, Types
<1>1. Typed'
  BY <1>r, <1>n DEF Typed, HasHand, HasCmd
<1>2. OneInside'
  BY <1>r DEF OneInside, Typed, Threads
<1>3. HandIsNext'
  BY <1>r DEF HandIsNext, HasHand, Numbered, Sent
<1>4. NoGap'
  BY <1>r DEF NoGap, HasCmd
<1>5. QueueInOrder'
  BY <1>r DEF QueueInOrder, Numbered, Sent
<1>6. CmdIsNext'
  BY <1>r DEF CmdIsNext, HasCmd, Numbered, Sent
<1>7. DoneSoFar'
  BY <1>r DEF DoneSoFar, Numbered
<1>8. Ends'
  BY <1>r DEF Ends
<1> QED
  BY <1>1, <1>2, <1>3, <1>4, <1>5, <1>6, <1>7, <1>8

-----------------------------------------------------------------------------
(* The invariant holds from the start and for ever. *)

LEMMA StartsWell == Init => IInv
<1> SUFFICES ASSUME Init PROVE IInv
  OBVIOUS
<1> USE DEF Init
<1>1. round \in DOMAIN Rounds
  BY PipelineAssumption DEF PipelineAssumption
<1>2. N \in Nat
  BY <1>1, RoundFacts DEF N, Types
<1>3. view \in [Threads -> Seq(Command)] /\ queue_ \in Seq(Command)
      /\ done \in Seq(Command)
  OBVIOUS
<1> HIDE DEF N, Types
<1>4. Typed
  BY <1>1, <1>2, <1>3 DEF Typed, HasHand, HasCmd
<1>5. OneInside /\ HandIsNext /\ NoGap
  BY DEF OneInside, Threads, HandIsNext, HasHand, NoGap, HasCmd
<1>6. QueueInOrder /\ CmdIsNext /\ DoneSoFar /\ Ends
  BY <1>2 DEF QueueInOrder, CmdIsNext, HasCmd, DoneSoFar, Ends
<1> QED
  BY <1>4, <1>5, <1>6 DEF IInv

LEMMA Inductive == IInv /\ [Next]_vars => IInv'
<1> SUFFICES ASSUME IInv, [Next]_vars PROVE IInv'
  OBVIOUS
<1>1. ASSUME Producing PROVE IInv'
  BY <1>1, StampRecvStep, StampPushStep, PushStep, PushLockStep,
     PushUnlockStep, JoinStep, NextRoundStep
  DEF Producing
<1>2. ASSUME Consuming PROVE IInv'
  BY <1>2, PopStep, PopLockStep, PopUnlockStep, StampPopStep, StatsStep,
     StampStartStep, CompleteStep, LeaveStep
  DEF Consuming
<1>3. ASSUME UNCHANGED vars PROVE IInv'
  <2>1. /\ UNCHANGED <<round, clock, prod, hand, sent, cons, cmd, processed>>
        /\ UNCHANGED <<queue_, mtx_, view, done>>
    BY <1>3 DEF vars, world, producer, consumer, queueVars
  <2>2. Types' = Types /\ N' = N /\ Kind' = Kind
    BY <2>1, SameRound
  <2> HIDE DEF Types, N, Kind
  <2>3. Typed' /\ OneInside'
    BY <2>1, <2>2 DEF IInv, Typed, HasHand, HasCmd, OneInside
  <2>4. HandIsNext' /\ NoGap' /\ QueueInOrder'
    BY <2>1, <2>2
    DEF IInv, HandIsNext, HasHand, NoGap, HasCmd, QueueInOrder, Numbered, Sent
  <2>5. CmdIsNext' /\ DoneSoFar' /\ Ends'
    BY <2>1, <2>2
    DEF IInv, CmdIsNext, HasCmd, DoneSoFar, Ends, Numbered, Sent
  <2> QED
    BY <2>3, <2>4, <2>5 DEF IInv
<1> QED
  BY <1>1, <1>2, <1>3, TickStep DEF Next

LEMMA AlwaysIInv == Spec => []IInv
  BY StartsWell, Inductive, PTL DEF Spec

-----------------------------------------------------------------------------
(***************************************************************************)
(* "Guarantees non-negative deltas" (order.h), for any two threads and any *)
(* queue between them: every latency of a recorded command is at least 0,  *)
(* and its stages do not overlap.                                          *)
(***************************************************************************)
THEOREM LatenciesFit == Spec => []SegmentsFit
<1>1. IInv => SegmentsFit
  <2> SUFFICES ASSUME IInv, NEW i \in DOMAIN done
               PROVE  LET l == Latency(done[i])
                      IN  /\ \A f \in Vectors : l[f] >= 0
                          /\ l.network + l.queue + l.match <= l.e2e
    BY DEF SegmentsFit
  <2> DEFINE c == done[i]
  <2>1. c \in Command
    BY DEF IInv, Typed
  <2>2. /\ c.recv <= c.push /\ c.push <= c.pop /\ c.pop <= c.start
        /\ c.start <= c.complete
    BY DEF IInv, DoneSoFar
  <2> HIDE DEF c
  <2>3. {c.recv, c.push, c.pop, c.start, c.complete} \subseteq Nat
    BY <2>1, CommandFacts
  <2>4. /\ c.push - c.recv >= 0 /\ c.pop - c.push >= 0
        /\ c.complete - c.start >= 0 /\ c.complete - c.recv >= 0
        /\ (c.push - c.recv) + (c.pop - c.push) + (c.complete - c.start)
             <= c.complete - c.recv
    BY <2>2, <2>3
  <2>5. LET l == Latency(c)
        IN  /\ \A f \in Vectors : l[f] >= 0
            /\ l.network + l.queue + l.match <= l.e2e
    BY <2>4 DEF Latency, Vectors
  <2> QED
    BY <2>5 DEF c
<1> QED
  BY <1>1, AlwaysIInv, PTL

(***************************************************************************)
(* Neither queue loses, repeats or reorders an order, whatever the two     *)
(* threads' steps are interleaved: what is recorded is always the first    *)
(* orders of the round, and all of them when the threads are joined.       *)
(***************************************************************************)
THEOREM OrdersRecordedOnce == Spec => []RecordedOnceInOrder
<1>1. IInv => RecordedOnceInOrder
  <2> SUFFICES ASSUME IInv PROVE RecordedOnceInOrder
    OBVIOUS
  <2> DEFINE Orders == {n \in 1 .. N : Types[n] = "NEW"}
             Ids == {done[i].id : i \in DOMAIN done}
  <2>1. N \in Nat /\ processed \in Nat /\ sent \in Nat /\ sent <= N
        /\ queue_ \in Seq(Command)
    BY ThisRound DEF IInv, Typed
  <2>2. \A i \in DOMAIN done : done[i].id \in Nat
    BY CommandFacts DEF IInv, Typed
  <2>3. \A n \in Ids : n \in Orders /\ n <= processed
    BY <2>2 DEF IInv, DoneSoFar, Numbered
  <2>4. \A n \in Orders : n <= processed => n \in Ids
    BY <2>1 DEF IInv, DoneSoFar
  <2>5. \A n \in Ids, m \in Orders : m < n => m \in Ids
    BY <2>1, <2>2, <2>3, <2>4
  <2>6. ASSUME prod = "joined" PROVE Ids = Orders /\ queue_ = <<>>
    <3>1. sent = N /\ cons = "done" /\ processed >= N
      BY <2>6 DEF IInv, Ends
    <3>2. sent = processed + Len(queue_)
      BY <2>1, <3>1 DEF IInv, NoGap, HasCmd
    <3>3. Len(queue_) = 0
      BY <2>1, <3>1, <3>2
    <3>4. \A n \in Orders : n <= processed
      BY <2>1, <3>1
    <3> QED
      BY <2>1, <2>3, <2>4, <3>3, <3>4
  <2>7. \A i, j \in DOMAIN done : i < j => done[i].id < done[j].id
    BY DEF IInv, DoneSoFar
  <2> QED
    BY <2>3, <2>5, <2>6, <2>7 DEF RecordedOnceInOrder
<1> QED
  BY <1>1, AlwaysIInv, PTL

-----------------------------------------------------------------------------
(* The tracker: its vectors are the latencies of the recorded commands in  *)
(* whatever order, and its figures are computed from them.                 *)

Samples(d, f) == [i \in DOMAIN d |-> Latency(d[i])[f]]

IsTracker(t) ==
  t = [e2e |-> t.e2e, queue |-> t.queue, match |-> t.match,
       network |-> t.network, totalCount |-> t.totalCount,
       minE2E |-> t.minE2E, maxE2E |-> t.maxE2E, sumE2E |-> t.sumE2E,
       timeNetwork |-> t.timeNetwork, timeQueue |-> t.timeQueue,
       timeOrderbook |-> t.timeOrderbook]

\* The least and the greatest end-to-end latency, or what reset leaves.
ExtremesOf(t, d) ==
  LET s == Samples(d, "e2e")
  IN  /\ t.minE2E \in Int /\ t.maxE2E \in Int
      /\ \A i \in DOMAIN d : t.minE2E <= s[i] /\ s[i] <= t.maxE2E
      /\ d = <<>> => t.minE2E = MaxTime /\ t.maxE2E = 0
      /\ d # <<>> => /\ \E i \in DOMAIN d : t.minE2E = s[i]
                     /\ \E i \in DOMAIN d : t.maxE2E = s[i]

SumsOf(t, d) ==
  /\ t.totalCount = Len(d)
  /\ t.sumE2E = Total(Samples(d, "e2e"))
  /\ t.timeNetwork = Total(Samples(d, "network"))
  /\ t.timeQueue = Total(Samples(d, "queue"))
  /\ t.timeOrderbook = Total(Samples(d, "match"))

Records(t, d) ==
  /\ IsTracker(t)
  /\ \A f \in Vectors : Rearranges(t[f], Samples(d, f))
  /\ SumsOf(t, d)
  /\ ExtremesOf(t, d)

LEMMA LatencyType ==
  ASSUME NEW c \in Command
  PROVE  \A f \in Vectors : Latency(c)[f] \in Int
<1>1. {c.recv, c.push, c.pop, c.start, c.complete} \subseteq Nat
  BY CommandFacts
<1> QED
  BY <1>1 DEF Latency, Vectors

LEMMA SamplesType ==
  ASSUME NEW d \in Seq(Command), NEW f \in Vectors
  PROVE  /\ Samples(d, f) \in Seq(Int)
         /\ Len(Samples(d, f)) = Len(d) /\ DOMAIN Samples(d, f) = DOMAIN d
<1>1. \A i \in 1 .. Len(d) : d[i] \in Command /\ Latency(d[i])[f] \in Int
  BY LatencyType
<1>2. DOMAIN d = 1 .. Len(d) /\ Len(d) \in Nat
  OBVIOUS
<1> QED
  BY <1>1, <1>2 DEF Samples

\* One command more, one sample more in every vector.
LEMMA SamplesAppend ==
  ASSUME NEW d \in Seq(Command), NEW c \in Command, NEW f \in Vectors
  PROVE  Samples(Append(d, c), f) = Append(Samples(d, f), Latency(c)[f])
<1> DEFINE n == Len(d)
           s == Samples(d, f)
           dx == Append(d, c)
           x == Latency(c)[f]
           sx == Samples(dx, f)
<1>1. /\ s \in Seq(Int) /\ Len(s) = n /\ x \in Int
  BY SamplesType, LatencyType
<1>2. /\ dx \in Seq(Command) /\ Len(dx) = n + 1 /\ dx[n + 1] = c
      /\ \A i \in 1 .. n : dx[i] = d[i]
      /\ DOMAIN d = 1 .. n /\ n \in Nat
  BY AppendProperties
<1>3. /\ sx \in Seq(Int) /\ Len(sx) = n + 1
  BY <1>2, SamplesType
<1>4. /\ sx[n + 1] = x /\ \A i \in 1 .. n : sx[i] = s[i]
  <2>1. DOMAIN dx = 1 .. (n + 1)
    BY <1>2
  <2> QED
    BY <1>2, <2>1 DEF Samples
<1>5. /\ Append(s, x) \in Seq(Int) /\ Len(Append(s, x)) = n + 1
      /\ Append(s, x)[n + 1] = x
      /\ \A i \in 1 .. n : Append(s, x)[i] = s[i]
  BY <1>1, <1>2
<1> HIDE DEF s, sx, x, n, dx
<1>6. \A i \in 1 .. (n + 1) : sx[i] = Append(s, x)[i]
  BY <1>2, <1>4, <1>5
<1> QED
  BY <1>2, <1>3, <1>5, <1>6, SeqEqual DEF s, sx, x, dx

-----------------------------------------------------------------------------
LEMMA SortedFacts ==
  ASSUME NEW s \in Seq(Int)
  PROVE  /\ Rearranges(Sorted(s), s)
         /\ \A i, j \in DOMAIN s : i < j => Sorted(s)[i] <= Sorted(s)[j]
<1> DEFINE D == DOMAIN s
           Right(p) == p \in Bijection(D, D)
                         /\ \A i, j \in D : i < j => s[p[i]] <= s[p[j]]
           order == CHOOSE p \in Bijection(D, D) :
                      \A i, j \in D : i < j => s[p[i]] <= s[p[j]]
<1>1. Right(order)
  <2>1. \E p \in Bijection(D, D) : \A i, j \in D : i < j => s[p[i]] <= s[p[j]]
    BY SortingExists
  <2> QED
    BY <2>1, Zenon
<1>2. Sorted(s) = [i \in D |-> s[order[i]]]
  BY Zenon DEF Sorted
<1> HIDE DEF order
<1>3. Permutes(order, D)
  BY <1>1 DEF Permutes, Bijection, Injection, Surjection, IsInjective
<1> QED
  BY <1>1, <1>2, <1>3 DEF Rearranges

LEMMA FreshRecords == Records(Fresh, <<>>)
<1>1. \A f \in Vectors : Samples(<<>>, f) = <<>> /\ Fresh[f] = <<>>
  BY DEF Samples, Fresh, Vectors
<1>2. <<>> \in Seq(Int) /\ Rearranges(<<>>, <<>>)
  <2>1. <<>> \in Seq(Int)
    OBVIOUS
  <2> QED
    BY <2>1, RearrangesItself
<1>3. IsTracker(Fresh)
  BY DEF IsTracker, Fresh
<1>4. SumsOf(Fresh, <<>>)
  <2>1. {"e2e", "network", "queue", "match"} \subseteq Vectors /\ Len(<<>>) = 0
    BY DEF Vectors
  <2> QED
    BY <1>1, <2>1, TotalEmpty DEF SumsOf, Fresh
<1>5. ExtremesOf(Fresh, <<>>)
  BY PipelineAssumption DEF ExtremesOf, Fresh, PipelineAssumption
<1> QED
  BY <1>1, <1>2, <1>3, <1>4, <1>5 DEF Records

\* Sorting does not change what was recorded.
LEMMA SortingRecords ==
  ASSUME NEW d \in Seq(Command), NEW t, Records(t, d), NEW names \in SUBSET Vectors
  PROVE  Records(Sorting(t, names), d)
<1> DEFINE u == Sorting(t, names)
<1>1. u = [f \in DOMAIN t |-> IF f \in names THEN Sorted(t[f]) ELSE t[f]]
  BY DEF Sorting
<1>2. IsTracker(t) /\ Vectors = {"e2e", "queue", "match", "network"}
  BY DEF Records, Vectors
<1> HIDE DEF u
<1>3. /\ IsTracker(u)
      /\ \A f \in Vectors : u[f] = IF f \in names THEN Sorted(t[f]) ELSE t[f]
      /\ u.totalCount = t.totalCount /\ u.minE2E = t.minE2E
      /\ u.maxE2E = t.maxE2E /\ u.sumE2E = t.sumE2E
      /\ u.timeNetwork = t.timeNetwork /\ u.timeQueue = t.timeQueue
      /\ u.timeOrderbook = t.timeOrderbook
  BY <1>1, <1>2 DEF IsTracker
<1>4. ASSUME NEW f \in Vectors
      PROVE  Rearranges(u[f], Samples(d, f))
  <2>1. Rearranges(t[f], Samples(d, f)) /\ Samples(d, f) \in Seq(Int)
    BY SamplesType DEF Records
  <2>2. t[f] \in Seq(Int)
    BY <2>1, RearrangedSeq
  <2>3. Rearranges(Sorted(t[f]), t[f])
    BY <2>2, SortedFacts
  <2>4. Rearranges(Sorted(t[f]), Samples(d, f))
    BY <2>1, <2>3, RearrangesOn
  <2> QED
    BY <1>3, <2>1, <2>4
<1>5. SumsOf(u, d) /\ ExtremesOf(u, d)
  BY <1>3 DEF Records, SumsOf, ExtremesOf
<1> QED
  BY <1>3, <1>4, <1>5 DEF Records, u

LEMMA TwoExtremes ==
  ASSUME NEW a \in Int, NEW b \in Int
  PROVE  /\ Min({a, b}) = IF a <= b THEN a ELSE b
         /\ Max({a, b}) = IF a <= b THEN b ELSE a
<1>1. \E x \in {a, b} : \A y \in {a, b} : x =< y
  OBVIOUS
<1>2. Min({a, b}) \in {a, b} /\ \A y \in {a, b} : Min({a, b}) =< y
  BY <1>1, Zenon DEF Min
<1>3. \E x \in {a, b} : \A y \in {a, b} : x >= y
  OBVIOUS
<1>4. Max({a, b}) \in {a, b} /\ \A y \in {a, b} : Max({a, b}) >= y
  BY <1>3, Zenon DEF Max
<1> QED
  BY <1>2, <1>4

\* The members record writes.
LEMMA RecordFields ==
  ASSUME NEW t, IsTracker(t), NEW c
  PROVE  LET l == Latency(c)
             e == Extremes(t, l.e2e)
         IN  Record(t, c) =
               [e2e |-> Append(t.e2e, l.e2e), queue |-> Append(t.queue, l.queue),
                match |-> Append(t.match, l.match),
                network |-> Append(t.network, l.network),
                totalCount |-> t.totalCount + 1,
                minE2E |-> e[1], maxE2E |-> e[2],
                sumE2E |-> t.sumE2E + l.e2e,
                timeNetwork |-> t.timeNetwork + l.network,
                timeQueue |-> t.timeQueue + l.queue,
                timeOrderbook |-> t.timeOrderbook + l.match]
<1> DEFINE l == Latency(c)
           e == Extremes(t, l.e2e)
<1>1. Record(t, c) =
        [t EXCEPT !.e2e = Append(@, l.e2e),
                  !.queue = Append(@, l.queue),
                  !.match = Append(@, l.match),
                  !.network = Append(@, l.network),
                  !.totalCount = @ + 1,
                  !.minE2E = e[1],
                  !.maxE2E = e[2],
                  !.sumE2E = @ + l.e2e,
                  !.timeNetwork = @ + l.network,
                  !.timeQueue = @ + l.queue,
                  !.timeOrderbook = @ + l.match]
  BY DEF Record
<1> HIDE DEF l, e
<1> QED
  BY <1>1, Zenon DEF IsTracker, l, e

\* record, with a latency that the minimum's first value exceeds.
LEMMA RecordRecords ==
  ASSUME NEW d \in Seq(Command), NEW t, Records(t, d), NEW c \in Command,
         0 <= Latency(c).e2e, Latency(c).e2e < MaxTime
  PROVE  Records(Record(t, c), Append(d, c))
<1> DEFINE l == Latency(c)
           u == Record(t, c)
           dx == Append(d, c)
           n == Len(d)
<1>1. IsTracker(t) /\ SumsOf(t, d) /\ ExtremesOf(t, d)
  BY DEF Records
<1>2. /\ l.e2e \in Int /\ l.queue \in Int /\ l.match \in Int /\ l.network \in Int
      /\ "e2e" \in Vectors /\ "queue" \in Vectors
      /\ "match" \in Vectors /\ "network" \in Vectors
      /\ \A f \in Vectors : l[f] \in Int
      /\ MaxTime \in Nat
  BY LatencyType, PipelineAssumption DEF Vectors, PipelineAssumption
<1>3. /\ t.minE2E \in Int /\ t.maxE2E \in Int
  BY <1>1 DEF ExtremesOf
<1>4. /\ Extremes(t, l.e2e)[1] = IF l.e2e <= t.minE2E THEN l.e2e ELSE t.minE2E
      /\ Extremes(t, l.e2e)[2] = IF l.e2e <= t.maxE2E THEN t.maxE2E ELSE l.e2e
  BY <1>2, <1>3, TwoExtremes DEF Extremes
<1>5. u = [e2e |-> Append(t.e2e, l.e2e), queue |-> Append(t.queue, l.queue),
           match |-> Append(t.match, l.match),
           network |-> Append(t.network, l.network),
           totalCount |-> t.totalCount + 1,
           minE2E |-> Extremes(t, l.e2e)[1], maxE2E |-> Extremes(t, l.e2e)[2],
           sumE2E |-> t.sumE2E + l.e2e,
           timeNetwork |-> t.timeNetwork + l.network,
           timeQueue |-> t.timeQueue + l.queue,
           timeOrderbook |-> t.timeOrderbook + l.match]
  BY <1>1, RecordFields, Zenon
<1>6. /\ dx \in Seq(Command) /\ Len(dx) = n + 1 /\ n \in Nat
      /\ DOMAIN dx = 1 .. (n + 1) /\ DOMAIN d = 1 .. n
      /\ \A f \in Vectors : Samples(dx, f) = Append(Samples(d, f), l[f])
      /\ \A f \in Vectors : Samples(d, f) \in Seq(Int)
      /\ Len(Samples(d, "e2e")) = n
  BY <1>2, AppendProperties, SamplesAppend, SamplesType
<1> HIDE DEF l, u, dx, n
<1>7. IsTracker(u)
  BY <1>5, SMTT(20) DEF IsTracker
<1>8. \A f \in Vectors : Rearranges(u[f], Samples(dx, f))
  <2>1. \A f \in Vectors : u[f] = Append(t[f], l[f])
    <3>1. u["e2e"] = Append(t["e2e"], l["e2e"])
      BY <1>5
    <3>2. u["queue"] = Append(t["queue"], l["queue"])
      BY <1>5
    <3>3. u["match"] = Append(t["match"], l["match"])
      BY <1>5
    <3>4. u["network"] = Append(t["network"], l["network"])
      BY <1>5
    <3> QED
      BY <3>1, <3>2, <3>3, <3>4 DEF Vectors
  <2>2. \A f \in Vectors : Rearranges(Append(t[f], l[f]), Append(Samples(d, f), l[f]))
    BY <1>2, <1>6, RearrangesAppended DEF Records
  <2> QED
    BY <1>6, <2>1, <2>2
<1>9. SumsOf(u, dx)
  <2>1. \A f \in Vectors : Total(Samples(dx, f)) = Total(Samples(d, f)) + l[f]
    BY <1>2, <1>6, TotalAppend
  <2>2. /\ u.totalCount = t.totalCount + 1 /\ u.sumE2E = t.sumE2E + l["e2e"]
        /\ u.timeNetwork = t.timeNetwork + l["network"]
        /\ u.timeQueue = t.timeQueue + l["queue"]
        /\ u.timeOrderbook = t.timeOrderbook + l["match"]
    BY <1>5
  <2>3. t.totalCount = n
    BY <1>1 DEF SumsOf, n
  <2> QED
    BY <1>1, <1>2, <1>6, <2>1, <2>2, <2>3 DEF SumsOf
<1>10. ExtremesOf(u, dx)
  <2> DEFINE s == Samples(d, "e2e")
             sx == Samples(dx, "e2e")
             x == l.e2e
  <2>1. sx = Append(s, x) /\ s \in Seq(Int) /\ x \in Int
    BY <1>2, <1>6
  <2>2. sx[n + 1] = x /\ \A i \in 1 .. n : sx[i] = s[i] /\ s[i] \in Int
    <3>1. Len(s) = n
      BY <1>6
    <3> HIDE DEF s, x, sx
    <3> QED
      BY <1>6, <2>1, <3>1, AppendProperties
  <2>3. /\ u.minE2E = IF x <= t.minE2E THEN x ELSE t.minE2E
        /\ u.maxE2E = IF x <= t.maxE2E THEN t.maxE2E ELSE x
    BY <1>4, <1>5
  <2>4. /\ \A i \in 1 .. n : t.minE2E <= s[i] /\ s[i] <= t.maxE2E
        /\ d = <<>> => t.minE2E = MaxTime /\ t.maxE2E = 0
        /\ d # <<>> => /\ \E i \in 1 .. n : t.minE2E = s[i]
                       /\ \E i \in 1 .. n : t.maxE2E = s[i]
    BY <1>1, <1>6 DEF ExtremesOf
  <2>5. 0 <= x /\ x < MaxTime
    BY DEF l
  <2>6. n + 1 \in 1 .. (n + 1) /\ (\A i \in 1 .. (n + 1) : i = n + 1 \/ i \in 1 .. n)
        /\ (\A i \in 1 .. n : i \in 1 .. (n + 1))
    BY <1>6
  <2>7. dx # <<>>
    BY <1>6
  <2> HIDE DEF s, sx, x
  <2>8. /\ u.minE2E \in Int /\ u.maxE2E \in Int
        /\ \A i \in 1 .. n : u.minE2E <= s[i] /\ s[i] <= u.maxE2E
        /\ u.minE2E <= x /\ x <= u.maxE2E
    BY <1>3, <2>1, <2>2, <2>3, <2>4
  <2>9. \E i \in 1 .. (n + 1) : u.minE2E = sx[i]
    <3>1. CASE u.minE2E = x
      BY <2>2, <2>6, <3>1
    <3>2. CASE u.minE2E # x
      <4>1. u.minE2E = t.minE2E /\ d # <<>>
        BY <1>2, <1>3, <2>1, <2>3, <2>4, <2>5, <3>2
      <4>2. PICK i \in 1 .. n : t.minE2E = s[i]
        BY <2>4, <4>1
      <4> QED
        BY <2>2, <2>6, <4>1, <4>2
    <3> QED
      BY <3>1, <3>2
  <2>10. \E i \in 1 .. (n + 1) : u.maxE2E = sx[i]
    <3>1. CASE u.maxE2E = x
      BY <2>2, <2>6, <3>1
    <3>2. CASE u.maxE2E # x
      <4>1. u.maxE2E = t.maxE2E /\ d # <<>>
        BY <1>2, <1>3, <2>1, <2>3, <2>4, <2>5, <3>2
      <4>2. PICK i \in 1 .. n : t.maxE2E = s[i]
        BY <2>4, <4>1
      <4> QED
        BY <2>2, <2>6, <4>1, <4>2
    <3> QED
      BY <3>1, <3>2
  <2>11. \A i \in 1 .. (n + 1) : u.minE2E <= sx[i] /\ sx[i] <= u.maxE2E
    BY <2>2, <2>6, <2>8
  <2> QED
    BY <1>6, <2>7, <2>8, <2>9, <2>10, <2>11 DEF ExtremesOf, sx
<1> QED
  BY <1>7, <1>8, <1>9, <1>10 DEF Records, u, dx

-----------------------------------------------------------------------------
(* Percentiles. *)

Share(s, v) == Cardinality(NotAbove(s, v))

\* In a sorted sequence of n, k <= Share(k-th) and what is less has less.
LEMMA SortedShare ==
  ASSUME NEW u \in Seq(Int), NEW k \in DOMAIN u,
         \A i, j \in DOMAIN u : i < j => u[i] <= u[j]
  PROVE  /\ k <= Share(u, u[k])
         /\ \A v \in Int : v < u[k] => Share(u, v) <= k - 1
<1>1. /\ DOMAIN u = 1 .. Len(u) /\ Len(u) \in Nat /\ k \in Nat /\ k >= 1
      /\ \A i \in DOMAIN u : u[i] \in Int
      /\ k <= Len(u)
  OBVIOUS
<1>2. \A v : IsFiniteSet(NotAbove(u, v)) /\ Share(u, v) \in Nat
  BY RearrangedShare, RearrangesItself DEF Share
<1>3. /\ IsFiniteSet(1 .. k) /\ Cardinality(1 .. k) = k
      /\ IsFiniteSet(1 .. (k - 1)) /\ Cardinality(1 .. (k - 1)) = k - 1
  <2>1. /\ 1 \in Int /\ k \in Int /\ k - 1 \in Int
        /\ ~ (1 > k) /\ k - 1 + 1 = k /\ k - 1 - 1 + 1 = k - 1
        /\ k + 1 - 1 = k /\ (1 > k - 1 => k - 1 = 0) /\ k - 1 + 1 - 1 = k - 1
    BY <1>1
  <2>2. IsFiniteSet(1 .. k) /\ Cardinality(1 .. k) = k
    <3>1. IsFiniteSet(1 .. k) /\ Cardinality(1 .. k) = IF 1 > k THEN 0 ELSE k - 1 + 1
      BY <2>1, FS_Interval, Zenon
    <3> QED
      BY <2>1, <3>1
  <2>3. IsFiniteSet(1 .. (k - 1)) /\ Cardinality(1 .. (k - 1)) = k - 1
    <3>1. /\ IsFiniteSet(1 .. (k - 1))
          /\ Cardinality(1 .. (k - 1)) = IF 1 > k - 1 THEN 0 ELSE k - 1 - 1 + 1
      BY <2>1, FS_Interval, Zenon
    <3> QED
      BY <2>1, <3>1
  <2> QED
    BY <2>2, <2>3
<1>4. 1 .. k \in SUBSET NotAbove(u, u[k])
  <2> SUFFICES ASSUME NEW i \in 1 .. k PROVE i \in DOMAIN u /\ u[i] <= u[k]
    BY DEF NotAbove
  <2>1. i \in DOMAIN u /\ (i < k \/ i = k)
    BY <1>1
  <2>2. CASE i < k
    BY <2>1, <2>2
  <2>3. CASE i = k
    BY <1>1, <2>3
  <2> QED
    BY <2>1, <2>2, <2>3
<1>5. k <= Share(u, u[k])
  <2>1. IsFiniteSet(NotAbove(u, u[k]))
    BY <1>2
  <2>2. Cardinality(1 .. k) <= Cardinality(NotAbove(u, u[k]))
    BY <1>4, <2>1, FS_Subset, Zenon
  <2> QED
    BY <1>3, <2>2 DEF Share
<1>6. ASSUME NEW v \in Int, v < u[k]
      PROVE  Share(u, v) <= k - 1
  <2>1. NotAbove(u, v) \in SUBSET (1 .. (k - 1))
    <3> SUFFICES ASSUME NEW i \in DOMAIN u, u[i] <= v PROVE i \in 1 .. (k - 1)
      BY DEF NotAbove
    <3>1. ~ (k < i) /\ i # k
      BY <1>1, <1>6
    <3> QED
      BY <1>1, <3>1
  <2> QED
    BY <1>2, <1>3, <2>1, FS_Subset DEF Share
<1> QED
  BY <1>5, <1>6

\* ceil(p n / 100), as percentile computes it.
LEMMA RankFacts ==
  ASSUME NEW n \in Nat \ {0}, NEW p \in {50, 95, 99}
  PROVE  LET k == (p * n + 99) \div 100
         IN  k \in 1 .. n /\ 100 * k >= p * n /\ 100 * (k - 1) < p * n
<1> DEFINE a == p * n
           k == (a + 99) \div 100
<1>1. a \in Nat /\ a >= 50 /\ a <= 99 * n
  <2>1. CASE p = 50
    BY <2>1
  <2>2. CASE p = 95
    BY <2>2
  <2>3. CASE p = 99
    BY <2>3
  <2> QED
    BY <2>1, <2>2, <2>3
<1> HIDE DEF a
<1>2. k \in Int /\ 100 * k <= a + 99 /\ a + 99 < 100 * k + 100
  BY <1>1
<1> HIDE DEF k
<1>3. k \in 1 .. n /\ 100 * k >= a /\ 100 * (k - 1) < a
  BY <1>1, <1>2
<1> QED
  BY <1>3 DEF k, a

(***************************************************************************)
(* percentile, of samples in whatever order, is the nearest rank.          *)
(***************************************************************************)
LEMMA PercentileIsNearestRank ==
  ASSUME NEW s \in Seq(Int), s # <<>>, NEW t, Rearranges(t, s),
         NEW p \in {50, 95, 99}
  PROVE  Percentile(t, p) = NearestRank(s, p)
<1> DEFINE n == Len(s)
           k == (p * n + 99) \div 100
           u == Sorted(t)
           V == {v \in Range(s) : 100 * Share(s, v) >= p * n}
<1>1. /\ t \in Seq(Int) /\ Len(t) = n /\ n \in Nat \ {0} /\ DOMAIN t = DOMAIN s
      /\ DOMAIN s = 1 .. n
  BY RearrangedSeq
<1>2. /\ Rearranges(u, t)
      /\ \A i, j \in DOMAIN t : i < j => u[i] <= u[j]
  BY <1>1, SortedFacts
<1>3. Rearranges(u, s)
  BY <1>2, RearrangesOn
<1> HIDE DEF u
<1>4. /\ u \in Seq(Int) /\ DOMAIN u = 1 .. n /\ Range(u) = Range(s)
      /\ \A i, j \in DOMAIN u : i < j => u[i] <= u[j]
  <2>1. u \in Seq(Int) /\ DOMAIN u = DOMAIN s /\ Range(u) = Range(s)
    BY <1>3, RearrangedSeq
  <2>2. DOMAIN u = 1 .. n /\ DOMAIN u = DOMAIN t
    BY <1>1, <2>1
  <2>3. ASSUME NEW i \in DOMAIN u, NEW j \in DOMAIN u, i < j
        PROVE  u[i] <= u[j]
    BY <1>2, <2>2, <2>3
  <2> QED
    BY <2>1, <2>2, <2>3, Zenon
<1>5. \A v : Share(u, v) = Share(s, v) /\ Share(u, v) \in Nat
  BY <1>3, RearrangedShare DEF Share
<1>6. k \in 1 .. n /\ 100 * k >= p * n /\ 100 * (k - 1) < p * n
  BY <1>1, RankFacts
<1>7. p * n \in Int /\ \A v \in Range(s) : v \in Int
  <2>1. p \in Int
    OBVIOUS
  <2> QED
    BY <1>1, <2>1 DEF Range
<1>8. Min({k, n}) = k
  <2>1. k \in Int /\ n \in Int /\ k <= n
    BY <1>1, <1>6
  <2> HIDE DEF k, n
  <2> QED
    BY <2>1, TwoExtremes
<1>9. Percentile(t, p) = u[k]
  BY <1>1, <1>8 DEF Percentile, u
<1> HIDE DEF k, n
<1>10. /\ k <= Share(u, u[k])
       /\ \A v \in Int : v < u[k] => Share(u, v) <= k - 1
  BY <1>4, <1>6, SortedShare
<1>11. u[k] \in Int /\ u[k] \in Range(s)
  <2>1. k \in DOMAIN u
    BY <1>4, <1>6
  <2>2. u[k] \in Range(u)
    BY <2>1 DEF Range
  <2>5. Range(u) = Range(s)
    BY <1>4, Zenon
  <2>3. u \in Seq(Int)
    BY <1>4
  <2>4. u[k] \in Int
    BY <2>1, <2>3
  <2> QED
    BY <2>2, <2>4, <2>5
<1>12. u[k] \in V
  <2>1. 100 * Share(s, u[k]) >= 100 * k
    BY <1>5, <1>6, <1>10, <1>1
  <2> QED
    BY <1>1, <1>5, <1>6, <1>7, <1>11, <2>1
<1>13. ASSUME NEW v \in V
       PROVE  u[k] <= v
  <2>1. v \in Int /\ 100 * Share(s, v) >= p * n
    BY <1>7
  <2>2. ASSUME v < u[k] PROVE FALSE
    <3>1. Share(s, v) <= k - 1 /\ Share(s, v) \in Nat
      BY <1>5, <1>10, <2>1, <2>2
    <3> QED
      BY <1>1, <1>6, <1>7, <2>1, <3>1
  <2> QED
    BY <1>11, <2>1, <2>2
<1>14. NearestRank(s, p) = Min(V)
  BY DEF NearestRank, Share, NotAbove, n
<1>15. \A x \in V : x \in Int
  BY <1>7
<1> HIDE DEF V
<1>16. Min(V) = u[k]
  <2>1. Min(V) \in V /\ \A y \in V : Min(V) =< y
    BY <1>12, <1>13, Zenon DEF Min
  <2> QED
    BY <1>11, <1>12, <1>13, <1>15, <2>1
<1> QED
  BY <1>9, <1>14, <1>16

-----------------------------------------------------------------------------
(* What the tracker holds, with the rest of the type invariant. *)

Kept ==
  /\ clock \in 1 .. MaxClock
  /\ mtx_ \in {"free"} \cup Threads
  /\ Kind = "spsc" => Len(queue_) <= QueueBound
  /\ \A i \in DOMAIN done : done[i].complete <= clock
  /\ Records(tracker, done)

\* A step that records nothing and leaves the tracker alone.
LEMMA SameRecords ==
  ASSUME Kept, tracker' = tracker, done' = done
  PROVE  Records(tracker, done)'
<1>1. Records(tracker, done)
  BY DEF Kept
<1> HIDE DEF Records
<1> QED
  BY <1>1

LEMMA ProducingKeeps ==
  ASSUME IInv, Kept, Producing
  PROVE  Kept'
<1> USE DEF world, producer, consumer, queueVars
<1> HIDE DEF Records
<1>a. /\ clock \in 1 .. MaxClock /\ mtx_ \in {"free"} \cup Threads
      /\ Kind = "spsc" => Len(queue_) <= QueueBound
      /\ \A i \in DOMAIN done : done[i].complete <= clock
  BY DEF Kept
<1>b. queue_ \in Seq(Command) /\ (prod = "locked" => Kind = "mutex")
  BY DEF IInv, Typed, OneInside, Threads
<1>1. ASSUME round' = round, clock' = clock, mtx_' \in {"free"} \cup Threads,
             tracker' = tracker, done' = done,
             Kind = "spsc" => Len(queue_') <= QueueBound
      PROVE  Kept'
  <2>1. Kind' = Kind
    BY <1>1, SameRound
  <2> HIDE DEF Kind
  <2> QED
    BY <1>1, <1>a, <2>1, SameRecords DEF Kept
<1> HIDE DEF Kind
<1>2. CASE StampRecv
  BY <1>2, <1>1, <1>a DEF StampRecv
<1>3. CASE StampPush
  BY <1>3, <1>1, <1>a DEF StampPush
<1>4. CASE Push
  <2>1. Len(queue_') <= QueueBound
    <3>1. \A x : Len(Append(queue_, x)) = Len(queue_) + 1
      BY <1>b
    <3> QED
      BY <1>4, <1>b, <3>1, PipelineAssumption
      DEF Push, HasRoom, PipelineAssumption
  <2> QED
    BY <1>4, <1>1, <1>a, <2>1 DEF Push, Pushed
<1>5. CASE PushLock
  BY <1>5, <1>1, <1>a DEF PushLock, Lock, Threads
<1>6. CASE PushUnlock
  BY <1>6, <1>1, <1>a, <1>b DEF PushUnlock, Unlock, Pushed
<1>7. CASE Join
  <2>1. Kind' = Kind
    BY <1>7, SameRound DEF Join
  <2>2. Records(ReadPercentiles(tracker), done)
    <3>1. Records(tracker, done) /\ done \in Seq(Command)
      BY DEF Kept, IInv, Typed
    <3>2. {"e2e"} \in SUBSET Vectors
      BY DEF Vectors
    <3> QED
      BY <3>1, <3>2, SortingRecords DEF ReadPercentiles
  <2>3. tracker' = ReadPercentiles(tracker) /\ done' = done
    BY <1>7 DEF Join
  <2>4. Records(tracker, done)'
    BY <2>2, <2>3
  <2> QED
    BY <1>7, <1>a, <2>1, <2>4 DEF Kept, Join
<1>8. CASE NextRound
  <2>1. tracker' = Fresh /\ done' = <<>>
    BY <1>8 DEF NextRound
  <2>2. Records(tracker, done)'
    BY <2>1, FreshRecords
  <2> QED
    BY <1>8, <1>a, <2>2, PipelineAssumption DEF Kept, NextRound, PipelineAssumption
<1> QED
  BY <1>2, <1>3, <1>4, <1>5, <1>6, <1>7, <1>8 DEF Producing

LEMMA CompleteKeeps ==
  ASSUME IInv, Kept, Complete
  PROVE  Kept'
<1> DEFINE stamped == [cmd EXCEPT !.complete = clock]
<1>1. /\ clock \in 1 .. MaxClock /\ mtx_ \in {"free"} \cup Threads
      /\ Kind = "spsc" => Len(queue_) <= QueueBound
      /\ \A i \in DOMAIN done : done[i].complete <= clock
      /\ Records(tracker, done)
  BY DEF Kept
<1>2. /\ tracker' = Record(tracker, stamped) /\ done' = Append(done, stamped)
      /\ round' = round /\ clock' = clock /\ queue_' = queue_ /\ mtx_' = mtx_
      /\ cons = "match"
  BY DEF Complete, world, producer, queueVars
<1>3. Kind' = Kind
  BY <1>2, SameRound
<1>4. cmd \in Command /\ done \in Seq(Command) /\ clock \in Nat
  BY <1>2 DEF IInv, Typed, HasCmd
<1>5. /\ cmd.recv <= cmd.push /\ cmd.push <= cmd.pop
      /\ cmd.pop <= cmd.start /\ cmd.start <= clock
  BY <1>2 DEF IInv, CmdIsNext, HasCmd, Sent
<1>6. stamped \in Command /\ stamped.complete = clock /\ stamped.recv = cmd.recv
  BY <1>4 DEF Command
<1> HIDE DEF stamped, Records
<1>7. 0 <= Latency(stamped).e2e /\ Latency(stamped).e2e < MaxTime
  <2>1. {cmd.recv, cmd.push, cmd.pop, cmd.start} \subseteq Nat
    BY <1>4, CommandFacts
  <2>2. Latency(stamped).e2e = clock - cmd.recv
    BY <1>6 DEF Latency
  <2>3. clock <= MaxClock /\ MaxClock \in Nat /\ MaxTime \in Nat /\ MaxTime > MaxClock
    BY <1>1, PipelineAssumption DEF PipelineAssumption
  <2> QED
    BY <1>4, <1>5, <2>1, <2>2, <2>3
<1>8. Records(tracker, done)'
  <2>1. Records(Record(tracker, stamped), Append(done, stamped))
    BY <1>1, <1>4, <1>6, <1>7, RecordRecords
  <2> QED
    BY <1>2, <2>1
<1>9. \A i \in DOMAIN done' : done'[i].complete <= clock
  <2>1. /\ Len(done') = Len(done) + 1 /\ Len(done) \in Nat
        /\ done' \in Seq(Command) /\ done'[Len(done) + 1] = stamped
        /\ \A i \in 1 .. Len(done) : done'[i] = done[i]
    BY <1>2, <1>4, <1>6, SequenceFacts
  <2> SUFFICES ASSUME NEW i \in DOMAIN done' PROVE done'[i].complete <= clock
    OBVIOUS
  <2>2. i \in 1 .. Len(done) \/ i = Len(done) + 1
    BY <2>1
  <2>3. CASE i \in 1 .. Len(done)
    BY <1>1, <1>4, <2>1, <2>3
  <2>4. CASE i = Len(done) + 1
    BY <1>4, <1>6, <2>1, <2>4
  <2> QED
    BY <2>2, <2>3, <2>4
<1> HIDE DEF Kind
<1> QED
  BY <1>1, <1>2, <1>3, <1>8, <1>9 DEF Kept

LEMMA ConsumingKeeps ==
  ASSUME IInv, Kept, Consuming
  PROVE  Kept'
<1> USE DEF world, producer, consumer, queueVars
<1> HIDE DEF Records
<1>a. /\ clock \in 1 .. MaxClock /\ mtx_ \in {"free"} \cup Threads
      /\ Kind = "spsc" => Len(queue_) <= QueueBound
      /\ \A i \in DOMAIN done : done[i].complete <= clock
  BY DEF Kept
<1>b. queue_ \in Seq(Command) /\ (cons = "locked" => Kind = "mutex")
  BY DEF IInv, Typed, OneInside, Threads
<1>1. ASSUME round' = round, clock' = clock, mtx_' \in {"free"} \cup Threads,
             Records(tracker, done)', done' = done,
             Kind = "spsc" => Len(queue_') <= QueueBound
      PROVE  Kept'
  <2>1. Kind' = Kind
    BY <1>1, SameRound
  <2> HIDE DEF Kind
  <2> QED
    BY <1>1, <1>a, <2>1 DEF Kept
<1> HIDE DEF Kind
<1>2. CASE Pop
  <2>1. Len(Tail(queue_)) <= Len(queue_) /\ Len(Tail(queue_)) \in Nat /\ Len(queue_) \in Nat
    BY <1>2, <1>b DEF Pop
  <2>2. Kind = "spsc" => Len(queue_') <= QueueBound
    BY <1>2, <1>a, <2>1, PipelineAssumption DEF Pop, PipelineAssumption
  <2> QED
    BY <1>2, <1>1, <1>a, <2>2, SameRecords DEF Pop
<1>3. CASE PopLock
  BY <1>3, <1>1, <1>a, SameRecords DEF PopLock, Lock, Threads
<1>4. CASE PopUnlock
  BY <1>4, <1>1, <1>a, <1>b, SameRecords DEF PopUnlock, Unlock
<1>5. CASE StampPop
  BY <1>5, <1>1, <1>a, SameRecords DEF StampPop
<1>6. CASE Stats
  <2>1. Records(tracker, done) /\ done \in Seq(Command)
    BY DEF Kept, IInv, Typed
  <2>2. Records(PrintStats(tracker), done)
    <3>1. Vectors \in SUBSET Vectors
      OBVIOUS
    <3>2. Records(Sorting(tracker, Vectors), done)
      BY <2>1, <3>1, SortingRecords
    <3> QED
      BY <2>1, <3>2 DEF PrintStats
  <2>3. Records(tracker, done)'
    BY <1>6, <2>2 DEF Stats
  <2> QED
    BY <1>6, <1>1, <1>a, <2>3 DEF Stats
<1>7. CASE StampStart
  BY <1>7, <1>1, <1>a, SameRecords DEF StampStart
<1>8. CASE Leave
  BY <1>8, <1>1, <1>a, SameRecords DEF Leave
<1> QED
  BY <1>2, <1>3, <1>4, <1>5, <1>6, <1>7, <1>8, CompleteKeeps DEF Consuming

LEMMA TrackerKept == IInv /\ Kept /\ [Next]_vars => Kept'
<1> SUFFICES ASSUME IInv, Kept, [Next]_vars PROVE Kept'
  OBVIOUS
<1> HIDE DEF Records
<1>a. /\ clock \in 1 .. MaxClock /\ mtx_ \in {"free"} \cup Threads
      /\ Kind = "spsc" => Len(queue_) <= QueueBound
      /\ \A i \in DOMAIN done : done[i].complete <= clock
  BY DEF Kept
<1>1. ASSUME Tick PROVE Kept'
  <2>1. /\ round' = round /\ queue_' = queue_ /\ mtx_' = mtx_
        /\ tracker' = tracker /\ done' = done
        /\ clock < MaxClock /\ clock' = clock + 1
    BY <1>1 DEF Tick, world, producer, consumer, queueVars
  <2>2. Kind' = Kind
    BY <2>1, SameRound
  <2>3. \A i \in DOMAIN done : done[i].complete <= clock + 1
    <3> SUFFICES ASSUME NEW i \in DOMAIN done PROVE done[i].complete <= clock + 1
      OBVIOUS
    <3>1. done[i].complete \in Nat
      BY CommandFacts DEF IInv, Typed
    <3> QED
      BY <1>a, <3>1
  <2>4. clock + 1 \in 1 .. MaxClock
    BY <1>a, <2>1, PipelineAssumption DEF PipelineAssumption
  <2> HIDE DEF Kind
  <2> QED
    BY <1>a, <2>1, <2>2, <2>3, <2>4, SameRecords DEF Kept
<1>2. ASSUME UNCHANGED vars PROVE Kept'
  <2>1. /\ round' = round /\ queue_' = queue_ /\ mtx_' = mtx_
        /\ tracker' = tracker /\ done' = done /\ clock' = clock
    BY <1>2 DEF vars, world, producer, consumer, queueVars
  <2>2. Kind' = Kind
    BY <2>1, SameRound
  <2> HIDE DEF Kind
  <2> QED
    BY <1>a, <2>1, <2>2, SameRecords DEF Kept
<1> QED
  BY <1>1, <1>2, ProducingKeeps, ConsumingKeeps DEF Next

LEMMA AlwaysKept == Spec => []Kept
<1>1. Init => Kept
  <2> SUFFICES ASSUME Init PROVE Kept
    OBVIOUS
  <2>1. Records(tracker, done)
    BY FreshRecords DEF Init
  <2> HIDE DEF Records
  <2> QED
    BY <2>1, PipelineAssumption DEF Init, Kept, PipelineAssumption
<1> QED
  BY <1>1, TrackerKept, AlwaysIInv, PTL DEF Spec

-----------------------------------------------------------------------------
(***************************************************************************)
(* The type invariant.                                                     *)
(***************************************************************************)
THEOREM PipelineTypeCorrect == Spec => []TypeOK
<1>1. IInv /\ Kept => TypeOK
  <2> SUFFICES ASSUME IInv, Kept PROVE TypeOK
    OBVIOUS
  <2>1. processed \in Nat /\ sent \in Nat /\ processed <= sent
    BY SequenceFacts DEF IInv, Typed, NoGap
  <2>2. done \in Seq(Command) /\ Records(tracker, done)
    BY DEF IInv, Typed, Kept
  <2>3. \A f \in Vectors : tracker[f] \in Seq(Int)
    BY <2>2, SamplesType, RearrangedSeq DEF Records
  <2>4. \A f \in Vectors : Total(Samples(done, f)) \in Int
    <3>1. 0 \in Int
      OBVIOUS
    <3> QED
      BY <2>2, <3>1, SamplesType, TotalAppend
  <2>5. \A f \in DOMAIN tracker \ Vectors : tracker[f] \in Int
    <3>1. DOMAIN tracker \ Vectors =
            {"totalCount", "minE2E", "maxE2E", "sumE2E",
             "timeNetwork", "timeQueue", "timeOrderbook"}
      <4>1. DOMAIN tracker =
              {"e2e", "queue", "match", "network", "totalCount", "minE2E",
               "maxE2E", "sumE2E", "timeNetwork", "timeQueue", "timeOrderbook"}
        BY <2>2 DEF Records, IsTracker
      <4> QED
        BY <4>1 DEF Vectors
    <3>2. /\ tracker.totalCount \in Int
          /\ tracker.minE2E \in Int /\ tracker.maxE2E \in Int
      BY <2>2 DEF Records, SumsOf, ExtremesOf
    <3>3. /\ tracker.sumE2E \in Int /\ tracker.timeNetwork \in Int
          /\ tracker.timeQueue \in Int /\ tracker.timeOrderbook \in Int
      <4>1. {"e2e", "network", "queue", "match"} \subseteq Vectors
        BY DEF Vectors
      <4> QED
        BY <2>2, <2>4, <4>1 DEF Records, SumsOf
    <3> QED
      BY <3>1, <3>2, <3>3
  <2> HIDE DEF Kind, N
  <2>6. /\ round \in DOMAIN Rounds /\ clock \in 1 .. MaxClock
        /\ prod \in {"recv", "stamp", "push", "locked", "joined"}
        /\ cons \in {"pop", "locked", "popped", "dispatch", "match", "done"}
        /\ mtx_ \in {"free"} \cup Threads /\ sent <= N
        /\ Kind = "spsc" => Len(queue_) <= QueueBound
    BY DEF IInv, Typed, Kept
  <2> QED
    BY <2>1, <2>3, <2>5, <2>6 DEF TypeOK
<1> QED
  BY <1>1, AlwaysIInv, AlwaysKept, PTL

(***************************************************************************)
(* However the report's sorting and the recording follow each other, and   *)
(* after any number of rounds: count, average, extremes, totals and        *)
(* percentiles are those of the commands recorded since the last reset.    *)
(***************************************************************************)
THEOREM TrackerAlwaysExact == Spec => []TrackerIsExact
<1>1. IInv /\ Kept => TrackerIsExact
  <2> SUFFICES ASSUME IInv, Kept PROVE TrackerIsExact
    OBVIOUS
  <2> DEFINE s == Samples(done, "e2e")
  <2>1. done \in Seq(Command) /\ Records(tracker, done)
    BY DEF IInv, Typed, Kept
  <2>2. /\ tracker.totalCount = Len(done)
        /\ tracker.sumE2E = FoldLeft(+, 0, Samples(done, "e2e"))
        /\ tracker.timeNetwork = FoldLeft(+, 0, Samples(done, "network"))
        /\ tracker.timeQueue = FoldLeft(+, 0, Samples(done, "queue"))
        /\ tracker.timeOrderbook = FoldLeft(+, 0, Samples(done, "match"))
    BY <2>1 DEF Records, SumsOf, Total
  <2>3. ASSUME done # <<>>
        PROVE  /\ tracker.minE2E = Min(Range(s))
               /\ tracker.maxE2E = Max(Range(s))
    <3>1. /\ tracker.minE2E \in Int /\ tracker.maxE2E \in Int
          /\ \A i \in DOMAIN done : tracker.minE2E <= s[i] /\ s[i] <= tracker.maxE2E
          /\ \E i \in DOMAIN done : tracker.minE2E = s[i]
          /\ \E i \in DOMAIN done : tracker.maxE2E = s[i]
      BY <2>1, <2>3 DEF Records, ExtremesOf
    <3>2. s \in Seq(Int) /\ DOMAIN s = DOMAIN done
      <4>1. "e2e" \in Vectors
        BY DEF Vectors
      <4> QED
        BY <2>1, <4>1, SamplesType
    <3> HIDE DEF s
    <3> DEFINE R == Range(s)
    <3>3. /\ \A x \in R : x \in Int /\ tracker.minE2E =< x /\ tracker.maxE2E >= x
          /\ tracker.minE2E \in R /\ tracker.maxE2E \in R
      BY <3>1, <3>2 DEF Range
    <3> HIDE DEF R
    <3>4. Min(R) \in R /\ \A y \in R : Min(R) =< y
      BY <3>3, Zenon DEF Min
    <3>5. Max(R) \in R /\ \A y \in R : Max(R) >= y
      BY <3>3, Zenon DEF Max
    <3> QED
      BY <3>1, <3>3, <3>4, <3>5 DEF R
  <2>4. ASSUME done # <<>>, NEW f \in Vectors, NEW p \in {50, 95, 99}
        PROVE  Percentile(tracker[f], p) = NearestRank(Samples(done, f), p)
    <3>1. /\ Rearranges(tracker[f], Samples(done, f))
          /\ Samples(done, f) \in Seq(Int) /\ Len(Samples(done, f)) = Len(done)
      BY <2>1, SamplesType DEF Records
    <3>2. Samples(done, f) # <<>>
      BY <2>1, <2>4, <3>1
    <3> QED
      BY <3>1, <3>2, PercentileIsNearestRank
  <2>5. ASSUME done # <<>>
        PROVE  GetAvgE2E(tracker) = FoldLeft(+, 0, s) \div Len(done)
    <3>1. Len(done) > 0
      BY <2>1, <2>5
    <3> QED
      BY <2>2, <3>1, Zenon DEF GetAvgE2E
  <2>6. \A f : Samples(done, f) = [i \in DOMAIN done |-> Latency(done[i])[f]]
    BY DEF Samples
  <2> QED
    BY <2>2, <2>3, <2>4, <2>5, Zenon DEF TrackerIsExact, Samples
<1> QED
  BY <1>1, AlwaysIInv, AlwaysKept, PTL
=============================================================================
