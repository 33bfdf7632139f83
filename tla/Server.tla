------------------------------- MODULE Server -------------------------------
(***************************************************************************)
(* The server process (server.cpp): the main thread, which waits for input *)
(* with epoll_wait, turns lines into commands and pushes them, and the     *)
(* matching thread, which pops them and drives the Exchange; the queue     *)
(* between them; the flag "running", cleared by the signal handler; and    *)
(* the shutdown sequence at the end of main.                               *)
(*                                                                         *)
(* The queue is the FIFO that SPSCQueue.tla is shown to implement.  There  *)
(* a thread may see the other's index late, so here pop may miss commands  *)
(* just pushed, and push room just made; a push that fails and is tried    *)
(* again is a stuttering step.  "running" is read with relaxed loads: the  *)
(* matching thread, too, may see late that it was cleared.  The exchange   *)
(* is Exchange.tla itself: its variables are touched by the matching       *)
(* thread only, through the operations of that module.                     *)
(***************************************************************************)
EXTENDS Integers, SequencesExt

CONSTANTS
  OrderIds, Prices, Timestamps, VolumeModulus,
  Symbols, NoSymbol, Quantities, MaxNodes,
  NoCommand,
  QueueBound,   \* commands the ring can hold: Capacity - 1
  MaxCommands   \* bounds the commands accepted in one behaviour

VARIABLES
  books, orderSymbolMap, matching, lastOrderId,  \* the Exchange
  net,          \* program counter of the main thread
  eng,          \* program counter of the matching thread
  queue,        \* spscQueue
  pending,      \* the command the main thread is pushing, or NoCommand
  nextOrderId,  \* local of main
  running,      \* the atomic flag
  accepted,     \* history: commands pushed or being pushed
  processed     \* history: commands popped and completely handled

exchangeVars == <<books, orderSymbolMap, matching, lastOrderId>>
vars == <<exchangeVars, net, eng, queue, pending, nextOrderId, running,
          accepted, processed>>

\* One thread goes on, and nothing else happens.
NetGoes(from, to) ==
  /\ net = from /\ net' = to
  /\ UNCHANGED <<exchangeVars, eng, queue, pending, nextOrderId, running,
                 accepted, processed>>
EngGoes(from, to) ==
  /\ eng = from /\ eng' = to
  /\ UNCHANGED <<exchangeVars, net, queue, pending, nextOrderId, running,
                 accepted, processed>>

Ex == INSTANCE Exchange

\* The exchange's own bound is wide enough for the commands of a behaviour.
ASSUME ServerAssumption ==
  /\ Ex!BookAssumption /\ Ex!ExchangeAssumption
  /\ QueueBound \in Nat \ {0}
  /\ MaxCommands \in Nat /\ MaxCommands <= MaxNodes

Init ==
  /\ Ex!Init
  /\ net = "check" /\ eng = "check" /\ running = TRUE
  /\ queue = <<>> /\ pending = NoCommand /\ nextOrderId = 1
  /\ accepted = 0 /\ processed = 0

-----------------------------------------------------------------------------
(* The main thread: the event loop. *)

\* while (running.load())
NetCheck == NetGoes("check", IF running THEN "enter" ELSE "final")

\* epoll_wait blocks: from here on, and not before, a signal interrupts it.
NetBlock == NetGoes("enter", "wait")

\* epoll_wait returns events ...
NetEvents == NetGoes("wait", "lines")

\* ... or fails with something else than EINTR.
NetEpollError == NetGoes("wait", "final")

\* What a well-formed line says, before processLine numbers and stamps it.
Lines ==
  [type : {"NEW"}, side : Ex!Side, symbol : Symbols,
   quantity : Quantities, price : Prices]
    \cup [type : {"CANCEL"}, orderId : OrderIds]
    \cup [type : {"MODIFY"}, orderId : OrderIds, symbol : Symbols,
          quantity : Quantities, price : Prices]
    \cup [type : {"BOOK"}, symbol : Symbols]
    \cup [type : {"STATS"}]

Stamped(line, timestamp) == Ex!Put(line, "timestamp", timestamp)
Numbered(line, id) == Ex!Put(line, "orderId", id)

\* FAULT for TakesId: every command uses up an order id.
TakesIdAlways(line) == TRUE

TakesId(line) == line.type = "NEW"

\* processLine builds a command; only a NEW uses up an order id.
ProcessLine(line, timestamp) ==
  /\ net = "lines"
  /\ accepted < MaxCommands
  /\ IF TakesId(line)
     THEN nextOrderId \in OrderIds /\ nextOrderId' = nextOrderId + 1
     ELSE UNCHANGED nextOrderId
  /\ pending' = Stamped(IF line.type = "NEW" THEN Numbered(line, nextOrderId)
                                             ELSE line, timestamp)
  /\ net' = "push"
  /\ accepted' = accepted + 1
  /\ UNCHANGED <<exchangeVars, eng, queue, running, processed>>

\* FAULT for HasRoom: the queue takes any number of commands.
HasRoomAlways == TRUE

HasRoom == Len(queue) < QueueBound

\* while (!spscQueue.push(cmd)) yield: goes on when there is room.
Push ==
  /\ net = "push"
  /\ HasRoom
  /\ queue' = Append(queue, pending)
  /\ pending' = NoCommand
  /\ net' = "lines"
  /\ UNCHANGED <<exchangeVars, eng, nextOrderId, running, accepted, processed>>

\* No complete line and no event is left.
NetEventsDone == NetGoes("lines", "check")

-----------------------------------------------------------------------------
(* The main thread: the shutdown sequence. *)

FinalStats == [type |-> "STATS"]

\* One attempt to push a final STATS, whatever comes of it.  It can fail only
\* when as many commands as the ring holds have been pushed before.
FinalPush ==
  /\ net = "final"
  /\ \/ HasRoom /\ queue' = Append(queue, FinalStats)
     \/ accepted >= QueueBound /\ UNCHANGED queue
  /\ net' = "clear"
  /\ UNCHANGED <<exchangeVars, eng, pending, nextOrderId, running,
                 accepted, processed>>

\* running.store(false)
ClearRunning ==
  /\ net = "clear"
  /\ running' = FALSE
  /\ net' = "join"
  /\ UNCHANGED <<exchangeVars, eng, queue, pending, nextOrderId,
                 accepted, processed>>

\* matchThread.join(), then every socket is closed.
Join == eng = "stopped" /\ NetGoes("join", "closed")

(***************************************************************************)
(* SIGINT or SIGTERM: the handler runs on the main thread (where Linux     *)
(* delivers a signal sent to the process) and makes epoll_wait return      *)
(* EINTR if the thread is blocked in it.                                   *)
(***************************************************************************)
Signal ==
  /\ net # "closed"
  /\ running' = FALSE
  /\ net' = IF net = "wait" THEN "check" ELSE net
  /\ UNCHANGED <<exchangeVars, eng, queue, pending, nextOrderId,
                 accepted, processed>>

-----------------------------------------------------------------------------
(* The matching thread. *)

\* while (running.load()): true, perhaps no longer up to date ...
EngCheck == EngGoes("check", "pop")

\* ... or false.
EngLeave == ~running /\ EngGoes("check", "stopped")

\* FAULT for EngYield: "break" for "yield".
EngYieldLeaving == EngGoes("pop", "stopped")

\* FAULT for EngYield: pop is tried again without looking at running.
EngYieldUnchecked == eng = "pop" /\ UNCHANGED vars

\* pop returned false, from an empty queue or one seen late: yield.
EngYield == EngGoes("pop", "check")

\* The commands that end in matchOrders ...
StartsMatching(cmd) ==
  \/ /\ cmd.type = "NEW"
     /\ Ex!ExAddOrder(cmd.symbol, cmd.orderId, cmd.side, cmd.price,
                      cmd.quantity, cmd.timestamp)
  \/ /\ cmd.type = "MODIFY"
     /\ \/ Ex!ExModifyRejected(cmd.orderId, cmd.symbol)
        \/ Ex!ExModifyOrder(cmd.orderId, cmd.symbol, cmd.quantity, cmd.price,
                            cmd.timestamp)

\* ... and those that do not.
HandledAtOnce(cmd) ==
  \/ cmd.type = "CANCEL" /\ Ex!Cancel(cmd.orderId)
  \/ cmd.type \in {"BOOK", "STATS"} /\ UNCHANGED exchangeVars

\* pop, and the switch on the command's type.
EngDispatch ==
  /\ eng = "pop"
  /\ queue # <<>>
  /\ queue' = Tail(queue)
  /\ \/ /\ StartsMatching(Head(queue))
        /\ eng' = "match"
        /\ UNCHANGED processed
     \/ /\ HandledAtOnce(Head(queue))
        /\ eng' = "check"
        /\ processed' = processed + 1
  /\ UNCHANGED <<net, pending, nextOrderId, running, accepted>>

\* FAULT for AfterFill: running is looked at between two trades.
AfterFillChecked == IF running THEN "match" ELSE "stopped"

AfterFill == "match"

\* matchOrders: its iterations, then its return.
EngMatch ==
  /\ eng = "match"
  /\ \/ Ex!ExMatchFill /\ eng' = AfterFill /\ UNCHANGED processed
     \/ Ex!ExMatchDone /\ eng' = "check" /\ processed' = processed + 1
  /\ UNCHANGED <<net, queue, pending, nextOrderId, running, accepted>>

-----------------------------------------------------------------------------
\* What the main thread does by itself once it has something to do.
NetSteps ==
  NetCheck \/ NetBlock \/ Push \/ NetEventsDone
    \/ FinalPush \/ ClearRunning \/ Join

\* What clients and the kernel may make it do.
NetInput ==
  \/ NetEvents
  \/ NetEpollError
  \/ \E line \in Lines, timestamp \in Timestamps : ProcessLine(line, timestamp)

Engine == EngCheck \/ EngLeave \/ EngYield \/ EngDispatch \/ EngMatch

Next == NetSteps \/ NetInput \/ Signal \/ Engine

(***************************************************************************)
(* Both threads are scheduled for ever, and a store does not stay unseen   *)
(* for ever by a thread that keeps loading.  No input has to come, and no  *)
(* signal.                                                                 *)
(***************************************************************************)
Fairness ==
  /\ WF_vars(NetSteps)
  /\ WF_vars(Engine)
  /\ SF_vars(EngDispatch)
  /\ SF_vars(EngLeave)

Spec == Init /\ [][Next]_vars /\ Fairness

-----------------------------------------------------------------------------
(* Type invariant. *)
Command ==
  {Stamped(Numbered(line, id), t) :
     line \in {l \in Lines : l.type = "NEW"}, id \in OrderIds, t \in Timestamps}
    \cup {Stamped(line, t) :
            line \in {l \in Lines : l.type # "NEW"}, t \in Timestamps}
    \cup {FinalStats}

TypeOK ==
  /\ Ex!TypeOK
  /\ net \in {"check", "enter", "wait", "lines", "push",
              "final", "clear", "join", "closed"}
  /\ eng \in {"check", "pop", "match", "stopped"}
  /\ queue \in Seq(Command) /\ Len(queue) <= QueueBound
  /\ pending \in Command \cup {NoCommand}
  /\ nextOrderId \in Nat \ {0}
  /\ running \in BOOLEAN
  /\ accepted \in Nat /\ processed \in Nat

(***************************************************************************)
(* The matching thread gives the exchange what Exchange.tla assumes: one   *)
(* command at a time, each matched to the end before the next, and new     *)
(* orders numbered 1, 2, 3, ... in the order they are added, although the  *)
(* numbers are handed out by the other thread before the queue.            *)
(***************************************************************************)
ImplementsExchange == Ex!Spec

(***************************************************************************)
(* A shutdown never cuts a command short: when the matching thread has     *)
(* left its loop no book is half matched, and main is past join only then. *)
(***************************************************************************)
StopsBetweenCommands ==
  /\ eng = "stopped" => /\ matching = NoSymbol
                        /\ \A s \in DOMAIN books : Ex!Uncrossed(books[s])
  /\ net = "closed" => eng = "stopped"

(***************************************************************************)
(* Unless a shutdown begins, every command the network thread accepts is   *)
(* handled in the end, a full queue and a spinning push notwithstanding.   *)
(***************************************************************************)
AcceptedIsProcessed ==
  []running => \A n \in 1 .. MaxCommands : accepted >= n ~> processed >= n

(***************************************************************************)
(* Once running is false the matching thread leaves its loop.              *)
(***************************************************************************)
EngineStops == ~running ~> eng = "stopped"

(***************************************************************************)
(* "Push a final STATS command to ensure remaining items are processed",   *)
(* "Give matching thread time to process remaining SPSC items" (main): no  *)
(* command of a client is left in the queue when main has shut down.       *)
(***************************************************************************)
ShutdownDrainsQueue ==
  net = "closed" => \A i \in DOMAIN queue : queue[i] = FinalStats

(***************************************************************************)
(* "Interrupted by signal (e.g. SIGINT), safe to continue loop to exit"    *)
(* (main), "Initiating graceful shutdown" (signalHandler): after a signal  *)
(* main comes to its end.                                                  *)
(***************************************************************************)
SignalEndsMain == ~running ~> net = "closed"

(***************************************************************************)
(* The same of a main thread that is past the waiting: once the flag is    *)
(* cleared, a thread that is pushing a client's command gets through its   *)
(* loop, finds the flag and shuts down.                                    *)
(***************************************************************************)
SignalEndsPush == (~running /\ net = "push") ~> net = "closed"
=============================================================================
