# A verification project for the order matching engine

TLA+ modules that model the matching engine of this repository, TLC
configurations that check them on small instances, and TLAPS proofs of their
safety properties for instances of every size. Paths such as `orderbook.h:248`
are files of the repository and lines in them.

## 1. The system

A server process with two threads. The **main (network) thread** runs an
edge-triggered epoll loop, splits what clients send into lines, turns each line
into a `Command` and pushes it into a lock-free single-producer
single-consumer ring. The **matching thread** pops commands and applies them to
an `Exchange`, which owns one `OrderBook` per symbol. Nothing but the ring and
the atomic flag `running` is shared between the threads. `SIGINT`/`SIGTERM`
clear `running`; both loops test it, and `main` then pushes a last `STATS`,
joins the matching thread and closes its sockets.

| Component | State | Operations | Talks to |
|---|---|---|---|
| `OrderBook` (`orderbook.h`) | `bids`, `asks` (price → list of orders), `orderMap` (id → side, price, list iterator), statistics | `addOrder`, `cancelOrder`, `modifyOrder`, `matchOrders` (`printBook`, `getStats` read only) | called by `Exchange` |
| `Exchange` (`exchange.h`) | `books` (symbol → book), `orderSymbolMap` (id → symbol) | the same four, routed; `printBook`, `printStats` read only | called by the matching thread |
| `SPSCQueue` (`spsc_queue.h`) | slots, `head`, `tail` (atomics) | `push`, `pop` | both threads |
| Matching thread (`server.cpp:90-158`) | the command in hand, `LatencyTracker` | pop, dispatch, match, record | ring, `Exchange`, `running` |
| Network thread (`server.cpp:314-523`): connections | descriptors, epoll instance, `clientBuffers` | set up, accept, read, split into lines, close, shut down | clients (sockets), `running` |
| Network thread: commands (`server.cpp:176-303`) | `nextOrderId` | parse a line, number it, push it | ring |
| `LatencyTracker` (`latency_tracker.h`) | samples, sums | `record`, percentiles, `reset` | matching thread only |
| `MutexQueue` (`mutex_queue.h`), `benchmark.cpp` | `std::queue` under a mutex | `push`, `pop` | benchmark only |
| `main.cpp`, `Makefile`, `deploy.sh` | – | scripted calls; build; install | – |

What makes each of them correct, and what is hard to get right:

* **OrderBook** – the three views (levels, queues, id index) must agree after
  every operation, or a stored iterator dangles; strict price-time priority;
  a modify gives up priority exactly in the cases of the README's table; a
  trade moves the same quantity on both sides; the unbounded loop of
  `matchOrders` ends. Hard: equal or backward clock readings, quantities that
  are zero or negative (nothing rejects them), long command sequences.
* **Exchange** – a resting order can always be reached through
  `orderSymbolMap`; books do not disturb each other; an order that is gone does
  not come back, although its entry in `orderSymbolMap` stays after a fill; the
  book that changed is the one that is matched.
* **SPSCQueue** – no data race on a slot, FIFO, nothing lost or repeated, full
  told from empty across the wrap. Hard: the memory model, stale index loads.
* **Server** – commands reach the exchange whole, in order, with fresh ids;
  shutdown never cuts a command short; both threads end. Hard: a signal at any
  moment, a full queue while one side is leaving.
* **Connections** – an edge is reported once, so every accept and read loop must
  run until nothing is left, or a client is forgotten; every complete line is
  handed over once, in order, however the stream is cut; descriptors are closed
  on every way out and are reused without mixing two clients up. Hard: data that
  arrives while it is being read, disconnects in mid-line and in mid-batch,
  failing calls.
* **Parser** – a line in a supported format becomes the command it says; a
  malformed one leaves no trace. Hard: extractions that stop inside a token,
  numbers too long or negative, symbols cut to 15 characters.
* **LatencyTracker** – latencies are non-negative although their stamps are made
  on two threads; the report is that of the samples of this run, whatever
  earlier reports sorted and earlier runs left. Hard: rank at the boundaries.
* **MutexQueue, benchmark** – nothing lost or doubled; both threads end. Hard:
  a consumer that polls the mutex without pause.

`PROJECT.json` lists the hazards, each at the line where it bites and with the
properties that would catch it.

## 2. The modules

| Module | What it is |
|---|---|
| `BookOps` | the data of an `OrderBook` and each member function as an operator from books to books |
| `OrderBook` | one book as the matching thread drives it, with its properties |
| `PriorityBook` | the abstract book: a set of ranked orders, traded by price and rank; `OrderBook` implements it |
| `Exchange` | several books, the routing map, the commands |
| `SPSCQueue` | the ring, one atomic access per step, with weak memory |
| `BoundedFIFO` | the abstract queue that `SPSCQueue` implements |
| `Server` | both threads, the queue between them, signal and shutdown; it uses `Exchange`'s own actions (`Ex == INSTANCE Exchange`) and the FIFO that `SPSCQueue` implements |
| `EventLoop` | the sockets: set-up, accept and read loops under edge-triggered epoll, client buffers, shutdown; with the clients and the part of the kernel the code relies on |
| `CommandParser` | from a line of tokens to a `Command`, and the ids |
| `LatencyTracker` | the tracker's data and each member function as an operator |
| `Pipeline` | producer and consumer over either queue, the five stamps of a command, and the tracker; `MutexQueue` taken apart into lock, reading, writing |
| `MC*` | instances for TLC |
| `DataLemmas` | lemmas about numbers, finite sums, sequences and sorting |
| `BookLemmas` | lemmas about the operators of `BookOps` |
| `OrderBookProofs`, `ExchangeProofs`, `SPSCQueueProofs`, `ServerProofs`, `NetworkThreadProofs`, `PipelineProofs` | inductive invariants and theorems, one module per component; `NetworkThreadProofs` has those of `EventLoop` and of `CommandParser` |

How they stack: `BookOps` is extended by `OrderBook` and `Exchange`;
`OrderBook` implements `PriorityBook`; `SPSCQueue` implements `BoundedFIFO`;
`Server` composes the FIFO with the `Exchange` and implements `Exchange!Spec`;
`Pipeline` extends `LatencyTracker`. A line goes through `EventLoop` (bytes to
lines), `CommandParser` (line to command) and `Server` (command to exchange);
each takes what the one before it hands over as an arbitrary input, so nothing
the earlier one guarantees is needed by the later one, apart from what
`SupportedIsUnderstood` and `ParserTypeOK` say of the command.

Definitions marked `FAULT` in the modules are deliberate errors (a dropped
guard, a missing update, a wrong memory order) that no specification uses.
Substituting one for the definition it names must break one property
(`PROJECT.json`, "mutants"): it shows that the property can fail.

### State and code

* *Lists and iterators.* A `std::list<Order>` is a sequence of orders. Each
  `push_back` gives its order a fresh number (`node`) that stands for the
  address of the list node; an iterator is such a number. A number whose order
  has left denotes nothing, so a dangling iterator is visible
  (`IndexPointsToQueues`), and numbers tell the order of arrival.
* *Levels.* A `std::map` is a function on the prices present; `begin()` is the
  greatest (`bids`) or least (`asks`) of them (`IsBest`). An empty level is an
  error state, as `front()` would be undefined.
* *matchOrders.* `active` (in `Exchange`: `matching`) is the program counter.
  Each iteration of the loop is one step, `MatchFill`; `MatchDone` is the exit.
* *Numbers.* Prices and timestamps are integers: the code only compares them.
  Quantities are unbounded integers, `totalVolume` wraps at `VolumeModulus`
  (2^64 in the code; adding a negative `int` wraps it there too).
* *Commands.* Ids of new orders are 1, 2, 3, …; CANCEL and MODIFY carry any
  id. `Server` produces the ids in `processLine`, on the other thread, and
  `ImplementsExchange` shows that they arrive so.
* *Ring.* Each index is the log of the stores made to it. A load by the other
  thread returns any store not older than the last it saw; a release store
  carries how many slot accesses its thread has made, an acquire load of it
  learns that number. An access made without knowing of the other thread's last
  access to that slot is a race (`NoDataRace`).
* *Shutdown.* `net` and `eng` are the program counters of the threads. A
  signal interrupts `epoll_wait` only when the thread is in it (`net = "wait"`);
  before that it just clears `running`.
  `EventLoop` has one `pc` for the same loop, seen from its sockets: there a
  cleared flag, or an error of `epoll_wait`, may be found at every test and wait.
  The server's queue keeps what the ring's weak memory shows to its callers: a
  pop may fail although a command was just pushed, the final push although room
  was just made, and a relaxed load of `running` may be late.
* *Sockets.* `fds` says what each open descriptor is; `socket`, `accept` and
  `epoll_create1` take the lowest free one. `ready` are the edges the kernel
  still has to report: a connection, a byte, an end of stream or the adding of a
  descriptor that has input puts one there, `epoll_wait` takes at most
  `MaxEvents` of them, in any order (the kernel promises none), and drops those
  with nothing to report any more. `read` takes what is there, up to `ReadSize`; the
  end of the stream is seen after the last byte, a reset at any time. The bytes
  other than CR and LF are opaque. A reading of the clock (`recvTimestamp`) is
  named by the place in the stream where the read before it began, 0 being the initial 0.
* *Lines.* For the parser a line is a sequence of tokens and a token one of
  pieces (word, integer, `.5`), because `ss >> x` stops inside a token: `10.5`
  read as an integer leaves `.5`. An `int` out of range fails; a negative
  `uint64_t` wraps (`UInt64`, `IdModulus`), so `CANCEL -1` names an id no order
  has. Prices count halves.
* *Times.* `clock` is `steady_clock` (never back); each stamp is a step of its
  own, so the other thread may run between any two. `percentile` rounds
  `ceil(p * n)` in doubles: for the three ranks used this equals the exact
  integer formula of the module for every n up to 2 000 000. `Sorted` stands for
  `std::sort`: some rearrangement of the samples that ascends.

## 3. The runs

| Run | Instance | States | What it shows |
|---|---|---|---|
| `book` | 3 orders, 4 list nodes, prices 1–2, timestamps 1–2, quantities −1, 1, 2 | 177 393 | well-formedness, priority, conservation, termination of matching, refinement of `PriorityBook` |
| `exchange` | 2 symbols, 3 orders, 3 nodes per book, prices 1–2, quantities −1, 1, 2 | 528 458 | routing, isolation, dead orders stay dead |
| `spsc` | 3 slots (2 places), 7 pushes | 27 080 | no race, FIFO, full test, a spinning push ends |
| `server` | queue of 2, 4 commands, 2 ids, 1 symbol | 73 511 | composition, shutdown between commands, progress |
| `event_loop` | 2 clients sending 5 and 3 bytes, reads of 2 bytes, 2 events per wait, 4 descriptors | 534 946 | lines once and in order, no lost edge (but to a failing accept), no stale event, no leak, no receive time of 0 or after the line's arrival, progress |
| `parser` | the 6 commands with up to 4 arguments from 9 tokens, an unknown command, an empty line | 133 893 | what a line means, and which lines use an id |
| `pipeline` | 3 rounds (ring, mutex, server with STATS), 10 commands, 4 clock readings | 208 094 | latencies fit, report exact, nothing lost, rounds end |
| `book_same_tick`, `server_drain`, `server_signal`, `server_spin` | smaller | – | findings 1–4 |
| `parser_readme` | as `parser` | – | finding 5 |

Bounds. *Book*: a third order is needed for one order to be passed over while
another trades, a fourth node for a reinsertion among them; two prices give a
crossing and a non-crossing pair on either side; two clock readings give
earlier, equal and later. The quantities 1 and 2 give full and partial fills on
either side, −1 the quantities nobody rejects. `VolumeModulus` is 5, so
`totalVolume` wraps, upwards and downwards. *Exchange*: two symbols are enough
for a command to name the wrong one. *Ring*: seven pushes go round three slots
more than twice, so every slot is rewritten under every staleness of the other
index. *Server*: with one command being matched, two in the queue and one in a
spinning push, every place a command can be in is taken at once.
*Event loop*: streams of five and three bytes against reads of two give a read
that ends inside a line, one that has parts of two, a buffer with two lines in
it, a CR cut from its LF, and an unfinished line at the end; two clients and two events per
wait give a batch whose earlier event closes or accepts while the later one
waits, and edges left over for the next wait. One descriptor per client, so the
second client gets the first one's after a disconnect. *Parser*: every command
with too few, enough and too many tokens; of each kind of number one that fits,
a negative one and one too long, two symbols that are equal once cut.
*Pipeline*: a ring of one place makes the producer spin; the round with the
mutex follows one that filled the tracker; the server's round prints a report
before the first sample, between samples and before the last. Four clock
readings give equal and different latencies in every order of size.
The `exchange` and `server` runs use a single timestamp; only the trade price
depends on timestamps, which is `book`'s question.

Deadlock is checked in the `book`, `exchange` and `spsc` runs. The server, the
event loop and the benchmark do stop (and the parser has no more ids to give
within its bound), so their runs switch the check off; `EngineStops`,
`AcceptedIsProcessed`, `SentLinesAreHanded` and `RoundsEnd` say what must not
stop.

### Fairness

* `OrderBook`, `Exchange`: weak fairness of the loop of `matchOrders`, which
  does not block. Commands need not come.
* `SPSCQueue`: both threads keep taking steps (weak fairness), and a store does
  not stay invisible for ever to a thread that keeps loading (strong fairness of
  the load of the latest store; C++17 asks for it in [intro.progress]). Nobody
  has to call `push`, and a caller may give up.
* `Server`: weak fairness of each thread, and strong fairness of a successful
  pop and of seeing `running` cleared: both are loads that may be late
  (`EngYield` on a queue that is not empty, `EngCheck` after a signal) but not
  for ever. No input, error or signal has to come.
* `EventLoop`: weak fairness of the main thread's steps, taken together and
  without the end of the loop: every call but `epoll_wait` returns at once. The
  clients need not send, nor close. Their streams are finite; with an endless
  fast sender the read loop has no bound in the code (see the hazards).
* `Pipeline`: weak fairness of both threads, and strong fairness of the
  producer's locking. `std::mutex` promises no fairness; that a thread that
  tries again and again gets a mutex that is released again and again is what
  the benchmark counts on, as its consumer locks without pause.

### Findings

1. `orderbook.h:268`. Comments at 239 and 267 say the trade is at the resting
   order's price. It is at the price of the order with the smaller timestamp and,
   on a tie, the bid's. Timestamps are microseconds of a clock that may step
   back, so an ask resting at 1 and a bid at 2 may trade at 2.
   `TradesAtMakerPrice` is what does hold (and is proved).
2. `server.cpp:505`. The last `STATS` is "to ensure remaining items are
   processed" (495), but the matching thread tests `running` before each pop
   and leaves with commands in the queue.
3. `server.cpp:385`. A signal between the test of `running` and `epoll_wait`
   is lost: "safe to continue loop to exit" (387) holds of one that comes while
   the thread waits. Main stays in `epoll_wait` until a client sends something.
   In `server_signal` the queue has room for every command, so this is the only
   way to stay.
4. `server.cpp:212`. A signal that stops the matching thread while the main
   thread still has lines to push leaves main spinning on the full ring: unlike
   the final push ("don't block forever", 501), this loop never gives up. Not
   the "graceful shutdown" that line 46 announces (`server_spin`).
5. `README.md:140`, `143`. "BUY <qty> <price>", "MODIFY <orderId> <qty> <price>": the
   parser wants a symbol first (`server.cpp:189`, `245`), as the comment above
   `processLine` says. `BUY 10 100` is rejected; `BUY 10 100.5` is worse, it
   is taken as symbol 10, quantity 100, price .5. In the same way
   `BUY AAPL 10.5 100` is an order for 10 at .5.

## 4. What is proved

TLAPS proves the following for every value of the constants that the named
assumptions allow; none of them bounds a size. TLC evaluates each assumption in
the runs of section 3.

| Module | Theorems | Assumption |
|---|---|---|
| `OrderBookProofs` | `BookTypeCorrect`, `BookAlwaysWellFormed`, `OnlyActiveEverCrosses`, `TradesAlwaysAtMakerPrice`, `BookKeepsPriority`, `PriorityIsKept`, `MatchingFinishesOrders`, `TradesAlwaysConserve` | `BookAssumption`, `OrderBookAssumption`: the constants are sets of integers |
| `ExchangeProofs` | `ExchangeTypeCorrect`, `BooksAlwaysWellFormed`, `RestingAlwaysRouted`, `AlwaysUncrossedAtRest`, `DeadOrdersStayDead`, `OnlyCancelsAndTradesRemove` | also `ExchangeAssumption`: there is a symbol that means "none" |
| `SPSCQueueProofs` | `RingTypeOK`, `RingNoDataRace`, `RingFullOnlyWhenFull`, `RingIsFIFO` | `SPSCAssumption`: at least one slot (the code has 1024; with one, nothing can be pushed), and `NoItem` is no item |
| `ServerProofs` | `ServerTypeCorrect`, `AlwaysStopsBetweenCommands`, `ServerDrivesExchange`, `ServerKeepsBooksSound` | `ServerAssumption`: those of the exchange, and that the bounds put on commands and on list nodes agree |
| `NetworkThreadProofs` | `EventLoopTypeOK`, `EventsStayCurrent`, `DescriptorsDoNotLeak`, `HandedLinesAreStamped`, `WakeupsAreNotLost`, `LinesAlwaysHandedOnce`; `ParserTypes`, `SupportedIsAlwaysUnderstood`, `OnlyOrdersTakeIdsAlways` | `EventLoopAssumption`: streams are sequences of bytes, a read and a wait take at least one thing, the listener and the epoll instance are no clients; `ParserAssumption`: a line is a sequence of tokens, a token a non-empty sequence of pieces, and a `uint64_t` holds every id given out |
| `PipelineProofs` | `PipelineTypeCorrect`, `LatenciesFit`, `OrdersRecordedOnce`, `TrackerAlwaysExact` | `PipelineAssumption`: rounds are sequences of commands, the ring holds at least one, `MaxTime` is above every clock reading and the clock starts below its bound |

In each module the theorems follow from one inductive invariant, `IInv` (the
parser's is `ParserInv`), whose parts TLC has checked before they were proved, on
the instances of section 3 or, where those have too many lines, on fewer of them.

**Inductions.** The provers cannot instantiate the library's induction rules, which
take a predicate as a parameter. `DataLemmas` therefore argues by the least
counterexample (`Least`, from the well-foundedness of `<` on the naturals):
the set of numbers at which a statement fails, were it not empty, would have a
least member, and that one is refuted. In this way it proves what adding one
element does to a sum over a set or a sequence, that every finite sequence of
integers has a sorting permutation, and that in a rearranged sequence as many
elements do not exceed a value as before. Where a sum or a list is a recursive function, the function is first
shown to exist, again by the least number up to which there is none.

**The book and the exchange.** `BookLemmas` describes a book slot by slot
(`HasSlot(b, s, p, i)`: the queue of side `s`, price `p` has an `i`-th order) and
proves for the three elementary changes – insert at the back, remove one order
and its entry, write a quantity – which slots the new book has and that `Good`
(typed and well-formed) is kept. Its second part lifts this to the public
operations, and adds who can meet whom: `MeetsOnly(b, id)` says that crossing
pairs all involve `id`. Inserting into an uncrossed book gives `MeetsOnly` of
the inserted order; removing and shrinking keep it (`Shrunk`).

For one book the invariant is types, well-formedness, `MeetingOrders` (uncrossed
when idle, `MeetsOnly(book, active)` while matching) and `IdsAreUsed` (no resting
id above the latest). `BookWellFormed` alone is not inductive: inserting an id
that still rests would overwrite its index entry, so freshness is needed.
`OnlyActiveCrosses` alone is not either: it needs the well-formedness that ties
an order's price to its level. For the exchange: types, well-formedness of every
book, `RestingIsRouted`, `UncrossedAtRest` and `RoutedIdsAreUsed`; freshness of a
new id in its book follows from the last and the routing. `DeadStayDead` and
`OnlyCancelOrTradeRemoves`, action properties, follow from the same step lemmas,
which also say what each action does to the set of resting ids.

`BookKeepsPriority` is the step part of `ImplementsPriority`. The last part of
`BookLemmas` says of each operation what it does to the set `Resting(b)` –
one order added, withdrawn, changed, or two fronts reduced – and that is the
abstract action. The step that needs the well-formedness is the trade:
`FrontIsFirst` turns "front of the queue at `begin()`" into "no order of its side
goes before it", by the order of arrival in a queue. `PriorityIsKept` is proved
on top of it: an operation other than a modify that reinserts keeps every order's
price and rank. For `MatchingFinishesOrders` the number of resting orders must
be one (`FewOrders`: the set is finite), and a trade replaces both fronts by at
most one remainder. `TradesAlwaysConserve` rests on `FillConserves`: the trade
writes two fronts, so the quantity of either side falls by the quantity traded
and by nothing else, whether a front leaves or stays; of the statistics only a
trade writes `totalVolume`, and it adds the same quantity, modulo the width.

**The ring.** The invariant ties three things together that the code keeps
apart: the logs of `head` and `tail` count the pops and pushes completed so far
(the n-th store of an index is n modulo the capacity), what each thread has seen
of the other's log is a prefix of it, and a release store carries the number of
slot accesses made before it. With at most `Capacity - 1` items between the
counts two different counts never name the same slot, so the slot written next
is one whose last read the producer knows of: that is `NoDataRace`, and it is why
the content of every slot in between is the item pushed there. `RingIsFIFO` is
the step part of `ImplementsFIFO`: the store of `tail` is the enqueueing, the
store of `head` the dequeueing, every other step a stutter.

**The server.** `ServerProofs` instantiates `ExchangeProofs` over the server's own
variables and so reuses its invariant and its lemma for each action. What is
added is that the ids on the way from `processLine` through the queue to the
exchange are those that come next, that `eng` and `matching` agree (a book is
being matched only in the matching state), and that the list nodes never run out
before the commands do. `ServerDrivesExchange` is the composition: whatever the
threads' interleaving, the exchange sees a behaviour of `Exchange` on its own.
`ServerKeepsBooksSound` carries the exchange's theorems over.

**The event loop.** `FdsAgree` (clientBuffers, the watch list and the descriptor table
agree), `ConnectedOnce` (one descriptor per client and connection), `BatchIsOpen`
(the events still to be handled are distinct, and of descriptors that are open and
were so when they were reported), `Reported` (a descriptor with unread input, or
a listener with waiting connections, has an edge in the kernel or an event in the
batch, or is the one whose loop is running) and `Fresh` (a buffer that has a
line belongs to the event at hand, which has a receive time by then).
`EventsAreCurrent` needs the distinctness in `BatchIsOpen`: closing one descriptor of a batch may not touch a later event.
`NoLostWakeup` is `Reported` read at the wait, with its one exception: connections
that a failing `accept` left behind (`acceptFailed`) wait for the next one to
come. Nothing here uses the order in
which edges are reported.

For `LinesAlwaysHandedOnce` a second invariant, `CutAtLF`, is added on top: the
bytes read from each client can be cut at a LF (or before the first byte) such
that the lines before the cut are those handed over and what follows it is the
client's buffer, or, when the client has lost its descriptor, holds no LF. A read
moves the end, `HandLine` moves the cut to the next LF (`OneLine`), and a
descriptor is closed by an event only when its buffer has no LF. A new client
with an old descriptor starts with an empty buffer and nothing read. That
the lines of a longer stream begin with those of a shorter one (`LinesGrow`) is
why the property says "prefix" while a read is being worked on.

`TimeKept` is another invariant on top, for `HandedLinesAreStamped`: a receive time
is that of a read of the client at hand which began no later in the stream than any
LF now in its buffer. It is kept because the time is taken once per event, at the
first read: what an event finds in the buffer has no LF (`Fresh`), and later reads
only add bytes behind. The time may well be earlier than the read that completed the
line; the theorem says that it is not later, and not 0.

**The parser.** A command's arguments are read by a fold over their types, and a
fold is a recursive function. `FoldExtracts` unfolds it for the at most four types
of a command, into the readers before, between and after the extractions; it first
shows that the function exists (`RoundsSettle`: each round of its equation settles
the sets of one more place). From there on a line is read step by step.
`ExtractSound` says that what is left after an extraction is again a sequence of
tokens and that the value taken has its type, so every command has the types
`ParserInv` asks for, whatever the line (`BuiltTyped`). For the supported
formats, `SymbolRead`, `WholeRead` and `PriceRead` show that an extraction takes
exactly its token and nothing of the next; `SupportedSays` puts them together,
command by command. `ParserInv` adds to the types only that a line is taken up
while there is an id left, which is what makes `nextOrderId` a `uint64_t`.

**The pipeline.** The invariant numbers the commands under way: the recorded and
processed ones, the consumer's, those in the queue, the producer's, without a
gap (`NoGap`, `QueueInOrder`), each with the stamps it has so far in order. Over
`MutexQueue` it needs `OneInside`: the thread that has the mutex knows the
container as it is. `Kept` is added for the tracker: its four vectors are
rearrangements of the latencies of the commands recorded since the last reset, and its sums and extremes are theirs. `record`
appends to all of them, a report sorts some in place and changes no sum. In a
sorted vector the share of the samples that do not exceed the one at a place is
known from the place (`SortedShare`), and it is the share in the order of
recording: that makes the value `percentile` picks the nearest rank
(`PercentileIsNearestRank`).

## 5. What is only model-checked

* Liveness: `SpinningPushEnds`, `AcceptedIsProcessed`, `EngineStops`,
  `SentLinesAreHanded`, `RoundsEnd`, and the fairness halves of `ImplementsPriority`,
  `ImplementsFIFO` and `ImplementsExchange`. The prover does not reason about fairness.

Every other property of the passing runs is stated by a theorem of section 4.

## 6. What is not modelled

* Output: `printBook`, `printOrderLatency`, the layout of the reports and the
  traces on `std::cout`, which change no state (`printStats` sorts the samples:
  that is modelled).
* `main.cpp` (a script of calls that prints what they do), `Makefile`,
  `deploy.sh`.
* Of the benchmark, the sides and prices of its orders (they only feed the
  `Exchange`, which is modelled with all of them) and the comparison of the
  printed figures.
* The width of `int` quantities of resting orders. Exponents in prices, symbols
  that are numbers of more than 15 digits.
* Data the ring carries: an item is opaque, its copy in and out of a slot one
  step (a torn copy would need a data race first, which `NoDataRace` excludes).
* The signal handler's use of `std::cout` (undefined when it interrupts another
  use) and unbounded growth: of `orderSymbolMap`, of a client's buffer without
  newline, of a read loop with an endless sender. The code states no bound that
  could be checked; the hazards in `PROJECT.json` name the lines.

## 7. Plan

Left for the proofs: that `EventLoop`, `CommandParser` and `Server` compose, in one
module, so that what a client sends is traced to the command the exchange sees;
today each is proved for arbitrary inputs from the one before (section 2).
