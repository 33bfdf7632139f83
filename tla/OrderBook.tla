----------------------------- MODULE OrderBook -----------------------------
(***************************************************************************)
(* One OrderBook (orderbook.h) as the matching thread drives it: a NEW is  *)
(* addOrder followed by matchOrders, a CANCEL is cancelOrder, a MODIFY is  *)
(* modifyOrder followed by matchOrders (server.cpp, the switch of          *)
(* matchingEngineThread).  The iterations of matchOrders's loop are steps  *)
(* of their own, and "active" is the program counter: while a command is   *)
(* being matched no other command starts.                                  *)
(***************************************************************************)
EXTENDS BookOps

CONSTANTS
  Quantities,  \* quantities a client may send: the parser takes any int
  MaxNodes     \* bounds the list nodes allocated in one behaviour

ASSUME OrderBookAssumption ==
  /\ Quantities \subseteq Int
  /\ MaxNodes \in Nat

NoOrder == 0
NoTrade == [none |-> TRUE]

VARIABLES
  book,         \* the object's members
  active,       \* id of the command being matched, or NoOrder
  trade,        \* history: the trade made by the last step, or NoTrade
  lastOrderId   \* history: nextOrderId is past this id

vars == <<book, active, trade, lastOrderId>>

Init ==
  /\ book = EmptyBook
  /\ active = NoOrder
  /\ trade = NoTrade
  /\ lastOrderId = 0

\* NEW: the network thread numbers the orders 1, 2, 3, ...
New(id, side, price, quantity, timestamp) ==
  /\ active = NoOrder
  /\ id = lastOrderId + 1
  /\ book.nodes < MaxNodes
  /\ book' = AddOrder(book, id, side, price, quantity, timestamp)
  /\ active' = id
  /\ lastOrderId' = id
  /\ trade' = NoTrade

\* CANCEL: any id may come, known, gone or never used.
Cancel(id) ==
  /\ active = NoOrder
  /\ book' = CancelOrder(book, id)
  /\ trade' = NoTrade
  /\ UNCHANGED <<active, lastOrderId>>

\* MODIFY: matchOrders runs even when the modify was rejected.
Modify(id, quantity, price, timestamp) ==
  /\ active = NoOrder
  /\ book.nodes < MaxNodes
  /\ book' = ModifyOrder(book, id, quantity, price, timestamp)
  /\ active' = id
  /\ trade' = NoTrade
  /\ UNCHANGED lastOrderId

\* One iteration of matchOrders's loop: a trade.
MatchFill ==
  /\ active # NoOrder
  /\ \E bp \in DOMAIN book.levels["BUY"], ap \in DOMAIN book.levels["SELL"] :
       /\ Crosses(book, bp, ap)
       /\ LET bid == Head(book.levels["BUY"][bp])
              ask == Head(book.levels["SELL"][ap])
          IN  trade' = [bid |-> bid, ask |-> ask,
                        quantity |-> TradeQuantity(bid, ask),
                        price |-> TradePrice(bid, ask)]
       /\ book' = Fill(book, bp, ap)
  /\ UNCHANGED <<active, lastOrderId>>

\* FAULT for MatchDone: "if" for "while", matchOrders ends after one trade.
MatchDoneAfterOne ==
  /\ active # NoOrder
  /\ Uncrossed(book) \/ trade # NoTrade
  /\ active' = NoOrder
  /\ trade' = NoTrade
  /\ UNCHANGED <<book, lastOrderId>>

\* The loop ends: one side is empty or the best prices do not meet.
MatchDone ==
  /\ active # NoOrder
  /\ Uncrossed(book)
  /\ active' = NoOrder
  /\ trade' = NoTrade
  /\ UNCHANGED <<book, lastOrderId>>

Next ==
  \/ \E id \in OrderIds, side \in Side, price \in Prices,
        quantity \in Quantities, timestamp \in Timestamps :
       New(id, side, price, quantity, timestamp)
  \/ \E id \in OrderIds : Cancel(id)
  \/ \E id \in OrderIds, price \in Prices, quantity \in Quantities,
        timestamp \in Timestamps : Modify(id, quantity, price, timestamp)
  \/ MatchFill
  \/ MatchDone

\* matchOrders runs to its end once called: nothing in its loop blocks.
Fairness == WF_vars(MatchFill \/ MatchDone)

Spec == Init /\ [][Next]_vars /\ Fairness

-----------------------------------------------------------------------------
(* Type invariant: the members of the book and the program counter. *)
TypeOK ==
  /\ IsBook(book)
  /\ active \in OrderIds \cup {NoOrder}
  /\ lastOrderId \in Nat
  /\ trade = NoTrade \/ trade \in [bid : Order, ask : Order,
                                   quantity : Int, price : Prices]

(***************************************************************************)
(* The three views of the book agree after every operation: the order map  *)
(* indexes exactly the queued orders, no stored iterator dangles, no level *)
(* is empty, and each queue is in the order its orders joined it (what     *)
(* erase-by-iterator, front() and the O(1) lookup of orderbook.h rely on). *)
(***************************************************************************)
BookWellFormed == WellFormed(book)

(***************************************************************************)
(* Only the order of the command being matched can meet the other side, so *)
(* no two resting orders ever trade with each other, and the book is       *)
(* uncrossed whenever no command is being matched.  (matchOrders is called *)
(* after every NEW and MODIFY but not after a CANCEL.)                     *)
(***************************************************************************)
OnlyActiveCrosses ==
  \A bid \in OrdersOn(book, "BUY"), ask \in OrdersOn(book, "SELL") :
    bid.price >= ask.price => active \in {bid.orderId, ask.orderId}

(***************************************************************************)
(* Each trade is between the active order and one that was resting, and    *)
(* when the resting order bears the strictly earlier timestamp the trade   *)
(* is at the resting order's price (the comment on matchOrders).           *)
(***************************************************************************)
TradesAtMakerPrice ==
  trade # NoTrade =>
    \E maker, taker \in {trade.bid, trade.ask} :
      /\ maker # taker
      /\ taker.orderId = active
      /\ maker.timestamp < taker.timestamp => trade.price = maker.price

(***************************************************************************)
(* What the comment on matchOrders says without that condition: "Trade     *)
(* price = resting order's price".  Two commands may bear one microsecond. *)
(***************************************************************************)
TradesAtRestingPrice ==
  trade # NoTrade =>
    \A maker \in {trade.bid, trade.ask} :
      maker.orderId # active => trade.price = maker.price

\* Orders x and y rest on one level, x in front of y.
Ahead(b, x, y) ==
  \E s \in Side : \E p \in DOMAIN b.levels[s] :
    \E i, j \in DOMAIN b.levels[s][p] :
      /\ i < j
      /\ b.levels[s][p][i].orderId = x
      /\ b.levels[s][p][j].orderId = y

QuantityOf(b, id) == (CHOOSE o \in Resting(b) : o.orderId = id).quantity

(***************************************************************************)
(* Time priority is lost only by one's own doing: an order x that stood in *)
(* front of y falls behind it only by a MODIFY of x that does not shrink   *)
(* it (the modify table of the README).                                    *)
(***************************************************************************)
TimePriorityKept ==
  [][\A x, y \in OrderIds :
       Ahead(book, x, y) /\ Ahead(book', y, x) =>
         active' = x /\ QuantityOf(book', x) >= QuantityOf(book, x)]_vars

\* Total quantity resting on one side.
SideQuantity(b, s) == MapThenSumSet(LAMBDA o : o.quantity, OrdersOn(b, s))

\* A step's trade, its effect on both sides and on totalVolume add up.
Conserves ==
  LET volume == book'.stats.totalVolume - book.stats.totalVolume
  IN  IF trade' = NoTrade THEN volume = 0
      ELSE \A s \in Side :
             LET taken == SideQuantity(book, s) - SideQuantity(book', s)
             IN  (volume - taken) % VolumeModulus = 0
                   /\ taken = trade'.quantity

(***************************************************************************)
(* A trade takes the same quantity from both sides of the book and adds    *)
(* just that to totalVolume; no other step changes totalVolume.            *)
(***************************************************************************)
TradesConserve == [][Conserves]_vars

(***************************************************************************)
(* Every iteration of matchOrders's loop finishes at least one order, so   *)
(* the loop ends: it has no other bound.                                   *)
(***************************************************************************)
TradesFinishAnOrder ==
  [][trade' # NoTrade =>
       Cardinality(Resting(book')) < Cardinality(Resting(book))]_vars

(***************************************************************************)
(* The lists and the index implement price-time priority: the resting      *)
(* orders are those queued, ranked by their nodes.                         *)
(***************************************************************************)
Abstract == INSTANCE PriorityBook
              WITH resting <- Resting(book), arrivals <- book.nodes

ImplementsPriority == Abstract!Spec
=============================================================================
