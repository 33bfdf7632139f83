------------------------------ MODULE BookOps ------------------------------
(***************************************************************************)
(* The data of class OrderBook (orderbook.h) and what each of its member   *)
(* functions does to it, as operators from books to books.  OrderBook.tla  *)
(* and Exchange.tla turn them into state machines.                         *)
(*                                                                         *)
(* A std::list<Order> is a sequence of orders.  The address of a list node *)
(* is the field "node" of the order it holds: every push_back takes a      *)
(* number never used before, so a stored iterator ("it") that outlives its *)
(* node denotes nothing.  Since numbers are handed out in increasing order *)
(* they also tell which of two orders was queued first.                    *)
(*                                                                         *)
(* A price is any integer: the code only compares doubles, and the parser  *)
(* never yields a NaN.                                                     *)
(***************************************************************************)
EXTENDS Integers, SequencesExt

CONSTANTS
  OrderIds,      \* ids the network thread can hand out
  Prices,        \* prices an order can carry
  Timestamps,    \* readings of the system clock
  VolumeModulus  \* totalVolume is counted modulo this (2^64 in the code)

ASSUME BookAssumption ==
  /\ OrderIds \subseteq Nat \ {0}
  /\ Prices \subseteq Int
  /\ Timestamps \subseteq Int
  /\ VolumeModulus \in Nat \ {0}

Side == {"BUY", "SELL"}

Order == [orderId : OrderIds, side : Side, price : Prices,
          quantity : Int, timestamp : Timestamps, node : Nat]

OrderLocation == [side : Side, price : Prices, it : Nat]

SymbolStats == [totalOrders : Nat, totalTrades : Nat, totalVolume : Nat]

(***************************************************************************)
(* A book: levels["BUY"] is the map bids and levels["SELL"] the map asks,  *)
(* both from price to queue; nodes counts the list nodes allocated so far. *)
(***************************************************************************)
EmptyBook ==
  [levels   |-> [s \in Side |-> <<>>],
   orderMap |-> <<>>,
   stats    |-> [totalOrders |-> 0, totalTrades |-> 0, totalVolume |-> 0],
   nodes    |-> 0]

(***************************************************************************)
(* Helpers on the maps and lists.                                          *)
(***************************************************************************)

\* map::operator[]: the queue of a level, created empty when it is missing.
QueueAt(level, p) == IF p \in DOMAIN level THEN level[p] ELSE <<>>

\* A finite map with one more, or one overwritten, entry.
Put(f, k, v) == [x \in DOMAIN f \cup {k} |-> IF x = k THEN v ELSE f[x]]

\* A finite map without one key.
Drop(f, k) == Restrict(f, DOMAIN f \ {k})

\* The place of a list node in its queue.
PlaceOf(queue, it) == CHOOSE i \in DOMAIN queue : queue[i].node = it

\* FAULT for EraseAt: the level is kept when its queue empties.
EraseAtKeepingLevel(b, s, p, i) ==
  [b EXCEPT !.levels[s] = Put(@, p, RemoveAt(@[p], i))]

\* list::erase of the i-th node, and map::erase of the level when it empties.
EraseAt(b, s, p, i) ==
  LET rest == RemoveAt(b.levels[s][p], i)
  IN  [b EXCEPT !.levels[s] =
         IF rest = <<>> THEN Drop(@, p) ELSE Put(@, p, rest)]

\* A write through an iterator.
SetQuantity(b, s, p, i, n) ==
  [b EXCEPT !.levels[s][p][i].quantity = n]

\* orderMap.erase
Forget(b, id) == [b EXCEPT !.orderMap = Drop(@, id)]

\* Every order resting in the book, whatever its level.
OrdersOn(b, s) ==
  UNION {Range(b.levels[s][p]) : p \in DOMAIN b.levels[s]}
Resting(b) == OrdersOn(b, "BUY") \cup OrdersOn(b, "SELL")

(***************************************************************************)
(* Private members.                                                        *)
(***************************************************************************)

RemoveByLocation(b, loc) ==
  IF loc.price \in DOMAIN b.levels[loc.side]
  THEN EraseAt(b, loc.side, loc.price,
               PlaceOf(b.levels[loc.side][loc.price], loc.it))
  ELSE b

\* FAULT for InsertOrder: push_front.
InsertOrderInFront(b, o) ==
  [levels   |-> [b.levels EXCEPT ![o.side] =
                   Put(@, o.price, <<o>> \o QueueAt(@, o.price))],
   orderMap |-> Put(b.orderMap, o.orderId,
                    [side |-> o.side, price |-> o.price, it |-> o.node]),
   stats    |-> b.stats,
   nodes    |-> b.nodes + 1]

InsertOrder(b, o) ==
  [levels   |-> [b.levels EXCEPT ![o.side] =
                   Put(@, o.price, Append(QueueAt(@, o.price), o))],
   orderMap |-> Put(b.orderMap, o.orderId,
                    [side |-> o.side, price |-> o.price, it |-> o.node]),
   stats    |-> b.stats,
   nodes    |-> b.nodes + 1]

\* The Order the caller builds, in the list node push_back will allocate.
NewOrder(b, id, side, price, quantity, timestamp) ==
  [orderId |-> id, side |-> side, price |-> price, quantity |-> quantity,
   timestamp |-> timestamp, node |-> b.nodes]

(***************************************************************************)
(* Public members.                                                         *)
(***************************************************************************)

AddOrder(b, id, side, price, quantity, timestamp) ==
  [InsertOrder(b, NewOrder(b, id, side, price, quantity, timestamp))
     EXCEPT !.stats.totalOrders = @ + 1]

\* FAULT for CancelOrder: orderMap keeps the iterator of the erased node.
CancelOrderKeepingEntry(b, id) ==
  IF id \in DOMAIN b.orderMap THEN RemoveByLocation(b, b.orderMap[id]) ELSE b

CancelOrder(b, id) ==
  IF id \in DOMAIN b.orderMap
  THEN Forget(RemoveByLocation(b, b.orderMap[id]), id)
  ELSE b

\* FAULT for KeepsPriority: the comparison of quantities turned round.
KeepsPriorityIfLarger(o, quantity, price) ==
  price = o.price /\ quantity > o.quantity

\* Same price and a smaller quantity: the order is written in place.
KeepsPriority(o, quantity, price) == price = o.price /\ quantity < o.quantity

\* FAULT for ModifyOrder: an unknown id is entered instead of rejected.
ModifyOrderOfAnyId(b, id, quantity, price, timestamp) ==
  InsertOrder(CancelOrder(b, id),
              NewOrder(b, id, "BUY", price, quantity, timestamp))

\* FAULT for ModifyOrder: the old order goes, the new one is not inserted.
ModifyOrderWithoutInsert(b, id, quantity, price, timestamp) ==
  CancelOrder(b, id)

ModifyOrder(b, id, quantity, price, timestamp) ==
  LET loc  == b.orderMap[id]
      i    == PlaceOf(b.levels[loc.side][loc.price], loc.it)
      existing == b.levels[loc.side][loc.price][i]
      gone == Forget(RemoveByLocation(b, loc), id)
  IN  IF id \notin DOMAIN b.orderMap THEN b
      ELSE IF KeepsPriority(existing, quantity, price)
      THEN SetQuantity(b, loc.side, loc.price, i, quantity)
      ELSE InsertOrder(gone, NewOrder(gone, id, existing.side, price,
                                      quantity, timestamp))

(***************************************************************************)
(* matchOrders, one iteration of its loop at a time.  bp and ap are the    *)
(* keys of bids.begin() and asks.begin().                                  *)
(***************************************************************************)

IsBest(b, s, p) ==
  /\ p \in DOMAIN b.levels[s]
  /\ \A q \in DOMAIN b.levels[s] : IF s = "BUY" THEN q <= p ELSE p <= q

\* The loop goes on with the levels bp and ap.
Crosses(b, bp, ap) ==
  /\ IsBest(b, "BUY", bp)
  /\ IsBest(b, "SELL", ap)
  /\ bp >= ap

\* The loop has nothing left to do.
Uncrossed(b) ==
  \A bp \in DOMAIN b.levels["BUY"], ap \in DOMAIN b.levels["SELL"] : bp < ap

TradeQuantity(bid, ask) ==
  IF bid.quantity <= ask.quantity THEN bid.quantity ELSE ask.quantity

\* FAULT for TradePrice: the price of the later order.
TradePriceOfLater(bid, ask) ==
  IF bid.timestamp >= ask.timestamp THEN bid.price ELSE ask.price

TradePrice(bid, ask) ==
  IF bid.timestamp <= ask.timestamp THEN bid.price ELSE ask.price

\* FAULT for TakeFront: an order left with nothing stays in its queue.
TakeFrontKeepingEmpty(b, s, p, n) ==
  SetQuantity(b, s, p, 1, Head(b.levels[s][p]).quantity - n)

\* The front order of a level gives n and leaves when nothing remains of it.
TakeFront(b, s, p, n) ==
  LET front == Head(b.levels[s][p])
  IN  IF front.quantity = n
      THEN Forget(EraseAt(b, s, p, 1), front.orderId)
      ELSE SetQuantity(b, s, p, 1, front.quantity - n)

\* FAULT for Fill: totalVolume as a signed number that never wraps.
FillSignedVolume(b, bp, ap) ==
  LET n == TradeQuantity(Head(b.levels["BUY"][bp]), Head(b.levels["SELL"][ap]))
  IN  [TakeFront(TakeFront(b, "BUY", bp, n), "SELL", ap, n)
         EXCEPT !.stats.totalTrades = @ + 1, !.stats.totalVolume = @ + n]

\* FAULT for Fill: the buyer's quantity is counted, not the traded one.
FillCountingBid(b, bp, ap) ==
  LET bid == Head(b.levels["BUY"][bp])
      n == TradeQuantity(bid, Head(b.levels["SELL"][ap]))
  IN  [TakeFront(TakeFront(b, "BUY", bp, n), "SELL", ap, n)
         EXCEPT !.stats.totalTrades = @ + 1,
                !.stats.totalVolume = (@ + bid.quantity) % VolumeModulus]

Fill(b, bp, ap) ==
  LET n == TradeQuantity(Head(b.levels["BUY"][bp]), Head(b.levels["SELL"][ap]))
      after == TakeFront(TakeFront(b, "BUY", bp, n), "SELL", ap, n)
  IN  [after EXCEPT !.stats =
         [totalOrders |-> @.totalOrders,
          totalTrades |-> @.totalTrades + 1,
          totalVolume |-> (@.totalVolume + n) % VolumeModulus]]

(***************************************************************************)
(* Well-formed books.                                                      *)
(***************************************************************************)

\* f is a finite map with keys in K and values in V.
IsMap(f, K, V) == DOMAIN f \subseteq K /\ f \in [DOMAIN f -> V]

IsBook(b) ==
  /\ b = [levels |-> b.levels, orderMap |-> b.orderMap,
          stats |-> b.stats, nodes |-> b.nodes]
  /\ b.stats \in SymbolStats /\ b.nodes \in Nat
  /\ b.levels = [s \in Side |-> b.levels[s]]
  /\ \A s \in Side : IsMap(b.levels[s], Prices, Seq(Order))
  /\ IsMap(b.orderMap, OrderIds, OrderLocation)

\* begin() of a side never leads to an empty queue, whose front() is undefined.
NoEmptyLevel(b) ==
  \A s \in Side : \A p \in DOMAIN b.levels[s] : b.levels[s][p] # <<>>

\* An order rests on its own side, at its own price, in an allocated node.
QueuesHoldOwnOrders(b) ==
  \A s \in Side : \A p \in DOMAIN b.levels[s] :
    \A i \in DOMAIN b.levels[s][p] :
      LET o == b.levels[s][p][i]
      IN  o.side = s /\ o.price = p /\ o.node < b.nodes

\* Within a level the order queued first stays in front.
QueuesAreFifo(b) ==
  \A s \in Side : \A p \in DOMAIN b.levels[s] :
    \A i, j \in DOMAIN b.levels[s][p] :
      i < j => b.levels[s][p][i].node < b.levels[s][p][j].node

\* Every resting order is indexed, under its id, with its true location.
IndexCoversQueues(b) ==
  \A s \in Side : \A p \in DOMAIN b.levels[s] :
    \A i \in DOMAIN b.levels[s][p] :
      LET o == b.levels[s][p][i]
      IN  /\ o.orderId \in DOMAIN b.orderMap
          /\ b.orderMap[o.orderId] = [side |-> s, price |-> p, it |-> o.node]

\* No index entry dangles: its iterator denotes a live node of that order.
IndexPointsToQueues(b) ==
  \A id \in DOMAIN b.orderMap :
    LET loc == b.orderMap[id]
    IN  /\ loc.price \in DOMAIN b.levels[loc.side]
        /\ \E i \in DOMAIN b.levels[loc.side][loc.price] :
             LET o == b.levels[loc.side][loc.price][i]
             IN  o.node = loc.it /\ o.orderId = id

WellFormed(b) ==
  /\ NoEmptyLevel(b)
  /\ QueuesHoldOwnOrders(b)
  /\ QueuesAreFifo(b)
  /\ IndexCoversQueues(b)
  /\ IndexPointsToQueues(b)
=============================================================================
