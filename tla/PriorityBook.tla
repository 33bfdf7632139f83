---------------------------- MODULE PriorityBook ----------------------------
(***************************************************************************)
(* What an order book promises, without lists, maps and iterators: a set   *)
(* of resting orders, each with the rank at which it last took its place,  *)
(* traded strictly by price and then by rank (the price-time priority of   *)
(* orderbook.h and of the README's modify table).                          *)
(***************************************************************************)
EXTENDS Integers

CONSTANTS OrderIds, Prices, Quantities, Timestamps,
          NoOrder,   \* "no command is being matched"
          NoTrade    \* "the last step traded nothing"

VARIABLES
  resting,      \* the orders in the book
  arrivals,     \* ranks handed out so far
  lastOrderId,  \* id of the latest order submitted
  active,       \* id of the command being matched, or NoOrder
  trade         \* the trade made by the last step, or NoTrade

vars == <<resting, arrivals, lastOrderId, active, trade>>

Init ==
  /\ resting = {}
  /\ arrivals = 0
  /\ lastOrderId = 0
  /\ active = NoOrder
  /\ trade = NoTrade

Place(id, side, price, quantity, timestamp) ==
  [orderId |-> id, side |-> side, price |-> price, quantity |-> quantity,
   timestamp |-> timestamp, node |-> arrivals]

\* A new order takes the last place of its price.
Submit(id, side, price, quantity, timestamp) ==
  /\ active = NoOrder
  /\ id = lastOrderId + 1
  /\ resting' = resting \cup {Place(id, side, price, quantity, timestamp)}
  /\ arrivals' = arrivals + 1
  /\ lastOrderId' = id
  /\ active' = id
  /\ trade' = NoTrade

\* A cancelled order is gone; cancelling anything else changes nothing.
Withdraw(id) ==
  /\ active = NoOrder
  /\ resting' = {o \in resting : o.orderId # id}
  /\ trade' = NoTrade
  /\ UNCHANGED <<arrivals, lastOrderId, active>>

\* A smaller quantity at the same price keeps the order's place ...
Shrink(o, quantity, price) ==
  /\ active = NoOrder
  /\ price = o.price /\ quantity < o.quantity
  /\ resting' = (resting \ {o}) \cup {[o EXCEPT !.quantity = quantity]}
  /\ active' = o.orderId
  /\ trade' = NoTrade
  /\ UNCHANGED <<arrivals, lastOrderId>>

\* ... any other change sends it to the back ...
Replace(o, quantity, price, timestamp) ==
  /\ active = NoOrder
  /\ ~ (price = o.price /\ quantity < o.quantity)
  /\ resting' = (resting \ {o})
                  \cup {Place(o.orderId, o.side, price, quantity, timestamp)}
  /\ arrivals' = arrivals + 1
  /\ active' = o.orderId
  /\ trade' = NoTrade
  /\ UNCHANGED lastOrderId

\* ... and changing an order that is not there changes nothing.
AmendUnknown(id) ==
  /\ active = NoOrder
  /\ \A o \in resting : o.orderId # id
  /\ active' = id
  /\ trade' = NoTrade
  /\ UNCHANGED <<resting, arrivals, lastOrderId>>

\* No order of o's side goes before o.
First(o) ==
  \A q \in resting \ {o} :
    q.side = o.side =>
      \/ IF o.side = "BUY" THEN q.price < o.price ELSE o.price < q.price
      \/ q.price = o.price /\ o.node < q.node

\* What remains of an order that gave n.
Left(o, n) ==
  IF o.quantity = n THEN {} ELSE {[o EXCEPT !.quantity = @ - n]}

\* The first buyer and the first seller trade when their limits meet.
Execute ==
  /\ active # NoOrder
  /\ \E bid, ask \in resting :
       /\ bid.side = "BUY" /\ ask.side = "SELL"
       /\ First(bid) /\ First(ask)
       /\ bid.price >= ask.price
       /\ LET n == IF bid.quantity <= ask.quantity THEN bid.quantity
                                                   ELSE ask.quantity
          IN  /\ resting' = (resting \ {bid, ask}) \cup Left(bid, n) \cup Left(ask, n)
              /\ trade' = [bid |-> bid, ask |-> ask, quantity |-> n,
                           price |-> IF bid.timestamp <= ask.timestamp
                                     THEN bid.price ELSE ask.price]
  /\ UNCHANGED <<arrivals, lastOrderId, active>>

\* The command is done only when no buyer meets a seller.
Settle ==
  /\ active # NoOrder
  /\ \A bid, ask \in resting :
       bid.side = "BUY" /\ ask.side = "SELL" => bid.price < ask.price
  /\ active' = NoOrder
  /\ trade' = NoTrade
  /\ UNCHANGED <<resting, arrivals, lastOrderId>>

Amend(id, quantity, price, timestamp) ==
  \/ \E o \in resting : /\ o.orderId = id
                        /\ \/ Shrink(o, quantity, price)
                           \/ Replace(o, quantity, price, timestamp)
  \/ AmendUnknown(id)

Next ==
  \/ \E id \in OrderIds, side \in {"BUY", "SELL"}, price \in Prices,
        quantity \in Quantities, timestamp \in Timestamps :
       Submit(id, side, price, quantity, timestamp)
  \/ \E id \in OrderIds : Withdraw(id)
  \/ \E id \in OrderIds, price \in Prices, quantity \in Quantities,
        timestamp \in Timestamps : Amend(id, quantity, price, timestamp)
  \/ Execute
  \/ Settle

SafetySpec == Init /\ [][Next]_vars

Spec == SafetySpec /\ WF_vars(Execute \/ Settle)
=============================================================================
