-------------------------- MODULE OrderBookProofs --------------------------
(***************************************************************************)
(* The safety invariants and action properties of OrderBook.tla, and that  *)
(* it implements PriorityBook.tla, for every set of ids, prices,           *)
(* quantities and timestamps and for any number of orders.                 *)
(***************************************************************************)
EXTENDS OrderBook, BookLemmas, DataLemmas

(***************************************************************************)
(* The inductive invariant.  BookWellFormed alone is not inductive: an id  *)
(* inserted twice would break the index, so no id at or above the next one *)
(* may rest.  OnlyActiveCrosses needs the book to be uncrossed between     *)
(* commands, and TradesAtMakerPrice needs it during them.                  *)
(***************************************************************************)
MeetingOrders ==
  IF active = NoOrder THEN Uncrossed(book) ELSE MeetsOnly(book, active)

IdsAreUsed == \A id \in DOMAIN book.orderMap : id <= lastOrderId

IInv ==
  /\ TypeOK
  /\ WellFormed(book)
  /\ MeetingOrders
  /\ IdsAreUsed
  /\ TradesAtMakerPrice

-----------------------------------------------------------------------------
LEMMA InitEstablishes == Init => IInv
<1> SUFFICES ASSUME Init PROVE IInv
  OBVIOUS
<1>1. /\ book = EmptyBook /\ active = NoOrder /\ trade = NoTrade
      /\ lastOrderId = 0
  BY DEF Init
<1>2. IsBook(book) /\ WellFormed(book) /\ Uncrossed(book)
  BY <1>1, EmptyBookGood DEF Good
<1>3. TypeOK /\ MeetingOrders /\ TradesAtMakerPrice
  BY <1>1, <1>2 DEF TypeOK, MeetingOrders, TradesAtMakerPrice
<1>4. IdsAreUsed
  BY <1>1 DEF IdsAreUsed, EmptyBook
<1> QED
  BY <1>2, <1>3, <1>4 DEF IInv

(***************************************************************************)
(* One step for each action.                                               *)
(***************************************************************************)
LEMMA NewKeeps ==
  ASSUME IInv, NEW id \in OrderIds, NEW side \in Side, NEW price \in Prices,
         NEW quantity \in Quantities, NEW timestamp \in Timestamps,
         New(id, side, price, quantity, timestamp)
  PROVE  IInv'
<1>1. /\ active = NoOrder
      /\ id = lastOrderId + 1
      /\ book' = AddOrder(book, id, side, price, quantity, timestamp)
      /\ active' = id
      /\ lastOrderId' = id
      /\ trade' = NoTrade
  BY DEF New
<1>2. Good(book) /\ Uncrossed(book) /\ lastOrderId \in Nat
  BY <1>1 DEF IInv, Good, TypeOK, MeetingOrders
<1>3. id \in Nat \ {0} /\ quantity \in Int
  BY BookAssumption, OrderBookAssumption
<1>4. id \notin DOMAIN book.orderMap
  BY <1>1, <1>2, <1>3 DEF IInv, IdsAreUsed
<1>5. /\ Good(book')
      /\ MeetsOnly(book', id)
      /\ DOMAIN book'.orderMap = DOMAIN book.orderMap \cup {id}
  BY <1>1, <1>2, <1>3, <1>4, AddOrderKeeps
<1>6. TypeOK' /\ WellFormed(book)' /\ TradesAtMakerPrice'
  BY <1>1, <1>3, <1>5 DEF Good, TypeOK, TradesAtMakerPrice
<1>7. MeetingOrders'
  BY <1>1, <1>3, <1>5 DEF MeetingOrders, NoOrder
<1>8. IdsAreUsed'
  <2> SUFFICES ASSUME NEW x \in DOMAIN book'.orderMap
               PROVE  x <= lastOrderId'
    BY DEF IdsAreUsed
  <2>1. CASE x = id
    BY <1>1, <1>3, <2>1
  <2>2. CASE x \in DOMAIN book.orderMap
    <3>1. x \in Nat /\ x <= lastOrderId
      BY <1>2, <2>2, BookAssumption DEF IInv, IdsAreUsed, Good, IsBook, IsMap
    <3> QED
      BY <1>1, <1>2, <3>1
  <2> QED
    BY <1>5, <2>1, <2>2
<1> QED
  BY <1>6, <1>7, <1>8 DEF IInv

LEMMA CancelKeeps ==
  ASSUME IInv, NEW id \in OrderIds, Cancel(id)
  PROVE  IInv'
<1>1. /\ active = NoOrder
      /\ book' = CancelOrder(book, id)
      /\ trade' = NoTrade
      /\ active' = active /\ lastOrderId' = lastOrderId
  BY DEF Cancel
<1>2. Good(book) /\ Uncrossed(book)
  BY <1>1 DEF IInv, Good, TypeOK, MeetingOrders
<1>3. /\ Good(book')
      /\ Uncrossed(book')
      /\ DOMAIN book'.orderMap \subseteq DOMAIN book.orderMap
  BY <1>1, <1>2, CancelOrderKeeps
<1>4. TypeOK' /\ WellFormed(book)' /\ TradesAtMakerPrice' /\ MeetingOrders'
  BY <1>1, <1>3 DEF IInv, Good, TypeOK, TradesAtMakerPrice, MeetingOrders
<1>5. IdsAreUsed'
  BY <1>1, <1>3 DEF IInv, IdsAreUsed
<1> QED
  BY <1>4, <1>5 DEF IInv

LEMMA ModifyKeeps ==
  ASSUME IInv, NEW id \in OrderIds, NEW price \in Prices,
         NEW quantity \in Quantities, NEW timestamp \in Timestamps,
         Modify(id, quantity, price, timestamp)
  PROVE  IInv'
<1>1. /\ active = NoOrder
      /\ book' = ModifyOrder(book, id, quantity, price, timestamp)
      /\ active' = id
      /\ trade' = NoTrade
      /\ lastOrderId' = lastOrderId
  BY DEF Modify
<1>2. Good(book) /\ Uncrossed(book)
  BY <1>1 DEF IInv, Good, TypeOK, MeetingOrders
<1>3. id \in Nat \ {0} /\ quantity \in Int
  BY BookAssumption, OrderBookAssumption
<1>4. /\ Good(book')
      /\ MeetsOnly(book', id)
      /\ DOMAIN book'.orderMap = DOMAIN book.orderMap
  BY <1>1, <1>2, <1>3, ModifyOrderKeeps
<1>5. TypeOK' /\ WellFormed(book)' /\ TradesAtMakerPrice'
  BY <1>1, <1>4 DEF IInv, Good, TypeOK, TradesAtMakerPrice
<1>6. MeetingOrders'
  BY <1>1, <1>3, <1>4 DEF MeetingOrders, NoOrder
<1>7. IdsAreUsed'
  BY <1>1, <1>4 DEF IInv, IdsAreUsed
<1> QED
  BY <1>5, <1>6, <1>7 DEF IInv

LEMMA MatchFillKeeps ==
  ASSUME IInv, MatchFill
  PROVE  IInv'
<1>1. PICK bp \in DOMAIN book.levels["BUY"], ap \in DOMAIN book.levels["SELL"] :
        /\ Crosses(book, bp, ap)
        /\ trade' = [bid |-> Head(book.levels["BUY"][bp]),
                     ask |-> Head(book.levels["SELL"][ap]),
                     quantity |-> TradeQuantity(Head(book.levels["BUY"][bp]),
                                                Head(book.levels["SELL"][ap])),
                     price |-> TradePrice(Head(book.levels["BUY"][bp]),
                                          Head(book.levels["SELL"][ap]))]
        /\ book' = Fill(book, bp, ap)
  BY DEF MatchFill
<1> DEFINE bid == Head(book.levels["BUY"][bp])
           ask == Head(book.levels["SELL"][ap])
<1>2. active # NoOrder /\ active' = active /\ lastOrderId' = lastOrderId
  BY DEF MatchFill
<1>3. Good(book) /\ MeetsOnly(book, active)
  BY <1>2 DEF IInv, Good, TypeOK, MeetingOrders
<1>4. /\ Good(book')
      /\ Shrunk(book', book)
      /\ DOMAIN book'.orderMap \subseteq DOMAIN book.orderMap
  BY <1>1, <1>3, FillKeeps
<1>5. /\ bid \in Order /\ ask \in Order
      /\ bid.side = "BUY" /\ ask.side = "SELL"
      /\ active \in {bid.orderId, ask.orderId}
  BY <1>1, <1>3, FrontsOfCrossed
<1>6. trade' = [bid |-> bid, ask |-> ask, quantity |-> TradeQuantity(bid, ask),
                price |-> TradePrice(bid, ask)]
  BY <1>1
<1> HIDE DEF bid, ask
<1>7. trade' \in [bid : Order, ask : Order, quantity : Int, price : Prices]
  BY <1>5, <1>6 DEF TradeQuantity, TradePrice, Order
<1>8. TypeOK' /\ WellFormed(book)'
  BY <1>2, <1>4, <1>7 DEF IInv, Good, TypeOK
<1>9. MeetingOrders'
  BY <1>2, <1>3, <1>4, ShrunkMeetsOnly DEF MeetingOrders
<1>10. IdsAreUsed'
  BY <1>2, <1>4 DEF IInv, IdsAreUsed
<1>11. TradesAtMakerPrice'
  <2>1. /\ trade'.bid = bid /\ trade'.ask = ask /\ bid # ask
        /\ trade'.price = TradePrice(bid, ask)
    BY <1>5, <1>6
  <2>2. bid.timestamp \in Int /\ ask.timestamp \in Int
    BY <1>5, BookAssumption DEF Order
  <2>3. CASE active = ask.orderId
    <3>1. bid.timestamp < ask.timestamp => trade'.price = bid.price
      BY <2>1, <2>2 DEF TradePrice
    <3> QED
      BY <1>2, <2>1, <2>3, <3>1 DEF TradesAtMakerPrice
  <2>4. CASE active = bid.orderId
    <3>1. ask.timestamp < bid.timestamp => trade'.price = ask.price
      BY <2>1, <2>2 DEF TradePrice
    <3> QED
      BY <1>2, <2>1, <2>4, <3>1 DEF TradesAtMakerPrice
  <2> QED
    BY <1>5, <2>3, <2>4
<1> QED
  BY <1>8, <1>9, <1>10, <1>11 DEF IInv

LEMMA MatchDoneKeeps ==
  ASSUME IInv, MatchDone
  PROVE  IInv'
<1>1. /\ Uncrossed(book) /\ book' = book /\ active' = NoOrder
      /\ trade' = NoTrade /\ lastOrderId' = lastOrderId
  BY DEF MatchDone
<1> QED
  BY <1>1 DEF IInv, TypeOK, MeetingOrders, IdsAreUsed, TradesAtMakerPrice

LEMMA StutterKeeps ==
  ASSUME IInv, UNCHANGED vars
  PROVE  IInv'
  BY DEF IInv, TypeOK, MeetingOrders, IdsAreUsed, TradesAtMakerPrice, vars

LEMMA Inductive == IInv /\ [Next]_vars => IInv'
<1> SUFFICES ASSUME IInv, [Next]_vars
             PROVE  IInv'
  OBVIOUS
<1>1. ASSUME NEW id \in OrderIds, NEW side \in Side, NEW price \in Prices,
             NEW quantity \in Quantities, NEW timestamp \in Timestamps,
             New(id, side, price, quantity, timestamp)
      PROVE  IInv'
  BY <1>1, NewKeeps
<1>2. ASSUME NEW id \in OrderIds, Cancel(id)
      PROVE  IInv'
  BY <1>2, CancelKeeps
<1>3. ASSUME NEW id \in OrderIds, NEW price \in Prices,
             NEW quantity \in Quantities, NEW timestamp \in Timestamps,
             Modify(id, quantity, price, timestamp)
      PROVE  IInv'
  BY <1>3, ModifyKeeps
<1>4. CASE MatchFill
  BY <1>4, MatchFillKeeps
<1>5. CASE MatchDone
  BY <1>5, MatchDoneKeeps
<1>6. CASE UNCHANGED vars
  BY <1>6, StutterKeeps
<1> QED
  BY <1>1, <1>2, <1>3, <1>4, <1>5, <1>6 DEF Next

LEMMA AlwaysIInv == Spec => []IInv
  BY InitEstablishes, Inductive, PTL DEF Spec

-----------------------------------------------------------------------------
(***************************************************************************)
(* The members of a book keep their types.                                 *)
(***************************************************************************)
THEOREM BookTypeCorrect == Spec => []TypeOK
<1>1. IInv => TypeOK
  BY DEF IInv
<1> QED
  BY <1>1, AlwaysIInv, PTL

(***************************************************************************)
(* After every operation the levels, the queues and the order map agree:   *)
(* no stored iterator dangles, no level is empty, every queue is in the    *)
(* order of arrival.                                                       *)
(***************************************************************************)
THEOREM BookAlwaysWellFormed == Spec => []BookWellFormed
<1>1. IInv => BookWellFormed
  BY DEF IInv, BookWellFormed
<1> QED
  BY <1>1, AlwaysIInv, PTL

(***************************************************************************)
(* Two resting orders never trade with each other, and between commands    *)
(* the book is uncrossed.                                                  *)
(***************************************************************************)
THEOREM OnlyActiveEverCrosses == Spec => []OnlyActiveCrosses
<1>1. IInv => OnlyActiveCrosses
  <2> SUFFICES ASSUME IInv,
                      NEW bid \in OrdersOn(book, "BUY"),
                      NEW ask \in OrdersOn(book, "SELL"),
                      bid.price >= ask.price
               PROVE  active \in {bid.orderId, ask.orderId}
    BY DEF OnlyActiveCrosses
  <2>1. Good(book) /\ IsBook(book)
    BY DEF IInv, Good, TypeOK
  <2>2. PICK p, i : HasSlot(book, "BUY", p, i) /\ At(book, "BUY", p, i) = bid
    BY DEF OrdersOn, Range, HasSlot, At, Side
  <2>3. PICK r, j : HasSlot(book, "SELL", r, j) /\ At(book, "SELL", r, j) = ask
    BY DEF OrdersOn, Range, HasSlot, At, Side
  <2>4. bid.price = p /\ ask.price = r
    BY <2>1, <2>2, <2>3, WellFormedSlots DEF Good, SlotsAreRight
  <2>5. MeetsOnly(book, active)
    BY <2>1, UncrossedMeetsOnly DEF IInv, MeetingOrders
  <2> QED
    BY <2>2, <2>3, <2>4, <2>5 DEF MeetsOnly
<1> QED
  BY <1>1, AlwaysIInv, PTL

(***************************************************************************)
(* A trade is between the order being matched and one that was resting,    *)
(* at the latter's price if its timestamp is the earlier.                  *)
(***************************************************************************)
THEOREM TradesAlwaysAtMakerPrice == Spec => []TradesAtMakerPrice
<1>1. IInv => TradesAtMakerPrice
  BY DEF IInv
<1> QED
  BY <1>1, AlwaysIInv, PTL

-----------------------------------------------------------------------------
(* The refinement of PriorityBook: one lemma for each action. *)

LEMMA BookIsGood ==
  ASSUME IInv
  PROVE  Good(book) /\ (active = NoOrder => Uncrossed(book))
  BY DEF IInv, Good, TypeOK, MeetingOrders

LEMMA InitRefines == Init => Abstract!Init
<1> SUFFICES ASSUME Init PROVE Abstract!Init
  OBVIOUS
<1>1. book = EmptyBook
  BY DEF Init
<1>2. \A s \in Side : EmptyBook.levels[s] = <<>>
  BY DEF EmptyBook
<1>3. Resting(EmptyBook) = {} /\ EmptyBook.nodes = 0
  BY <1>2 DEF Resting, OrdersOn, Side, EmptyBook
<1> QED
  BY <1>1, <1>3 DEF Init, Abstract!Init

LEMMA NewRefines ==
  ASSUME IInv, NEW id \in OrderIds, NEW side \in Side, NEW price \in Prices,
         NEW quantity \in Quantities, NEW timestamp \in Timestamps,
         New(id, side, price, quantity, timestamp)
  PROVE  Abstract!Submit(id, side, price, quantity, timestamp)
<1>1. /\ active = NoOrder
      /\ id = lastOrderId + 1
      /\ book' = AddOrder(book, id, side, price, quantity, timestamp)
      /\ active' = id /\ lastOrderId' = id /\ trade' = NoTrade
  BY DEF New
<1>2. IsBook(book) /\ quantity \in Int
  BY BookIsGood, OrderBookAssumption DEF Good
<1>3. Resting(book') =
        Resting(book) \cup {NewOrder(book, id, side, price, quantity, timestamp)}
  BY <1>1, <1>2, AddOrderResting
<1>4. book'.nodes = book.nodes + 1
  BY <1>1 DEF AddOrder, InsertOrder
<1>5. NewOrder(book, id, side, price, quantity, timestamp) =
        Abstract!Place(id, side, price, quantity, timestamp)
  BY DEF NewOrder, Abstract!Place
<1> QED
  BY <1>1, <1>3, <1>4, <1>5 DEF Abstract!Submit

LEMMA CancelRefines ==
  ASSUME IInv, NEW id \in OrderIds, Cancel(id)
  PROVE  Abstract!Withdraw(id)
<1>1. /\ active = NoOrder
      /\ book' = CancelOrder(book, id)
      /\ trade' = NoTrade
      /\ active' = active /\ lastOrderId' = lastOrderId
  BY DEF Cancel
<1>2. /\ Resting(book') = {o \in Resting(book) : o.orderId # id}
      /\ book'.nodes = book.nodes
  BY <1>1, BookIsGood, CancelOrderResting, CancelOrderKeeps
<1> QED
  BY <1>1, <1>2 DEF Abstract!Withdraw

LEMMA ModifyRefines ==
  ASSUME IInv, NEW id \in OrderIds, NEW price \in Prices,
         NEW quantity \in Quantities, NEW timestamp \in Timestamps,
         Modify(id, quantity, price, timestamp)
  PROVE  Abstract!Amend(id, quantity, price, timestamp)
<1>1. /\ active = NoOrder
      /\ book' = ModifyOrder(book, id, quantity, price, timestamp)
      /\ active' = id /\ trade' = NoTrade /\ lastOrderId' = lastOrderId
  BY DEF Modify
<1>2. Good(book) /\ quantity \in Int
  BY BookIsGood, OrderBookAssumption
<1>3. \/ /\ \A o \in Resting(book) : o.orderId # id
         /\ Resting(book') = Resting(book) /\ book'.nodes = book.nodes
      \/ \E o \in Resting(book) :
           /\ o.orderId = id /\ KeepsPriority(o, quantity, price)
           /\ Resting(book') =
                (Resting(book) \ {o}) \cup {[o EXCEPT !.quantity = quantity]}
           /\ book'.nodes = book.nodes
      \/ \E o \in Resting(book) :
           /\ o.orderId = id /\ ~ KeepsPriority(o, quantity, price)
           /\ Resting(book') = (Resting(book) \ {o}) \cup
                {NewOrder(book, id, o.side, price, quantity, timestamp)}
           /\ book'.nodes = book.nodes + 1
  BY <1>1, <1>2, ModifyOrderResting
<1>4. CASE /\ \A o \in Resting(book) : o.orderId # id
           /\ Resting(book') = Resting(book) /\ book'.nodes = book.nodes
  BY <1>1, <1>4 DEF Abstract!Amend, Abstract!AmendUnknown
<1>5. ASSUME NEW o \in Resting(book),
             o.orderId = id, KeepsPriority(o, quantity, price),
             Resting(book') =
               (Resting(book) \ {o}) \cup {[o EXCEPT !.quantity = quantity]},
             book'.nodes = book.nodes
      PROVE  Abstract!Amend(id, quantity, price, timestamp)
  <2>1. Abstract!Shrink(o, quantity, price)
    BY <1>1, <1>5 DEF Abstract!Shrink, KeepsPriority
  <2> QED
    BY <1>5, <2>1 DEF Abstract!Amend
<1>6. ASSUME NEW o \in Resting(book),
             o.orderId = id, ~ KeepsPriority(o, quantity, price),
             Resting(book') = (Resting(book) \ {o}) \cup
               {NewOrder(book, id, o.side, price, quantity, timestamp)},
             book'.nodes = book.nodes + 1
      PROVE  Abstract!Amend(id, quantity, price, timestamp)
  <2>1. NewOrder(book, id, o.side, price, quantity, timestamp) =
          Abstract!Place(o.orderId, o.side, price, quantity, timestamp)
    BY <1>6 DEF NewOrder, Abstract!Place
  <2>2. Abstract!Replace(o, quantity, price, timestamp)
    BY <1>1, <1>6, <2>1 DEF Abstract!Replace, KeepsPriority
  <2> QED
    BY <1>6, <2>2 DEF Abstract!Amend
<1> QED
  BY <1>3, <1>4, <1>5, <1>6

\* Who trades in an iteration of the loop, and what is left of them.
LEMMA FillFacts ==
  ASSUME IInv, MatchFill
  PROVE  \E bid, ask \in Resting(book) :
           /\ bid.side = "BUY" /\ ask.side = "SELL" /\ bid.price >= ask.price
           /\ Abstract!First(bid) /\ Abstract!First(ask)
           /\ trade' = [bid |-> bid, ask |-> ask,
                        quantity |-> TradeQuantity(bid, ask),
                        price |-> TradePrice(bid, ask)]
           /\ Resting(book') = (Resting(book) \ {bid, ask})
                                 \cup Leftover(bid, TradeQuantity(bid, ask))
                                 \cup Leftover(ask, TradeQuantity(bid, ask))
           /\ book'.nodes = book.nodes
           /\ book'.stats.totalVolume =
                (book.stats.totalVolume + TradeQuantity(bid, ask)) % VolumeModulus
<1>1. PICK bp \in DOMAIN book.levels["BUY"], ap \in DOMAIN book.levels["SELL"] :
        /\ Crosses(book, bp, ap)
        /\ trade' = [bid |-> Head(book.levels["BUY"][bp]),
                     ask |-> Head(book.levels["SELL"][ap]),
                     quantity |-> TradeQuantity(Head(book.levels["BUY"][bp]),
                                                Head(book.levels["SELL"][ap])),
                     price |-> TradePrice(Head(book.levels["BUY"][bp]),
                                          Head(book.levels["SELL"][ap]))]
        /\ book' = Fill(book, bp, ap)
  BY DEF MatchFill
<1> DEFINE bid == Head(book.levels["BUY"][bp])
           ask == Head(book.levels["SELL"][ap])
<1>2. Good(book) /\ "BUY" \in Side /\ "SELL" \in Side
  BY BookIsGood DEF Side
<1>3. /\ bid \in Resting(book) /\ bid.side = "BUY" /\ bid.price = bp
      /\ ask \in Resting(book) /\ ask.side = "SELL" /\ ask.price = ap
  BY <1>2, FrontRests
<1>4. /\ IsBest(book, "BUY", bp) /\ IsBest(book, "SELL", ap) /\ bp >= ap
  BY <1>1 DEF Crosses
<1>5. /\ \A q \in Resting(book) \ {bid} : q.side = "BUY" =>
           q.price < bp \/ (q.price = bp /\ bid.node < q.node)
      /\ \A q \in Resting(book) \ {ask} : q.side = "SELL" =>
           ap < q.price \/ (q.price = ap /\ ask.node < q.node)
  BY <1>2, <1>4, FrontIsFirst
<1>6. /\ Resting(book') = (Resting(book) \ {bid, ask})
                            \cup Leftover(bid, TradeQuantity(bid, ask))
                            \cup Leftover(ask, TradeQuantity(bid, ask))
      /\ book'.nodes = book.nodes
      /\ book'.stats.totalVolume =
           (book.stats.totalVolume + TradeQuantity(bid, ask)) % VolumeModulus
  BY <1>1, <1>2, FillResting, FillKeeps
<1>7. trade' = [bid |-> bid, ask |-> ask, quantity |-> TradeQuantity(bid, ask),
                price |-> TradePrice(bid, ask)]
  BY <1>1
<1> HIDE DEF bid, ask
<1>8. Abstract!First(bid) /\ Abstract!First(ask)
  BY <1>3, <1>5 DEF Abstract!First
<1> QED
  BY <1>3, <1>4, <1>6, <1>7, <1>8

LEMMA MatchFillRefines ==
  ASSUME IInv, MatchFill
  PROVE  Abstract!Execute
<1>1. PICK bid \in Resting(book), ask \in Resting(book) :
        /\ bid.side = "BUY" /\ ask.side = "SELL" /\ bid.price >= ask.price
        /\ Abstract!First(bid) /\ Abstract!First(ask)
        /\ trade' = [bid |-> bid, ask |-> ask,
                     quantity |-> TradeQuantity(bid, ask),
                     price |-> TradePrice(bid, ask)]
        /\ Resting(book') = (Resting(book) \ {bid, ask})
                              \cup Leftover(bid, TradeQuantity(bid, ask))
                              \cup Leftover(ask, TradeQuantity(bid, ask))
        /\ book'.nodes = book.nodes
  BY FillFacts
<1>2. active # NoOrder /\ active' = active /\ lastOrderId' = lastOrderId
  BY DEF MatchFill
<1>3. \A o, n : Leftover(o, n) = Abstract!Left(o, n)
  BY DEF Leftover, Abstract!Left
<1> QED
  BY <1>1, <1>2, <1>3 DEF Abstract!Execute, TradeQuantity, TradePrice

LEMMA MatchDoneRefines ==
  ASSUME IInv, MatchDone
  PROVE  Abstract!Settle
<1>1. /\ active # NoOrder /\ Uncrossed(book) /\ book' = book
      /\ active' = NoOrder /\ trade' = NoTrade /\ lastOrderId' = lastOrderId
  BY DEF MatchDone
<1> QED
  BY <1>1, BookIsGood, UncrossedResting DEF Abstract!Settle

LEMMA StepRefines ==
  ASSUME IInv, [Next]_vars
  PROVE  [Abstract!Next]_(Abstract!vars)
<1>1. ASSUME NEW id \in OrderIds, NEW side \in Side, NEW price \in Prices,
             NEW quantity \in Quantities, NEW timestamp \in Timestamps,
             New(id, side, price, quantity, timestamp)
      PROVE  Abstract!Next
  BY <1>1, NewRefines DEF Abstract!Next, Side
<1>2. ASSUME NEW id \in OrderIds, Cancel(id)
      PROVE  Abstract!Next
  BY <1>2, CancelRefines DEF Abstract!Next
<1>3. ASSUME NEW id \in OrderIds, NEW price \in Prices,
             NEW quantity \in Quantities, NEW timestamp \in Timestamps,
             Modify(id, quantity, price, timestamp)
      PROVE  Abstract!Next
  BY <1>3, ModifyRefines DEF Abstract!Next
<1>4. CASE MatchFill
  BY <1>4, MatchFillRefines DEF Abstract!Next
<1>5. CASE MatchDone
  BY <1>5, MatchDoneRefines DEF Abstract!Next
<1>6. CASE UNCHANGED vars
  BY <1>6 DEF vars, Abstract!vars
<1> QED
  BY <1>1, <1>2, <1>3, <1>4, <1>5, <1>6 DEF Next

(***************************************************************************)
(* The lists, maps and iterators implement price-time priority: the safety *)
(* part of ImplementsPriority.  Every trade is between the first buyer and *)
(* the first seller, by price and then by place; a command is done only    *)
(* when no buyer meets a seller; a modify gives up its place exactly in    *)
(* the cases of the modify table.                                          *)
(***************************************************************************)
THEOREM BookKeepsPriority == Spec => Abstract!SafetySpec
<1>1. IInv /\ [Next]_vars => [Abstract!Next]_(Abstract!vars)
  BY StepRefines
<1> QED
  BY <1>1, InitRefines, AlwaysIInv, PTL DEF Spec, Abstract!SafetySpec

-----------------------------------------------------------------------------
(* What a step does to the orders: none of them gains a place but by its   *)
(* own modify, and a trade finishes one at least.                          *)

\* The orders that were in the book and still are keep their side, price and
\* place: every order of the new book comes from one of the same id.
Stays ==
  \A n \in Resting(book') : \E o \in Resting(book) :
    /\ o.orderId = n.orderId /\ o.side = n.side
    /\ o.price = n.price /\ o.node = n.node

\* One order is new, or has been sent to the back of its queue.
SentToBack(id, price, quantity) ==
  \A n \in Resting(book') :
    IF n.orderId = id
    THEN n.node = book.nodes /\ n.price = price /\ n.quantity = quantity
    ELSE \E o \in Resting(book) :
           /\ o.orderId = n.orderId /\ o.side = n.side
           /\ o.price = n.price /\ o.node = n.node

LEMMA AheadOrders ==
  ASSUME NEW b, Good(b), NEW x, NEW y, Ahead(b, x, y)
  PROVE  \E o, q \in Resting(b) :
           /\ o.orderId = x /\ q.orderId = y
           /\ o.side = q.side /\ o.price = q.price /\ o.node < q.node
<1>1. SlotsAreRight(b) /\ SlotsAreOrdered(b)
  BY WellFormedSlots DEF Good
<1>2. PICK s \in Side : \E p \in DOMAIN b.levels[s] :
        \E i, j \in DOMAIN b.levels[s][p] :
          /\ i < j
          /\ b.levels[s][p][i].orderId = x /\ b.levels[s][p][j].orderId = y
  BY DEF Ahead
<1>3. PICK p \in DOMAIN b.levels[s] :
        \E i, j \in DOMAIN b.levels[s][p] :
          /\ i < j
          /\ b.levels[s][p][i].orderId = x /\ b.levels[s][p][j].orderId = y
  BY <1>2
<1>4. PICK i \in DOMAIN b.levels[s][p], j \in DOMAIN b.levels[s][p] :
        /\ i < j
        /\ b.levels[s][p][i].orderId = x /\ b.levels[s][p][j].orderId = y
  BY <1>3
<1>5. /\ HasSlot(b, s, p, i) /\ At(b, s, p, i).orderId = x
      /\ HasSlot(b, s, p, j) /\ At(b, s, p, j).orderId = y
  BY <1>4 DEF HasSlot, At
<1>6. /\ At(b, s, p, i).side = s /\ At(b, s, p, i).price = p
      /\ At(b, s, p, j).side = s /\ At(b, s, p, j).price = p
      /\ At(b, s, p, i).node < At(b, s, p, j).node
  BY <1>1, <1>4, <1>5 DEF SlotsAreRight, SlotsAreOrdered
<1>7. At(b, s, p, i) \in Resting(b) /\ At(b, s, p, j) \in Resting(b)
  BY <1>5, RestingSlots
<1> QED
  BY <1>5, <1>6, <1>7

\* Orders that stay where they are do not change places.
LEMMA StayingKeepsOrder ==
  ASSUME Good(book), Good(book'), Stays, NEW x, NEW y, Ahead(book, x, y)
  PROVE  ~ Ahead(book', y, x)
<1> SUFFICES ASSUME Ahead(book', y, x)  PROVE FALSE
  OBVIOUS
<1>1. PICK o \in Resting(book), q \in Resting(book) :
        o.orderId = x /\ q.orderId = y /\ o.node < q.node
  BY AheadOrders
<1>2. PICK m \in Resting(book'), n \in Resting(book') :
        m.orderId = y /\ n.orderId = x /\ m.node < n.node
  BY AheadOrders
<1>3. m.node = q.node /\ n.node = o.node
  BY <1>1, <1>2, RestingFacts DEF Stays
<1>4. o.node \in Nat /\ q.node \in Nat
  BY RestingFacts DEF Order
<1> QED
  BY <1>1, <1>2, <1>3, <1>4

LEMMA SentToBackOrder ==
  ASSUME Good(book), Good(book'),
         book'.nodes = book.nodes + 1, NEW id, NEW price, NEW quantity,
         SentToBack(id, price, quantity),
         NEW x, NEW y, Ahead(book, x, y), Ahead(book', y, x)
  PROVE  /\ x = id
         /\ \E o \in Resting(book) : o.orderId = id /\ o.price = price
         /\ \E n \in Resting(book') : n.orderId = id /\ n.quantity = quantity
<1>1. PICK o \in Resting(book), q \in Resting(book) :
        /\ o.orderId = x /\ q.orderId = y
        /\ o.price = q.price /\ o.node < q.node
  BY AheadOrders
<1>2. PICK m \in Resting(book'), n \in Resting(book') :
        /\ m.orderId = y /\ n.orderId = x
        /\ m.price = n.price /\ m.node < n.node
  BY AheadOrders
<1>3. /\ o.node \in Nat /\ q.node \in Nat /\ m.node \in Nat /\ n.node \in Nat
      /\ q.node < book.nodes /\ o.node < book.nodes /\ book.nodes \in Nat
      /\ n.node < book.nodes + 1
  BY RestingFacts DEF Order, Good, IsBook
<1>4. y # id
  BY <1>2, <1>3 DEF SentToBack
<1>5. m.node = q.node /\ m.price = q.price
  BY <1>1, <1>2, <1>4, RestingFacts DEF SentToBack
<1>6. x = id
  <2> SUFFICES ASSUME x # id PROVE FALSE
    OBVIOUS
  <2>1. n.node = o.node
    BY <1>1, <1>2, RestingFacts DEF SentToBack
  <2> QED
    BY <1>1, <1>2, <1>3, <1>5, <2>1
<1>7. n.price = price /\ n.quantity = quantity
  BY <1>2, <1>6 DEF SentToBack
<1> QED
  BY <1>1, <1>2, <1>5, <1>6, <1>7

\* A new order is ahead of none of those there were.
LEMMA NewOrderEffect ==
  ASSUME IInv, NEW id \in OrderIds, NEW side \in Side, NEW price \in Prices,
         NEW quantity \in Quantities, NEW timestamp \in Timestamps,
         New(id, side, price, quantity, timestamp)
  PROVE  /\ SentToBack(id, price, quantity)
         /\ \A o \in Resting(book) : o.orderId # id
         /\ book'.nodes = book.nodes + 1
<1>1. /\ id = lastOrderId + 1
      /\ book' = AddOrder(book, id, side, price, quantity, timestamp)
  BY DEF New
<1>2. Good(book) /\ quantity \in Int
  BY BookIsGood, OrderBookAssumption
<1>3. Resting(book') =
        Resting(book) \cup {NewOrder(book, id, side, price, quantity, timestamp)}
  BY <1>1, <1>2, AddOrderResting DEF Good
<1>4. book'.nodes = book.nodes + 1
  BY <1>1 DEF AddOrder, InsertOrder
<1>5. \A o \in Resting(book) : o.orderId # id
  <2>1. \A o \in Resting(book) : o.orderId <= lastOrderId
    BY <1>2, RestingFacts DEF IInv, IdsAreUsed
  <2>2. lastOrderId \in Nat
    BY DEF IInv, TypeOK
  <2> QED
    BY <1>1, <2>1, <2>2
<1> QED
  BY <1>3, <1>4, <1>5 DEF SentToBack, NewOrder

LEMMA CancelEffect ==
  ASSUME IInv, NEW id \in OrderIds, Cancel(id)
  PROVE  Stays
<1>1. Resting(book') = {o \in Resting(book) : o.orderId # id}
  BY BookIsGood, CancelOrderResting DEF Cancel
<1> QED
  BY <1>1 DEF Stays

\* A modify leaves all in place, or sends one order that does not shrink at
\* its price to the back.
LEMMA ModifyEffect ==
  ASSUME IInv, NEW id \in OrderIds, NEW price \in Prices,
         NEW quantity \in Quantities, NEW timestamp \in Timestamps,
         Modify(id, quantity, price, timestamp)
  PROVE  \/ Stays
         \/ /\ SentToBack(id, price, quantity)
            /\ \A o \in Resting(book) :
                 o.orderId = id => ~ KeepsPriority(o, quantity, price)
            /\ book'.nodes = book.nodes + 1
<1>1. /\ book' = ModifyOrder(book, id, quantity, price, timestamp)
      /\ Good(book) /\ quantity \in Int
  BY BookIsGood, OrderBookAssumption DEF Modify
<1>2. \A o \in Resting(book) : o \in Order
  BY <1>1, RestingFacts
<1>3. \/ Resting(book') = Resting(book)
      \/ \E o \in Resting(book) :
           Resting(book') =
             (Resting(book) \ {o}) \cup {[o EXCEPT !.quantity = quantity]}
      \/ \E o \in Resting(book) :
           /\ o.orderId = id /\ ~ KeepsPriority(o, quantity, price)
           /\ Resting(book') = (Resting(book) \ {o}) \cup
                {NewOrder(book, id, o.side, price, quantity, timestamp)}
           /\ book'.nodes = book.nodes + 1
  BY <1>1, ModifyOrderResting
<1>4. CASE Resting(book') = Resting(book)
  BY <1>4 DEF Stays
<1>5. ASSUME NEW o \in Resting(book),
             Resting(book') =
               (Resting(book) \ {o}) \cup {[o EXCEPT !.quantity = quantity]}
      PROVE  Stays
  BY <1>2, <1>5 DEF Stays, Order
<1>6. ASSUME NEW o \in Resting(book),
             o.orderId = id, ~ KeepsPriority(o, quantity, price),
             Resting(book') = (Resting(book) \ {o}) \cup
               {NewOrder(book, id, o.side, price, quantity, timestamp)},
             book'.nodes = book.nodes + 1
      PROVE  /\ SentToBack(id, price, quantity)
             /\ \A q \in Resting(book) :
                  q.orderId = id => ~ KeepsPriority(q, quantity, price)
  <2>1. \A q \in Resting(book) : q.orderId = id => q = o
    BY <1>1, <1>6, RestingFacts
  <2> QED
    BY <1>6, <2>1 DEF SentToBack, NewOrder
<1> QED
  BY <1>3, <1>4, <1>5, <1>6

LEMMA MatchFillEffect ==
  ASSUME IInv, MatchFill
  PROVE  Stays
<1>1. PICK bid \in Resting(book), ask \in Resting(book) :
        Resting(book') = (Resting(book) \ {bid, ask})
                           \cup Leftover(bid, TradeQuantity(bid, ask))
                           \cup Leftover(ask, TradeQuantity(bid, ask))
  BY FillFacts
<1>2. bid \in Order /\ ask \in Order
  BY BookIsGood, RestingFacts
<1>3. \A o \in {bid, ask} : \A k : \A n \in Leftover(o, k) :
        /\ n.orderId = o.orderId /\ n.side = o.side
        /\ n.price = o.price /\ n.node = o.node
  BY <1>2 DEF Leftover, Order
<1> QED
  BY <1>1, <1>3 DEF Stays

LEMMA QuantityOfOrder ==
  ASSUME NEW b, Good(b), NEW o \in Resting(b)
  PROVE  QuantityOf(b, o.orderId) = o.quantity
<1>1. (CHOOSE q \in Resting(b) : q.orderId = o.orderId) = o
  BY RestingFacts
<1> QED
  BY <1>1 DEF QuantityOf

(***************************************************************************)
(* Time priority is lost only by a modify of one's own that does not       *)
(* shrink the order at its price.                                          *)
(***************************************************************************)
OrderKept ==
  \A x, y \in OrderIds :
    Ahead(book, x, y) /\ Ahead(book', y, x) =>
      active' = x /\ QuantityOf(book', x) >= QuantityOf(book, x)

LEMMA StepKeepsOrder ==
  ASSUME IInv, IInv', [Next]_vars
  PROVE  OrderKept
<1>1. Good(book) /\ Good(book')
  <2>1. IInv' => Good(book')
    BY DEF IInv, Good, TypeOK
  <2> QED
    BY BookIsGood, <2>1
<1>2. ASSUME Stays  PROVE OrderKept
  BY <1>1, <1>2, StayingKeepsOrder DEF OrderKept
<1>3. ASSUME NEW id \in OrderIds, NEW side \in Side, NEW price \in Prices,
             NEW quantity \in Quantities, NEW timestamp \in Timestamps,
             New(id, side, price, quantity, timestamp)
      PROVE  OrderKept
  BY <1>1, <1>3, NewOrderEffect, SentToBackOrder DEF OrderKept
<1>4. ASSUME NEW id \in OrderIds, Cancel(id)
      PROVE  OrderKept
  BY <1>2, <1>4, CancelEffect
<1>5. ASSUME NEW id \in OrderIds, NEW price \in Prices,
             NEW quantity \in Quantities, NEW timestamp \in Timestamps,
             Modify(id, quantity, price, timestamp)
      PROVE  OrderKept
  <2>1. CASE Stays
    BY <1>2, <2>1
  <2>2. CASE /\ SentToBack(id, price, quantity)
             /\ \A o \in Resting(book) :
                  o.orderId = id => ~ KeepsPriority(o, quantity, price)
             /\ book'.nodes = book.nodes + 1
    <3> SUFFICES ASSUME NEW x \in OrderIds, NEW y \in OrderIds,
                        Ahead(book, x, y), Ahead(book', y, x)
                 PROVE  /\ active' = x
                        /\ QuantityOf(book', x) >= QuantityOf(book, x)
      BY DEF OrderKept
    <3>1. x = id
      BY <1>1, <2>2, SentToBackOrder
    <3>2. PICK o \in Resting(book) : o.orderId = id /\ o.price = price
      BY <1>1, <2>2, SentToBackOrder
    <3>3. PICK n \in Resting(book') : n.orderId = id /\ n.quantity = quantity
      BY <1>1, <2>2, SentToBackOrder
    <3>4. o.quantity \in Int /\ quantity \in Int
      BY <1>1, RestingFacts, OrderBookAssumption DEF Order
    <3>5. quantity >= o.quantity
      BY <2>2, <3>2, <3>4 DEF KeepsPriority
    <3>6. /\ QuantityOf(book, x) = o.quantity
          /\ QuantityOf(book', x) = quantity
      BY <1>1, <3>1, <3>2, <3>3, QuantityOfOrder
    <3>7. active' = id
      BY <1>5 DEF Modify
    <3> QED
      BY <3>1, <3>5, <3>6, <3>7
  <2> QED
    BY <1>5, <2>1, <2>2, ModifyEffect
<1>6. CASE MatchFill
  BY <1>2, <1>6, MatchFillEffect
<1>7. CASE book' = book
  <2>1. Stays
    BY <1>7 DEF Stays
  <2> QED
    BY <1>2, <2>1
<1> QED
  BY <1>3, <1>4, <1>5, <1>6, <1>7 DEF Next, MatchDone, vars

(***************************************************************************)
(* An order loses its place to one behind it only by its own modify, and   *)
(* only when that does not make it smaller (the README's modify table).    *)
(***************************************************************************)
THEOREM PriorityIsKept == Spec => TimePriorityKept
<1>1. IInv /\ IInv' /\ [Next]_vars =>
        [\A x, y \in OrderIds :
           Ahead(book, x, y) /\ Ahead(book', y, x) =>
             active' = x /\ QuantityOf(book', x) >= QuantityOf(book, x)]_vars
  BY StepKeepsOrder DEF OrderKept
<1> QED
  BY <1>1, AlwaysIInv, PTL DEF Spec, TimePriorityKept

-----------------------------------------------------------------------------
(* Matching ends: each of its trades takes an order out of the book, which *)
(* has finitely many.                                                      *)

FewOrders == IsFiniteSet(Resting(book))

LEMMA LeftoverSize ==
  ASSUME NEW o, NEW n
  PROVE  \E x : Leftover(o, n) \subseteq {x}
<1> WITNESS [o EXCEPT !.quantity = o.quantity - n]
<1> QED
  BY DEF Leftover

LEMMA FewInitially == Init => FewOrders
<1>1. \A s \in Side : EmptyBook.levels[s] = <<>>
  BY DEF EmptyBook
<1>2. Resting(EmptyBook) = {}
  BY <1>1 DEF Resting, OrdersOn, Side
<1> QED
  BY <1>2, FS_EmptySet DEF Init, FewOrders

LEMMA StepKeepsFew ==
  ASSUME IInv, FewOrders, [Next]_vars
  PROVE  FewOrders'
<1> DEFINE before == Resting(book)
           after == Resting(book')
<1>1. ASSUME NEW x, after \subseteq before \cup {x}
      PROVE  FewOrders'
  <2>1. IsFiniteSet(before \cup {x})
    BY FS_AddElement DEF FewOrders
  <2>2. IsFiniteSet(after)
    BY <1>1, <2>1, FS_Subset
  <2> QED
    BY <2>2 DEF FewOrders
<1>2. ASSUME NEW x, NEW y, after \subseteq (before \cup {x}) \cup {y}
      PROVE  FewOrders'
  <2>1. IsFiniteSet((before \cup {x}) \cup {y})
    BY FS_AddElement DEF FewOrders
  <2>2. IsFiniteSet(after)
    BY <1>2, <2>1, FS_Subset
  <2> QED
    BY <2>2 DEF FewOrders
<1>3. ASSUME NEW id \in OrderIds, NEW side \in Side, NEW price \in Prices,
             NEW quantity \in Quantities, NEW timestamp \in Timestamps,
             New(id, side, price, quantity, timestamp)
      PROVE  FewOrders'
  <2>1. quantity \in Int /\ IsBook(book)
    BY BookIsGood, OrderBookAssumption DEF Good
  <2>2. after = before \cup
                  {NewOrder(book, id, side, price, quantity, timestamp)}
    BY <1>3, <2>1, AddOrderResting DEF New
  <2> QED
    BY <1>1, <2>2
<1>4. ASSUME NEW id \in OrderIds, Cancel(id)
      PROVE  FewOrders'
  <2>1. after \subseteq before
    BY <1>4, BookIsGood, CancelOrderResting DEF Cancel
  <2> QED
    BY <1>1, <2>1
<1>5. ASSUME NEW id \in OrderIds, NEW price \in Prices,
             NEW quantity \in Quantities, NEW timestamp \in Timestamps,
             Modify(id, quantity, price, timestamp)
      PROVE  FewOrders'
  <2>1. \/ after = before
        \/ \E o \in before :
             after = (before \ {o}) \cup {[o EXCEPT !.quantity = quantity]}
        \/ \E o \in before :
             after = (before \ {o}) \cup
               {NewOrder(book, id, o.side, price, quantity, timestamp)}
    BY <1>5, BookIsGood, OrderBookAssumption, ModifyOrderResting DEF Modify
  <2>2. \E x : after \subseteq before \cup {x}
    BY <2>1
  <2> QED
    BY <1>1, <2>2
<1>6. CASE MatchFill
  <2>1. PICK bid \in before, ask \in before :
          after = (before \ {bid, ask})
                    \cup Leftover(bid, TradeQuantity(bid, ask))
                    \cup Leftover(ask, TradeQuantity(bid, ask))
    BY <1>6, FillFacts
  <2>2. PICK x : Leftover(bid, TradeQuantity(bid, ask)) \subseteq {x}
    BY LeftoverSize
  <2>3. PICK y : Leftover(ask, TradeQuantity(bid, ask)) \subseteq {y}
    BY LeftoverSize
  <2>4. after \subseteq (before \cup {x}) \cup {y}
    BY <2>1, <2>2, <2>3
  <2> QED
    BY <1>2, <2>4
<1>7. CASE book' = book
  BY <1>7 DEF FewOrders
<1> QED
  BY <1>3, <1>4, <1>5, <1>6, <1>7 DEF Next, MatchDone, vars

LEMMA AlwaysFew == Spec => []FewOrders
  BY FewInitially, StepKeepsFew, AlwaysIInv, PTL DEF Spec

\* Of the two orders that trade the one with no more than the other goes.
LEMMA FillFinishes ==
  ASSUME IInv, FewOrders, MatchFill
  PROVE  Cardinality(Resting(book')) < Cardinality(Resting(book))
<1> DEFINE before == Resting(book)
           after == Resting(book')
<1>1. PICK bid \in before, ask \in before :
        /\ bid.side = "BUY" /\ ask.side = "SELL"
        /\ after = (before \ {bid, ask})
                     \cup Leftover(bid, TradeQuantity(bid, ask))
                     \cup Leftover(ask, TradeQuantity(bid, ask))
  BY FillFacts
<1> DEFINE n == TradeQuantity(bid, ask)
           rest == (before \ {bid}) \ {ask}
<1>2. Leftover(bid, n) = {} \/ Leftover(ask, n) = {}
  BY DEF Leftover, TradeQuantity
<1>3. PICK x : Leftover(bid, n) \subseteq {x}
  BY LeftoverSize
<1>4. PICK y : Leftover(ask, n) \subseteq {y}
  BY LeftoverSize
<1> HIDE DEF n
<1>5. \E z : after \subseteq rest \cup {z}
  BY <1>1, <1>2, <1>3, <1>4 DEF n
<1>6. PICK z : after \subseteq rest \cup {z}
  BY <1>5
<1>7. /\ IsFiniteSet(before) /\ Cardinality(before) \in Nat
      /\ IsFiniteSet(before \ {bid})
      /\ Cardinality(before \ {bid}) = Cardinality(before) - 1
  BY FS_RemoveElement, FS_CardinalityType DEF FewOrders
<1>8. ask \in before \ {bid}
  BY <1>1
<1>9. /\ IsFiniteSet(rest)
      /\ Cardinality(rest) = Cardinality(before) - 2
  <2>1. /\ IsFiniteSet(rest)
        /\ Cardinality(rest) = Cardinality(before \ {bid}) - 1
    BY <1>7, <1>8, FS_RemoveElement
  <2> HIDE DEF rest, before
  <2> QED
    BY <1>7, <2>1
<1> HIDE DEF rest, before, after
<1>10. /\ IsFiniteSet(rest \cup {z})
       /\ Cardinality(rest \cup {z}) <= Cardinality(before) - 1
  <2>1. /\ IsFiniteSet(rest \cup {z})
        /\ Cardinality(rest \cup {z}) = IF z \in rest THEN Cardinality(rest)
                                         ELSE Cardinality(rest) + 1
    BY <1>9, FS_AddElement
  <2> QED
    BY <1>7, <1>9, <2>1
<1>11. Cardinality(after) <= Cardinality(rest \cup {z}) /\ IsFiniteSet(after)
  BY <1>6, <1>10, FS_Subset
<1>12. Cardinality(after) \in Nat /\ Cardinality(rest \cup {z}) \in Nat
  BY <1>10, <1>11, FS_CardinalityType
<1> QED
  BY <1>7, <1>10, <1>11, <1>12 DEF before, after

(***************************************************************************)
(* Every iteration of the loop of matchOrders takes an order out of a      *)
(* finite book, so the loop has no more of them than there are orders,     *)
(* with whatever quantities.                                               *)
(***************************************************************************)
THEOREM MatchingFinishesOrders == Spec => TradesFinishAnOrder
<1> DEFINE Finishes == Cardinality(Resting(book')) < Cardinality(Resting(book))
<1>1. IInv /\ FewOrders /\ [Next]_vars => [trade' # NoTrade => Finishes]_vars
  <2> SUFFICES ASSUME IInv, FewOrders, Next, trade' # NoTrade
               PROVE  Finishes
    OBVIOUS
  <2>1. MatchFill
    BY DEF Next, New, Cancel, Modify, MatchDone
  <2> QED
    BY <2>1, FillFinishes
<1> QED
  BY <1>1, AlwaysIInv, AlwaysFew, PTL DEF Spec, TradesFinishAnOrder

-----------------------------------------------------------------------------
(* What a trade takes from the two sides. *)

LEMMA OrdersOnSide ==
  ASSUME NEW b, Good(b), NEW s \in Side
  PROVE  OrdersOn(b, s) = {o \in Resting(b) : o.side = s}
<1>1. SlotsAreRight(b)
  BY WellFormedSlots DEF Good
<1>2. \A t \in Side : \A o :
        o \in OrdersOn(b, t) <=> \E p, i : HasSlot(b, t, p, i) /\ At(b, t, p, i) = o
  BY DEF OrdersOn, Range, HasSlot, At
<1>3. \A t \in Side : \A o \in OrdersOn(b, t) : o.side = t
  BY <1>1, <1>2 DEF SlotsAreRight
<1> QED
  BY <1>3 DEF Resting, Side

QuantityIn(S) == MapThenSumSet(LAMBDA o : o.quantity, S)

(***************************************************************************)
(* MapThenSumSet's own sum of the quantities is their sum.                 *)
(***************************************************************************)
LEMMA QuantityIsSum ==
  ASSUME NEW S, IsFiniteSet(S), \A o \in S : o.quantity \in Int
  PROVE  \E g : Sums(g, S, [o \in S |-> o.quantity]) /\ QuantityIn(S) = g[S]
<1> DEFINE q == [o \in S |-> o.quantity]
           pick(u) == CHOOSE x \in u : TRUE
           ch == [u \in SUBSET S |-> pick(u)]
           Body(g) == [u \in SUBSET S |->
                         IF u = {} THEN 0 ELSE pick(u).quantity + g[u \ {pick(u)}]]
           iter == CHOOSE g : g = Body(g)
<1>1. \A x \in S : q[x] \in Int
  OBVIOUS
<1>2. \A u \in SUBSET S : u # {} => ch[u] \in u
  OBVIOUS
<1>3. QuantityIn(S) = iter[S]
  BY Zenon DEF QuantityIn, MapThenSumSet, MapThenFoldSet
<1>4. PICK h : Sums(h, S, q)
  BY <1>1, <1>2, FoldSums
<1>5. \A u \in SUBSET S : u # {} => h[u] = pick(u).quantity + h[u \ {pick(u)}]
  BY <1>4 DEF Sums
<1>6. h = Body(h)
  BY <1>4, <1>5 DEF Sums
<1>7. iter = Body(iter)
  BY <1>6, Zenon
<1> HIDE DEF iter
<1>8. Folds(iter, S, q, ch)
  <2>1. iter = [u \in SUBSET S |-> iter[u]] /\ iter[{}] = 0
    BY <1>7
  <2>2. ASSUME NEW u \in SUBSET S, u # {}
        PROVE  iter[u] = q[ch[u]] + iter[u \ {ch[u]}]
    BY <1>7, <1>2, <2>2
  <2> HIDE DEF ch, Body, q
  <2> QED
    BY <2>1, <2>2 DEF Folds
<1>9. Sums(iter, S, q)
  BY <1>1, <1>2, <1>8, FoldSums
<1> QED
  BY <1>3, <1>9

LEMMA QuantityWithout ==
  ASSUME NEW S, IsFiniteSet(S), \A o \in S : o.quantity \in Int, NEW x \in S
  PROVE  /\ QuantityIn(S \ {x}) \in Int
         /\ QuantityIn(S) = x.quantity + QuantityIn(S \ {x})
<1> DEFINE U == S \ {x}
           q == [o \in S |-> o.quantity]
           r == [o \in U |-> o.quantity]
<1>1. IsFiniteSet(U) /\ U \in SUBSET S
  BY FS_Subset
<1>2. PICK h : Sums(h, S, q) /\ QuantityIn(S) = h[S]
  BY QuantityIsSum
<1>3. PICK g : Sums(g, U, r) /\ QuantityIn(U) = g[U]
  BY <1>1, QuantityIsSum
<1>4. \A o \in U : r[o] = q[o]
  OBVIOUS
<1>5. q[x] = x.quantity
  OBVIOUS
<1> HIDE DEF U, q, r
<1>6. \A u \in SUBSET U : g[u] = h[u]
  <2>1. \A V \in SUBSET S : \A a, c : (\A i \in V : a[i] = c[i]) =>
          \A f, k : Sums(f, V, a) /\ Sums(k, S, c) =>
            \A u \in SUBSET V : f[u] = k[u]
    BY ONLY IsFiniteSet(S), SumsAgree
  <2>2. \A f, k : Sums(f, U, r) /\ Sums(k, S, q) =>
          \A u \in SUBSET U : f[u] = k[u]
    <3>1. \A a, c : (\A i \in U : a[i] = c[i]) =>
            \A f, k : Sums(f, U, a) /\ Sums(k, S, c) =>
              \A u \in SUBSET U : f[u] = k[u]
      BY <1>1, <2>1
    <3> QED
      BY <1>4, <3>1
  <2> QED
    BY <1>2, <1>3, <2>2
<1>7. g[U] = h[U] /\ g[U] \in Int
  BY <1>3, <1>6 DEF Sums
<1>8. h[S] = q[x] + h[U]
  BY <1>2 DEF Sums, U
<1> QED
  BY <1>2, <1>3, <1>5, <1>7, <1>8 DEF U

(***************************************************************************)
(* An order that trades n, leaving the rest of it or nothing.              *)
(***************************************************************************)
LEMMA QuantityTaken ==
  ASSUME NEW S, IsFiniteSet(S), S \subseteq Order, NEW o \in S, NEW n \in Int,
         \A x \in S : x.orderId = o.orderId => x = o
  PROVE  QuantityIn(S) - QuantityIn((S \ {o}) \cup Leftover(o, n)) = n
<1> DEFINE rest == S \ {o}
           left == [o EXCEPT !.quantity = @ - n]
<1>1. /\ \A x \in S : x.quantity \in Int
      /\ o.quantity \in Int
  BY DEF Order
<1>2. /\ QuantityIn(rest) \in Int
      /\ QuantityIn(S) = o.quantity + QuantityIn(rest)
  BY <1>1, QuantityWithout
<1>3. CASE o.quantity = n
  <2>1. rest \cup Leftover(o, n) = rest
    BY <1>3 DEF Leftover
  <2> HIDE DEF rest
  <2>2. QuantityIn(S) - QuantityIn(rest) = n
    BY <1>1, <1>2, <1>3
  <2> QED
    BY <2>1, <2>2 DEF rest
<1>4. CASE o.quantity # n
  <2>1. left.orderId = o.orderId /\ left.quantity = o.quantity - n
    BY <1>1 DEF Order
  <2>2. Leftover(o, n) = {left}
    BY <1>4 DEF Leftover
  <2> HIDE DEF left
  <2>3. left \notin rest
    BY <2>1
  <2> DEFINE T == rest \cup {left}
  <2>4. IsFiniteSet(T) /\ T \ {left} = rest
    <3>1. IsFiniteSet(rest)
      BY FS_Subset
    <3> HIDE DEF rest
    <3> QED
      BY <2>3, <3>1, FS_AddElement
  <2>5. \A x \in T : x.quantity \in Int
    BY <1>1, <2>1
  <2> HIDE DEF T, rest
  <2>6. left \in T
    BY DEF T
  <2>7. QuantityIn(T) = left.quantity + QuantityIn(rest)
    BY <2>4, <2>5, <2>6, QuantityWithout
  <2> QED
    BY <1>1, <1>2, <2>1, <2>2, <2>7 DEF T, rest
<1> QED
  BY <1>3, <1>4

\* a wraps round m: it differs from what is kept by a multiple of m.
LEMMA WrapsRound ==
  ASSUME NEW v \in Int, NEW n \in Int, NEW m \in Nat \ {0}
  PROVE  ((((v + n) % m) - v) - n) % m = 0
<1> DEFINE a == v + n
<1>1. a = m * (a \div m) + (a % m) /\ a \div m \in Int /\ a % m \in Int
  BY SMTT(30)
<1>2. \A k \in Int : (m * k) % m = 0
  BY SMTT(30)
<1>3. -(a \div m) \in Int
  BY <1>1
<1>4. ((a % m) - v) - n = m * (-(a \div m))
  BY <1>1, <1>3, SMTT(30)
<1> QED
  BY <1>2, <1>3, <1>4

LEMMA FillConserves ==
  ASSUME IInv, IInv', FewOrders, MatchFill
  PROVE  Conserves
<1> DEFINE before == Resting(book)
           after == Resting(book')
           volume == book.stats.totalVolume
<1>1. PICK bid \in before, ask \in before :
        /\ bid.side = "BUY" /\ ask.side = "SELL"
        /\ trade' = [bid |-> bid, ask |-> ask,
                     quantity |-> TradeQuantity(bid, ask),
                     price |-> TradePrice(bid, ask)]
        /\ after = (before \ {bid, ask})
                     \cup Leftover(bid, TradeQuantity(bid, ask))
                     \cup Leftover(ask, TradeQuantity(bid, ask))
        /\ book'.stats.totalVolume =
             (volume + TradeQuantity(bid, ask)) % VolumeModulus
  BY FillFacts
<1> DEFINE n == TradeQuantity(bid, ask)
<1>2. Good(book) /\ Good(book')
  <2>1. IInv' => Good(book')
    BY DEF IInv, Good, TypeOK
  <2> QED
    BY BookIsGood, <2>1
<1>3. /\ before \subseteq Order /\ bid \in Order /\ ask \in Order
      /\ \A x, y \in before : x.orderId = y.orderId => x = y
      /\ IsFiniteSet(before)
  BY <1>2, RestingFacts DEF FewOrders
<1>4. n \in Int /\ volume \in Nat
  BY <1>2, <1>3 DEF TradeQuantity, Order, Good, IsBook, SymbolStats
<1>5. trade' # NoTrade /\ trade'.quantity = n
  BY <1>1 DEF NoTrade
<1> HIDE DEF n, before, after
<1>6. /\ \A x \in Leftover(bid, n) : x.side = "BUY"
      /\ \A x \in Leftover(ask, n) : x.side = "SELL"
  BY <1>1, <1>3 DEF Leftover, Order
<1>7. ASSUME NEW s \in Side
      PROVE  SideQuantity(book, s) - SideQuantity(book', s) = n
  <2> DEFINE S == {x \in before : x.side = s}
             o == IF s = "BUY" THEN bid ELSE ask
  <2>1. OrdersOn(book, s) = S
    BY <1>2, OrdersOnSide DEF before
  <2>2. OrdersOn(book', s) = {x \in after : x.side = s}
    BY <1>2, OrdersOnSide DEF after
  <2>3. {x \in after : x.side = s} = (S \ {o}) \cup Leftover(o, n)
    BY <1>1, <1>6 DEF Side, n
  <2>4. /\ IsFiniteSet(S) /\ S \subseteq Order /\ o \in S
        /\ \A x \in S : x.orderId = o.orderId => x = o
    BY <1>1, <1>3, FS_Subset DEF Side
  <2> HIDE DEF S, o
  <2>5. QuantityIn(S) - QuantityIn((S \ {o}) \cup Leftover(o, n)) = n
    BY <1>4, <2>4, QuantityTaken
  <2>6. \A b : SideQuantity(b, s) = QuantityIn(OrdersOn(b, s))
    BY Zenon DEF SideQuantity, QuantityIn
  <2> QED
    BY <2>1, <2>2, <2>3, <2>5, <2>6
<1>8. ((book'.stats.totalVolume - volume) - n) % VolumeModulus = 0
  <2>1. ((((volume + n) % VolumeModulus) - volume) - n) % VolumeModulus = 0
    <3>1. volume \in Int /\ n \in Int /\ VolumeModulus \in Nat \ {0}
      BY <1>4, BookAssumption
    <3> HIDE DEF volume
    <3> QED
      BY <3>1, WrapsRound, Zenon
  <2>2. book'.stats.totalVolume = (volume + n) % VolumeModulus
    BY <1>1 DEF n
  <2> HIDE DEF volume
  <2> QED
    BY <2>1, <2>2
<1> QED
  BY <1>5, <1>7, <1>8 DEF Conserves

(***************************************************************************)
(* A trade takes its quantity from each side of the book and adds it, as   *)
(* the counter wraps, to totalVolume; no other step moves totalVolume.     *)
(***************************************************************************)
THEOREM TradesAlwaysConserve == Spec => TradesConserve
<1>1. IInv /\ IInv' /\ FewOrders /\ [Next]_vars => [Conserves]_vars
  <2> SUFFICES ASSUME IInv, IInv', FewOrders, Next
               PROVE  Conserves
    OBVIOUS
  <2>1. ASSUME trade' = NoTrade,
               book'.stats.totalVolume = book.stats.totalVolume
        PROVE  Conserves
    <3>1. book.stats.totalVolume \in Int
      BY DEF IInv, TypeOK, IsBook, SymbolStats
    <3> QED
      BY <2>1, <3>1 DEF Conserves
  <2>2. Good(book)
    BY BookIsGood
  <2>3. ASSUME NEW id \in OrderIds, NEW side \in Side, NEW price \in Prices,
               NEW quantity \in Quantities, NEW timestamp \in Timestamps,
               New(id, side, price, quantity, timestamp)
        PROVE  Conserves
    <3>1. quantity \in Int /\ Uncrossed(book)
      BY <2>3, BookIsGood, OrderBookAssumption DEF New
    <3>2. id \notin DOMAIN book.orderMap
      BY <2>3 DEF IInv, IdsAreUsed, TypeOK, New
    <3>3. AddOrder(book, id, side, price, quantity, timestamp).stats.totalVolume
            = book.stats.totalVolume
      BY <2>2, <3>1, <3>2, AddOrderKeeps
    <3> QED
      BY <2>1, <2>3, <3>3 DEF New
  <2>4. ASSUME NEW id \in OrderIds, Cancel(id)
        PROVE  Conserves
    <3>1. book'.stats = book.stats
      BY <2>2, <2>4, BookIsGood, CancelOrderKeeps DEF Cancel
    <3> QED
      BY <2>1, <2>4, <3>1 DEF Cancel
  <2>5. ASSUME NEW id \in OrderIds, NEW price \in Prices,
               NEW quantity \in Quantities, NEW timestamp \in Timestamps,
               Modify(id, quantity, price, timestamp)
        PROVE  Conserves
    <3>1. quantity \in Int /\ Uncrossed(book)
      BY <2>5, BookIsGood, OrderBookAssumption DEF Modify
    <3>2. book'.stats = book.stats
      BY <2>2, <2>5, <3>1, ModifyOrderKeeps DEF Modify
    <3> QED
      BY <2>1, <2>5, <3>2 DEF Modify
  <2>6. CASE MatchFill
    BY <2>6, FillConserves
  <2>7. CASE MatchDone
    BY <2>1, <2>7 DEF MatchDone
  <2> QED
    BY <2>3, <2>4, <2>5, <2>6, <2>7 DEF Next
<1> QED
  BY <1>1, AlwaysIInv, AlwaysFew, PTL DEF Spec, TradesConserve
=============================================================================
