--------------------------- MODULE ExchangeProofs ---------------------------
(***************************************************************************)
(* The safety properties of Exchange.tla, for every set of symbols, ids,   *)
(* prices, quantities and timestamps and for any number of orders.         *)
(***************************************************************************)
EXTENDS Exchange, BookLemmas

(***************************************************************************)
(* The inductive invariant.  A new id must be fresh in the book it goes    *)
(* to: no resting id is unrouted and no routed id is above the latest.     *)
(***************************************************************************)
RoutedIdsAreUsed == \A id \in DOMAIN orderSymbolMap : id <= lastOrderId

IInv ==
  /\ TypeOK
  /\ BooksWellFormed
  /\ RestingIsRouted
  /\ UncrossedAtRest
  /\ RoutedIdsAreUsed

-----------------------------------------------------------------------------
LEMMA InitEstablishes == Init => IInv
<1>1. DOMAIN <<>> = {}
  OBVIOUS
<1> QED
  BY <1>1 DEF Init, IInv, TypeOK, BooksWellFormed, RestingIsRouted,
       UncrossedAtRest, RoutedIdsAreUsed, IsMap

(***************************************************************************)
(* Between commands every book, also one not yet created, can be given a   *)
(* command.                                                                *)
(***************************************************************************)
LEMMA BookOfGood ==
  ASSUME IInv, matching = NoSymbol, NEW symbol \in Symbols
  PROVE  /\ Good(BookOf(symbol))
         /\ Uncrossed(BookOf(symbol))
         /\ \A id \in DOMAIN BookOf(symbol).orderMap :
              /\ id \in DOMAIN orderSymbolMap
              /\ orderSymbolMap[id] = symbol
              /\ symbol \in DOMAIN books
<1>1. CASE symbol \in DOMAIN books
  <2>1. symbol # matching
    BY ExchangeAssumption
  <2> QED
    BY <1>1, <2>1 DEF IInv, TypeOK, BooksWellFormed, RestingIsRouted,
         UncrossedAtRest, Good, BookOf
<1>2. CASE symbol \notin DOMAIN books
  <2>1. BookOf(symbol) = EmptyBook
    BY <1>2 DEF BookOf
  <2>2. DOMAIN EmptyBook.orderMap = {}
    BY DEF EmptyBook
  <2> QED
    BY <2>1, <2>2, EmptyBookGood
<1> QED
  BY <1>1, <1>2

(***************************************************************************)
(* A command leaves in one book a well-formed one, whose orders are all    *)
(* routed to it, and no other book is touched.                             *)
(***************************************************************************)
LEMMA OneBookChanges ==
  ASSUME IInv, matching = NoSymbol,
         NEW symbol \in Symbols, NEW c, Good(c),
         books' = Put(books, symbol, c),
         matching' = symbol \/ (matching' = NoSymbol /\ Uncrossed(c)),
         lastOrderId' \in Nat,
         IsMap(orderSymbolMap', OrderIds, Symbols),
         \A id \in DOMAIN orderSymbolMap' : id <= lastOrderId',
         \A id \in DOMAIN c.orderMap :
           id \in DOMAIN orderSymbolMap' /\ orderSymbolMap'[id] = symbol,
         \A s \in DOMAIN books \ {symbol} : \A id \in DOMAIN books[s].orderMap :
           id \in DOMAIN orderSymbolMap' /\ orderSymbolMap'[id] = s
  PROVE  IInv'
<1>1. /\ DOMAIN books' = DOMAIN books \cup {symbol}
      /\ books'[symbol] = c
      /\ \A s \in DOMAIN books \ {symbol} : books'[s] = books[s]
  BY DEF Put
<1>2. \A s \in DOMAIN books' : IsBook(books'[s]) /\ WellFormed(books'[s])
  BY <1>1 DEF IInv, TypeOK, BooksWellFormed, Good
<1>3. TypeOK'
  BY <1>1, <1>2 DEF IInv, TypeOK
<1>4. BooksWellFormed'
  BY <1>2 DEF BooksWellFormed
<1>5. RestingIsRouted'
  BY <1>1 DEF RestingIsRouted
<1>6. UncrossedAtRest'
  <2>1. \A s \in DOMAIN books : Uncrossed(books[s])
    BY ExchangeAssumption DEF IInv, UncrossedAtRest, TypeOK
  <2> QED
    BY <1>1, <2>1 DEF UncrossedAtRest
<1>7. RoutedIdsAreUsed'
  BY DEF RoutedIdsAreUsed
<1> QED
  BY <1>3, <1>4, <1>5, <1>6, <1>7 DEF IInv

LEMMA NewKeeps ==
  ASSUME IInv, NEW symbol \in Symbols, NEW side \in Side, NEW price \in Prices,
         NEW quantity \in Quantities, NEW timestamp \in Timestamps,
         New(symbol, side, price, quantity, timestamp)
  PROVE  IInv' /\ OnlyFreshIdsAppear
<1> DEFINE id == lastOrderId + 1
           b == BookOf(symbol)
           c == AddOrder(b, id, side, price, quantity, timestamp)
<1>1. /\ matching = NoSymbol /\ id \in OrderIds
      /\ books' = Put(books, symbol, c)
      /\ orderSymbolMap' = Put(orderSymbolMap, id, symbol)
      /\ matching' = symbol
      /\ lastOrderId' = id
  BY DEF New, ExAddOrder
<1>2. lastOrderId \in Nat /\ id \in Nat /\ quantity \in Int
  BY ExchangeAssumption DEF IInv, TypeOK
<1>3. /\ Good(b) /\ Uncrossed(b)
      /\ \A x \in DOMAIN b.orderMap :
           x \in DOMAIN orderSymbolMap /\ orderSymbolMap[x] = symbol
           /\ symbol \in DOMAIN books
  BY <1>1, BookOfGood
<1>4. id \notin DOMAIN orderSymbolMap
  BY <1>2 DEF IInv, RoutedIdsAreUsed
<1>5. Good(c) /\ DOMAIN c.orderMap = DOMAIN b.orderMap \cup {id}
  BY <1>1, <1>2, <1>3, <1>4, AddOrderKeeps
<1>6. /\ DOMAIN orderSymbolMap' = DOMAIN orderSymbolMap \cup {id}
      /\ orderSymbolMap'[id] = symbol
      /\ \A x \in DOMAIN orderSymbolMap : orderSymbolMap'[x] = orderSymbolMap[x]
  BY <1>1, <1>4 DEF Put
<1>7. IsMap(orderSymbolMap', OrderIds, Symbols)
  BY <1>1, PutIsMap DEF IInv, TypeOK
<1> HIDE DEF c, b
<1>8. \A x \in DOMAIN orderSymbolMap' : x <= lastOrderId'
  <2> SUFFICES ASSUME NEW x \in DOMAIN orderSymbolMap'
               PROVE  x <= lastOrderId'
    OBVIOUS
  <2>1. x \in Nat
    BY <1>7, BookAssumption DEF IsMap
  <2>2. x = id \/ x <= lastOrderId
    BY <1>6 DEF IInv, RoutedIdsAreUsed
  <2> QED
    BY <1>1, <1>2, <2>1, <2>2
<1>9. \A x \in DOMAIN c.orderMap :
        x \in DOMAIN orderSymbolMap' /\ orderSymbolMap'[x] = symbol
  BY <1>3, <1>5, <1>6
<1>10. \A s \in DOMAIN books \ {symbol} : \A x \in DOMAIN books[s].orderMap :
         x \in DOMAIN orderSymbolMap' /\ orderSymbolMap'[x] = s
  BY <1>6 DEF IInv, RestingIsRouted
<1>11. IInv'
  BY <1>1, <1>2, <1>5, <1>7, <1>8, <1>9, <1>10, OneBookChanges
<1>12. \A x \in Live' \ Live : x > lastOrderId
  <2> SUFFICES ASSUME NEW x \in Live', x \notin Live
               PROVE  x > lastOrderId
    OBVIOUS
  <2>1. PICK s \in DOMAIN books' : x \in DOMAIN books'[s].orderMap
    BY DEF Live
  <2>2. CASE s = symbol
    <3>1. x = id \/ x \in DOMAIN b.orderMap
      BY <1>1, <1>5, <2>1, <2>2 DEF Put
    <3>2. x \in DOMAIN b.orderMap => x \in Live
      BY <1>3 DEF Live, BookOf, b
    <3> QED
      BY <1>2, <3>1, <3>2
  <2>3. CASE s # symbol
    <3>1. s \in DOMAIN books /\ books'[s] = books[s]
      BY <1>1, <2>1, <2>3 DEF Put
    <3> QED
      BY <2>1, <3>1 DEF Live
  <2> QED
    BY <2>2, <2>3
<1> QED
  BY <1>11, <1>12 DEF OnlyFreshIdsAppear

(***************************************************************************)
(* No order starts to rest when a book keeps a subset of its orders.       *)
(***************************************************************************)
LEMMA NothingNewRests ==
  ASSUME NEW symbol, NEW c, books' = Put(books, symbol, c),
         \A x \in DOMAIN c.orderMap :
           symbol \in DOMAIN books /\ x \in DOMAIN books[symbol].orderMap
  PROVE  Live' \subseteq Live
<1> SUFFICES ASSUME NEW x \in Live'
             PROVE  x \in Live
  OBVIOUS
<1>1. PICK s \in DOMAIN books' : x \in DOMAIN books'[s].orderMap
  BY DEF Live
<1>2. s \in DOMAIN books /\ x \in DOMAIN books[s].orderMap
  <2>1. CASE s = symbol
    BY <1>1, <2>1 DEF Put
  <2>2. CASE s # symbol
    BY <1>1, <2>2 DEF Put
  <2> QED
    BY <2>1, <2>2
<1> QED
  BY <1>2 DEF Live

LEMMA CancelKeeps ==
  ASSUME IInv, NEW id \in OrderIds, ExCancelOrder(id)
  PROVE  IInv' /\ Live' \subseteq Live
<1> DEFINE symbol == orderSymbolMap[id]
           b == BookOf(symbol)
           c == CancelOrder(b, id)
<1>1. /\ matching = NoSymbol /\ matching' = NoSymbol
      /\ id \in DOMAIN orderSymbolMap
      /\ books' = Put(books, symbol, c)
      /\ orderSymbolMap' = Drop(orderSymbolMap, id)
      /\ lastOrderId' = lastOrderId
  BY DEF ExCancelOrder
<1>2. symbol \in Symbols /\ lastOrderId \in Nat
  BY <1>1 DEF IInv, TypeOK, IsMap
<1>3. /\ Good(b) /\ Uncrossed(b)
      /\ \A x \in DOMAIN b.orderMap :
           x \in DOMAIN orderSymbolMap /\ orderSymbolMap[x] = symbol
           /\ symbol \in DOMAIN books
  BY <1>1, <1>2, BookOfGood
<1>4. Good(c) /\ Uncrossed(c) /\ DOMAIN c.orderMap = DOMAIN b.orderMap \ {id}
  BY <1>3, CancelOrderKeeps
<1>5. /\ DOMAIN orderSymbolMap' = DOMAIN orderSymbolMap \ {id}
      /\ \A x \in DOMAIN orderSymbolMap' : orderSymbolMap'[x] = orderSymbolMap[x]
  BY <1>1 DEF Drop, Restrict
<1>6. IsMap(orderSymbolMap', OrderIds, Symbols)
  BY <1>1, DropIsMap DEF IInv, TypeOK
<1>7. b = books[symbol] \/ symbol \notin DOMAIN books
  BY DEF BookOf
<1> HIDE DEF c, b
<1>8. \A x \in DOMAIN orderSymbolMap' : x <= lastOrderId'
  BY <1>1, <1>5 DEF IInv, RoutedIdsAreUsed
<1>9. \A x \in DOMAIN c.orderMap :
        x \in DOMAIN orderSymbolMap' /\ orderSymbolMap'[x] = symbol
  BY <1>3, <1>4, <1>5
<1>10. \A s \in DOMAIN books \ {symbol} : \A x \in DOMAIN books[s].orderMap :
         x \in DOMAIN orderSymbolMap' /\ orderSymbolMap'[x] = s
  BY <1>5 DEF IInv, RestingIsRouted
<1>11. IInv'
  BY <1>1, <1>2, <1>4, <1>6, <1>8, <1>9, <1>10, OneBookChanges
<1>12. \A x \in DOMAIN c.orderMap :
         symbol \in DOMAIN books /\ x \in DOMAIN books[symbol].orderMap
  BY <1>3, <1>4, <1>7
<1> QED
  BY <1>1, <1>11, <1>12, NothingNewRests

LEMMA ModifyKeeps ==
  ASSUME IInv, NEW id \in OrderIds, NEW symbol \in Symbols, NEW price \in Prices,
         NEW quantity \in Quantities, NEW timestamp \in Timestamps,
         ExModifyOrder(id, symbol, quantity, price, timestamp)
  PROVE  IInv' /\ Live' \subseteq Live
<1> DEFINE b == BookOf(symbol)
           c == ModifyOrder(b, id, quantity, price, timestamp)
<1>1. /\ matching = NoSymbol /\ matching' = symbol
      /\ books' = Put(books, symbol, c)
      /\ orderSymbolMap' = orderSymbolMap
      /\ lastOrderId' = lastOrderId
  BY DEF ExModifyOrder
<1>2. quantity \in Int /\ lastOrderId \in Nat
      /\ IsMap(orderSymbolMap, OrderIds, Symbols)
  BY ExchangeAssumption DEF IInv, TypeOK
<1>3. /\ Good(b) /\ Uncrossed(b)
      /\ \A x \in DOMAIN b.orderMap :
           x \in DOMAIN orderSymbolMap /\ orderSymbolMap[x] = symbol
           /\ symbol \in DOMAIN books
  BY <1>1, BookOfGood
<1>4. Good(c) /\ DOMAIN c.orderMap = DOMAIN b.orderMap
  BY <1>2, <1>3, ModifyOrderKeeps
<1>5. b = books[symbol] \/ symbol \notin DOMAIN books
  BY DEF BookOf
<1> HIDE DEF c, b
<1>6. \A x \in DOMAIN orderSymbolMap' : x <= lastOrderId'
  BY <1>1 DEF IInv, RoutedIdsAreUsed
<1>7. \A x \in DOMAIN c.orderMap :
        x \in DOMAIN orderSymbolMap' /\ orderSymbolMap'[x] = symbol
  BY <1>1, <1>3, <1>4
<1>8. \A s \in DOMAIN books \ {symbol} : \A x \in DOMAIN books[s].orderMap :
        x \in DOMAIN orderSymbolMap' /\ orderSymbolMap'[x] = s
  BY <1>1 DEF IInv, RestingIsRouted
<1>9. IInv'
  BY <1>1, <1>2, <1>4, <1>6, <1>7, <1>8, OneBookChanges
<1>10. \A x \in DOMAIN c.orderMap :
         symbol \in DOMAIN books /\ x \in DOMAIN books[symbol].orderMap
  BY <1>3, <1>4, <1>5
<1> QED
  BY <1>1, <1>9, <1>10, NothingNewRests

(***************************************************************************)
(* A MODIFY that is refused is still followed by matchOrders.              *)
(***************************************************************************)
LEMMA ModifyRejectedKeeps ==
  ASSUME IInv, NEW id \in OrderIds, NEW symbol \in Symbols,
         ExModifyRejected(id, symbol)
  PROVE  IInv' /\ Live' \subseteq Live
<1>1. /\ matching = NoSymbol /\ matching' = symbol
      /\ UNCHANGED <<books, orderSymbolMap, lastOrderId>>
  BY DEF ExModifyRejected
<1>2. TypeOK' /\ BooksWellFormed' /\ RestingIsRouted' /\ RoutedIdsAreUsed'
  BY <1>1 DEF IInv, TypeOK, BooksWellFormed, RestingIsRouted, RoutedIdsAreUsed
<1>3. UncrossedAtRest'
  <2>1. \A s \in DOMAIN books : s # matching
    BY <1>1, ExchangeAssumption DEF IInv, TypeOK
  <2> QED
    BY <1>1, <2>1 DEF IInv, UncrossedAtRest
<1> QED
  BY <1>1, <1>2, <1>3 DEF IInv, Live

LEMMA MatchFillKeeps ==
  ASSUME IInv, ExMatchFill
  PROVE  IInv' /\ Live' \subseteq Live
<1> DEFINE b == books[matching]
<1>1. PICK bp, ap : /\ Crosses(b, bp, ap)
                    /\ books' = [books EXCEPT ![matching] = Fill(b, bp, ap)]
  BY DEF ExMatchFill
<1> DEFINE c == Fill(b, bp, ap)
<1>2. /\ matching \in DOMAIN books
      /\ UNCHANGED <<orderSymbolMap, matching, lastOrderId>>
  BY DEF ExMatchFill
<1>3. Good(b)
  BY <1>2 DEF IInv, TypeOK, BooksWellFormed, Good
<1>4. Good(c) /\ DOMAIN c.orderMap \subseteq DOMAIN b.orderMap
  BY <1>1, <1>3, FillKeeps
<1>5. /\ DOMAIN books' = DOMAIN books
      /\ books'[matching] = c
      /\ \A s \in DOMAIN books \ {matching} : books'[s] = books[s]
  BY <1>1, <1>2
<1> HIDE DEF c
<1>6. \A s \in DOMAIN books :
        /\ IsBook(books'[s])
        /\ WellFormed(books'[s])
        /\ DOMAIN books'[s].orderMap \subseteq DOMAIN books[s].orderMap
  BY <1>2, <1>4, <1>5 DEF IInv, TypeOK, BooksWellFormed, Good
<1>7. TypeOK'
  BY <1>2, <1>5, <1>6 DEF IInv, TypeOK
<1>8. BooksWellFormed'
  BY <1>5, <1>6 DEF BooksWellFormed
<1>9. RestingIsRouted'
  BY <1>2, <1>5, <1>6 DEF IInv, RestingIsRouted
<1>10. UncrossedAtRest' /\ RoutedIdsAreUsed'
  BY <1>2, <1>5 DEF IInv, UncrossedAtRest, RoutedIdsAreUsed
<1>11. Live' \subseteq Live
  BY <1>5, <1>6 DEF Live
<1> QED
  BY <1>7, <1>8, <1>9, <1>10, <1>11 DEF IInv

LEMMA MatchDoneKeeps ==
  ASSUME IInv, ExMatchDone
  PROVE  IInv' /\ Live' \subseteq Live
<1>1. /\ matching' = NoSymbol
      /\ matching \in DOMAIN books => Uncrossed(books[matching])
      /\ UNCHANGED <<books, orderSymbolMap, lastOrderId>>
  BY DEF ExMatchDone
<1>2. TypeOK' /\ BooksWellFormed' /\ RestingIsRouted' /\ RoutedIdsAreUsed'
  BY <1>1 DEF IInv, TypeOK, BooksWellFormed, RestingIsRouted, RoutedIdsAreUsed
<1>3. UncrossedAtRest'
  BY <1>1 DEF IInv, UncrossedAtRest
<1> QED
  BY <1>1, <1>2, <1>3 DEF IInv, Live

LEMMA StutterKeeps ==
  ASSUME IInv, UNCHANGED vars
  PROVE  IInv' /\ Live' \subseteq Live
  BY DEF IInv, TypeOK, BooksWellFormed, RestingIsRouted, UncrossedAtRest,
       RoutedIdsAreUsed, Live, vars

(***************************************************************************)
(* Every step keeps the invariant and lets only fresh ids start to rest.   *)
(***************************************************************************)
LEMMA Inductive ==
  IInv /\ [Next]_vars => IInv' /\ OnlyFreshIdsAppear
<1> DEFINE Goal == IInv' /\ OnlyFreshIdsAppear
<1> SUFFICES ASSUME IInv, [Next]_vars
             PROVE  Goal
  OBVIOUS
<1>0. ASSUME IInv' /\ Live' \subseteq Live
      PROVE  Goal
  BY <1>0 DEF OnlyFreshIdsAppear
<1>1. ASSUME NEW symbol \in Symbols, NEW side \in Side, NEW price \in Prices,
             NEW quantity \in Quantities, NEW timestamp \in Timestamps,
             New(symbol, side, price, quantity, timestamp)
      PROVE  Goal
  BY <1>1, NewKeeps
<1> HIDE DEF Goal
<1>2. ASSUME NEW id \in OrderIds, Cancel(id)
      PROVE  Goal
  <2>1. CASE ExCancelRejected(id)
    BY <1>0, <2>1, StutterKeeps DEF ExCancelRejected
  <2>2. CASE ExCancelOrder(id)
    BY <1>0, <2>2, CancelKeeps
  <2> QED
    BY <1>2, <2>1, <2>2 DEF Cancel
<1>3. ASSUME NEW id \in OrderIds, NEW symbol \in Symbols, NEW price \in Prices,
             NEW quantity \in Quantities, NEW timestamp \in Timestamps,
             Modify(id, symbol, quantity, price, timestamp)
      PROVE  Goal
  <2>1. CASE ExModifyRejected(id, symbol)
    BY <1>0, <2>1, ModifyRejectedKeeps
  <2>2. CASE ExModifyOrder(id, symbol, quantity, price, timestamp)
    BY <1>0, <2>2, ModifyKeeps
  <2> QED
    BY <1>3, <2>1, <2>2 DEF Modify
<1>4. CASE ExMatchFill
  BY <1>0, <1>4, MatchFillKeeps
<1>5. CASE ExMatchDone
  BY <1>0, <1>5, MatchDoneKeeps
<1>6. CASE UNCHANGED vars
  BY <1>0, <1>6, StutterKeeps
<1> QED
  BY <1>1, <1>2, <1>3, <1>4, <1>5, <1>6 DEF Next

(***************************************************************************)
(* A book allocates one list node at most per command, and only in the     *)
(* step that starts to match it.                                           *)
(***************************************************************************)
NodesAdded(s) == BookOf(s)'.nodes - BookOf(s).nodes

LEMMA NodesOfPut ==
  ASSUME IInv, matching = NoSymbol, NEW s \in Symbols, NEW symbol \in Symbols, NEW c,
         books' = Put(books, symbol, c),
         c.nodes \in {BookOf(symbol).nodes, BookOf(symbol).nodes + 1}
  PROVE  /\ NodesAdded(s) \in {0, 1}
         /\ c.nodes = BookOf(symbol).nodes => NodesAdded(s) = 0
<1>1. BookOf(s)' = IF s = symbol THEN c ELSE BookOf(s)
  BY DEF Put, BookOf
<1>2. BookOf(s).nodes \in Nat /\ BookOf(symbol).nodes \in Nat
  BY BookOfGood DEF Good, IsBook
<1>3. CASE s = symbol
  BY <1>1, <1>2, <1>3 DEF NodesAdded
<1>4. CASE s # symbol
  BY <1>1, <1>2, <1>4 DEF NodesAdded
<1> QED
  BY <1>3, <1>4

LEMMA StepNodes ==
  ASSUME IInv, [Next]_vars, NEW s \in Symbols
  PROVE  /\ NodesAdded(s) \in {0, 1}
         /\ matching # NoSymbol \/ matching' = NoSymbol => NodesAdded(s) = 0
<1>0. BookOf(s).nodes \in Nat
  BY DEF IInv, TypeOK, IsBook, BookOf, EmptyBook
<1>1. ASSUME NEW symbol \in Symbols, NEW side \in Side, NEW price \in Prices,
             NEW quantity \in Quantities, NEW timestamp \in Timestamps,
             New(symbol, side, price, quantity, timestamp)
      PROVE  /\ NodesAdded(s) \in {0, 1}
             /\ matching = NoSymbol /\ matching' \in Symbols
  <2> DEFINE id == lastOrderId + 1
             b == BookOf(symbol)
             c == AddOrder(b, id, side, price, quantity, timestamp)
  <2>1. /\ matching = NoSymbol /\ matching' = symbol /\ id \in OrderIds
        /\ books' = Put(books, symbol, c)
    BY <1>1 DEF New, ExAddOrder
  <2>2. Good(b) /\ Uncrossed(b) /\ id \notin DOMAIN b.orderMap /\ quantity \in Int
    <3>1. lastOrderId \in Nat /\ id \notin DOMAIN orderSymbolMap /\ quantity \in Int
      BY ExchangeAssumption DEF IInv, TypeOK, RoutedIdsAreUsed
    <3> QED
      BY <2>1, <3>1, BookOfGood
  <2>3. c.nodes = b.nodes + 1
    BY <2>1, <2>2, AddOrderKeeps
  <2> HIDE DEF c
  <2> QED
    BY <2>1, <2>3, NodesOfPut
<1>2. ASSUME NEW id \in OrderIds, ExCancelOrder(id)
      PROVE  NodesAdded(s) = 0
  <2> DEFINE symbol == orderSymbolMap[id]
             c == CancelOrder(BookOf(symbol), id)
  <2>1. matching = NoSymbol /\ symbol \in Symbols /\ books' = Put(books, symbol, c)
    BY <1>2 DEF ExCancelOrder, IInv, TypeOK, IsMap
  <2>2. c.nodes = BookOf(symbol).nodes
    BY <2>1, BookOfGood, CancelOrderKeeps
  <2> HIDE DEF c, symbol
  <2> QED
    BY <2>1, <2>2, NodesOfPut
<1>3. ASSUME NEW id \in OrderIds, NEW symbol \in Symbols, NEW price \in Prices,
             NEW quantity \in Quantities, NEW timestamp \in Timestamps,
             ExModifyOrder(id, symbol, quantity, price, timestamp)
      PROVE  /\ NodesAdded(s) \in {0, 1}
             /\ matching = NoSymbol /\ matching' \in Symbols
  <2> DEFINE c == ModifyOrder(BookOf(symbol), id, quantity, price, timestamp)
  <2>1. matching = NoSymbol /\ matching' = symbol /\ books' = Put(books, symbol, c)
    BY <1>3 DEF ExModifyOrder
  <2>2. c.nodes \in {BookOf(symbol).nodes, BookOf(symbol).nodes + 1}
    BY <2>1, BookOfGood, ModifyOrderKeeps, ExchangeAssumption
  <2> HIDE DEF c
  <2> QED
    BY <2>1, <2>2, NodesOfPut
<1>4. ASSUME ExMatchFill  PROVE NodesAdded(s) = 0
  <2>1. PICK bp, ap :
          /\ Crosses(books[matching], bp, ap)
          /\ books' = [books EXCEPT ![matching] = Fill(books[matching], bp, ap)]
    BY <1>4 DEF ExMatchFill
  <2> DEFINE c == Fill(books[matching], bp, ap)
  <2>2. Good(books[matching]) /\ matching \in DOMAIN books
    BY <1>4 DEF ExMatchFill, IInv, TypeOK, BooksWellFormed, Good
  <2>3. c.nodes = books[matching].nodes
    BY <2>1, <2>2, FillKeeps
  <2> HIDE DEF c
  <2>4. BookOf(s)'.nodes = BookOf(s).nodes
    BY <2>1, <2>2, <2>3 DEF BookOf, c
  <2> QED
    BY <1>0, <2>4 DEF NodesAdded
<1>5. ASSUME UNCHANGED books  PROVE NodesAdded(s) = 0
  BY <1>0, <1>5 DEF NodesAdded, BookOf
<1> DEFINE Goal == /\ NodesAdded(s) \in {0, 1}
                   /\ matching # NoSymbol \/ matching' = NoSymbol => NodesAdded(s) = 0
<1>6. ASSUME NodesAdded(s) = 0  PROVE Goal
  BY <1>6
<1>7. ASSUME NodesAdded(s) \in {0, 1}, matching = NoSymbol, matching' \in Symbols
      PROVE  Goal
  BY <1>7, ExchangeAssumption
<1> SUFFICES Goal
  OBVIOUS
<1> HIDE DEF Goal
<1>8. CASE UNCHANGED vars
  BY <1>5, <1>6, <1>8 DEF vars
<1>9. ASSUME NEW id \in OrderIds, Cancel(id)  PROVE Goal
  BY <1>2, <1>5, <1>6, <1>9 DEF Cancel, ExCancelRejected, vars
<1>10. ASSUME NEW id \in OrderIds, NEW symbol \in Symbols, NEW price \in Prices,
              NEW quantity \in Quantities, NEW timestamp \in Timestamps,
              Modify(id, symbol, quantity, price, timestamp)
       PROVE  Goal
  BY <1>3, <1>5, <1>6, <1>7, <1>10 DEF Modify, ExModifyRejected
<1>11. CASE ExMatchFill \/ ExMatchDone
  BY <1>4, <1>5, <1>6, <1>11 DEF ExMatchDone
<1> QED
  BY <1>1, <1>7, <1>8, <1>9, <1>10, <1>11 DEF Next

LEMMA AlwaysIInv == Spec => []IInv
  BY InitEstablishes, Inductive, PTL DEF Spec

-----------------------------------------------------------------------------
(***************************************************************************)
(* The exchange and all its books keep their types.                        *)
(***************************************************************************)
THEOREM ExchangeTypeCorrect == Spec => []TypeOK
<1>1. IInv => TypeOK
  BY DEF IInv
<1> QED
  BY <1>1, AlwaysIInv, PTL

(***************************************************************************)
(* In every book the levels, the queues and the order map agree after any  *)
(* mix of commands for any symbols.                                        *)
(***************************************************************************)
THEOREM BooksAlwaysWellFormed == Spec => []BooksWellFormed
<1>1. IInv => BooksWellFormed
  BY DEF IInv
<1> QED
  BY <1>1, AlwaysIInv, PTL

(***************************************************************************)
(* orderSymbolMap sends the id of every resting order to its book.         *)
(***************************************************************************)
THEOREM RestingAlwaysRouted == Spec => []RestingIsRouted
<1>1. IInv => RestingIsRouted
  BY DEF IInv
<1> QED
  BY <1>1, AlwaysIInv, PTL

(***************************************************************************)
(* Only the book being matched can be crossed.                             *)
(***************************************************************************)
THEOREM AlwaysUncrossedAtRest == Spec => []UncrossedAtRest
<1>1. IInv => UncrossedAtRest
  BY DEF IInv
<1> QED
  BY <1>1, AlwaysIInv, PTL

(***************************************************************************)
(* An order that is filled or cancelled never rests again, although        *)
(* orderSymbolMap keeps routing CANCEL and MODIFY of a filled order to its *)
(* old book.                                                               *)
(***************************************************************************)
THEOREM DeadOrdersStayDead == Spec => DeadStayDead
<1>1. IInv /\ [Next]_vars => [OnlyFreshIdsAppear]_vars
  BY Inductive
<1> QED
  BY <1>1, AlwaysIInv, PTL DEF Spec, DeadStayDead

(***************************************************************************)
(* A book that loses an order has traded, or the order was cancelled.      *)
(***************************************************************************)
LEMMA RemovalHasAReason == IInv /\ [Next]_vars => RemovedForAReason
<1> DEFINE Goal == RemovedForAReason
<1> SUFFICES ASSUME IInv, [Next]_vars
             PROVE  Goal
  OBVIOUS
<1>1. ASSUME \A s \in DOMAIN books :
               DOMAIN books[s].orderMap \subseteq DOMAIN books'[s].orderMap
      PROVE  Goal
  BY <1>1 DEF RemovedForAReason
<1>2. ASSUME NEW symbol \in Symbols, NEW c, matching = NoSymbol,
             books' = Put(books, symbol, c),
             DOMAIN BookOf(symbol).orderMap \subseteq DOMAIN c.orderMap
      PROVE  Goal
  <2>1. \A s \in DOMAIN books :
          DOMAIN books[s].orderMap \subseteq DOMAIN books'[s].orderMap
    BY <1>2 DEF Put, BookOf
  <2> QED
    BY <1>1, <2>1
<1>3. ASSUME UNCHANGED books  PROVE Goal
  BY <1>1, <1>3
<1>4. ASSUME NEW symbol \in Symbols, NEW side \in Side, NEW price \in Prices,
             NEW quantity \in Quantities, NEW timestamp \in Timestamps,
             New(symbol, side, price, quantity, timestamp)
      PROVE  Goal
  <2> DEFINE id == lastOrderId + 1
             b == BookOf(symbol)
             c == AddOrder(b, id, side, price, quantity, timestamp)
  <2>1. matching = NoSymbol /\ id \in OrderIds /\ books' = Put(books, symbol, c)
    BY <1>4 DEF New, ExAddOrder
  <2>2. quantity \in Int /\ lastOrderId \in Nat
    BY ExchangeAssumption DEF IInv, TypeOK
  <2>3. /\ Good(b) /\ Uncrossed(b)
        /\ \A x \in DOMAIN b.orderMap : x \in DOMAIN orderSymbolMap
    BY <2>1, BookOfGood
  <2>4. id \notin DOMAIN b.orderMap
    BY <2>2, <2>3 DEF IInv, RoutedIdsAreUsed
  <2>5. DOMAIN c.orderMap = DOMAIN b.orderMap \cup {id}
    BY <2>1, <2>2, <2>3, <2>4, AddOrderKeeps
  <2> HIDE DEF c, Goal
  <2> QED
    BY <1>2, <2>1, <2>5
<1>5. ASSUME NEW id \in OrderIds, ExCancelOrder(id)
      PROVE  Goal
  <2> DEFINE symbol == orderSymbolMap[id]
             b == BookOf(symbol)
             c == CancelOrder(b, id)
  <2>1. /\ matching = NoSymbol
        /\ id \in DOMAIN orderSymbolMap
        /\ books' = Put(books, symbol, c)
        /\ orderSymbolMap' = Drop(orderSymbolMap, id)
    BY <1>5 DEF ExCancelOrder
  <2>2. symbol \in Symbols
    BY <2>1 DEF IInv, TypeOK, IsMap
  <2>3. Good(b) /\ Uncrossed(b)
    BY <2>1, <2>2, BookOfGood
  <2>4. DOMAIN c.orderMap = DOMAIN b.orderMap \ {id}
    BY <2>3, CancelOrderKeeps
  <2>5. DOMAIN orderSymbolMap' = DOMAIN orderSymbolMap \ {id}
    BY <2>1 DEF Drop, Restrict
  <2> SUFFICES ASSUME NEW s \in DOMAIN books,
                      DOMAIN books[s].orderMap \ DOMAIN books'[s].orderMap # {}
               PROVE  DOMAIN books[s].orderMap \ DOMAIN books'[s].orderMap = {id}
    BY <2>1, <2>5 DEF RemovedForAReason
  <2>6. s = symbol
    BY <2>1 DEF Put
  <2>7. books'[s] = c /\ books[s] = b
    BY <2>1, <2>6 DEF Put, BookOf
  <2> HIDE DEF c, b
  <2> QED
    BY <2>4, <2>7
<1>6. ASSUME NEW id \in OrderIds, NEW symbol \in Symbols, NEW price \in Prices,
             NEW quantity \in Quantities, NEW timestamp \in Timestamps,
             ExModifyOrder(id, symbol, quantity, price, timestamp)
      PROVE  Goal
  <2> DEFINE b == BookOf(symbol)
             c == ModifyOrder(b, id, quantity, price, timestamp)
  <2>1. matching = NoSymbol /\ books' = Put(books, symbol, c)
    BY <1>6 DEF ExModifyOrder
  <2>2. quantity \in Int
    BY ExchangeAssumption
  <2>3. Good(b) /\ Uncrossed(b)
    BY <2>1, BookOfGood
  <2>4. DOMAIN c.orderMap = DOMAIN b.orderMap
    BY <2>2, <2>3, ModifyOrderKeeps
  <2> HIDE DEF c, Goal
  <2> QED
    BY <1>2, <2>1, <2>4
<1>7. CASE ExMatchFill
  <2> DEFINE b == books[matching]
  <2>1. PICK bp, ap : /\ Crosses(b, bp, ap)
                      /\ books' = [books EXCEPT ![matching] = Fill(b, bp, ap)]
    BY <1>7 DEF ExMatchFill
  <2> DEFINE c == Fill(b, bp, ap)
  <2>2. Good(b) /\ matching \in DOMAIN books
    BY <1>7 DEF ExMatchFill, IInv, TypeOK, BooksWellFormed, Good
  <2>3. c.stats.totalTrades = b.stats.totalTrades + 1
    BY <2>1, <2>2, FillKeeps
  <2>4. /\ books'[matching] = c
        /\ \A s \in DOMAIN books \ {matching} : books'[s] = books[s]
    BY <2>1, <2>2
  <2> HIDE DEF c
  <2> QED
    BY <2>3, <2>4 DEF RemovedForAReason
<1> HIDE DEF Goal
<1>8. CASE UNCHANGED vars
  BY <1>3, <1>8 DEF vars
<1>9. ASSUME NEW id \in OrderIds, Cancel(id)  PROVE Goal
  BY <1>3, <1>5, <1>9 DEF Cancel, ExCancelRejected, vars
<1>10. ASSUME NEW id \in OrderIds, NEW symbol \in Symbols, NEW price \in Prices,
              NEW quantity \in Quantities, NEW timestamp \in Timestamps,
              Modify(id, symbol, quantity, price, timestamp)
       PROVE  Goal
  BY <1>3, <1>6, <1>10 DEF Modify, ExModifyRejected
<1>11. CASE ExMatchDone
  BY <1>3, <1>11 DEF ExMatchDone
<1> QED
  BY <1>4, <1>7, <1>8, <1>9, <1>10, <1>11 DEF Next

(***************************************************************************)
(* An order leaves its book only in a step that counts a trade there or    *)
(* that is its own CANCEL: no NEW, MODIFY or refused command loses one.    *)
(***************************************************************************)
THEOREM OnlyCancelsAndTradesRemove == Spec => OnlyCancelOrTradeRemoves
<1>1. IInv /\ [Next]_vars => [RemovedForAReason]_vars
  BY RemovalHasAReason
<1> QED
  BY <1>1, AlwaysIInv, PTL DEF Spec, OnlyCancelOrTradeRemoves
=============================================================================
