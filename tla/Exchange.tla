------------------------------ MODULE Exchange ------------------------------
(***************************************************************************)
(* Class Exchange (exchange.h): one OrderBook per symbol, created by the   *)
(* first order for it, and the map from order id to symbol that CANCEL and *)
(* MODIFY are routed by.  As in OrderBook.tla a command is a handler step  *)
(* followed by the iterations of matchOrders(symbol); "matching" is the    *)
(* symbol that call was given, or NoSymbol between commands.               *)
(***************************************************************************)
EXTENDS BookOps

CONSTANTS
  Symbols,     \* what a command's char symbol[16] can hold
  NoSymbol,
  Quantities,  \* quantities a client may send
  MaxNodes     \* bounds the list nodes allocated in one book

ASSUME ExchangeAssumption ==
  /\ NoSymbol \notin Symbols
  /\ Quantities \subseteq Int
  /\ MaxNodes \in Nat

VARIABLES
  books,           \* symbol -> OrderBook, defined where a book was created
  orderSymbolMap,  \* order id -> symbol
  matching,        \* symbol being matched, or NoSymbol
  lastOrderId      \* history: id of the latest order added

vars == <<books, orderSymbolMap, matching, lastOrderId>>

Init ==
  /\ books = <<>>
  /\ orderSymbolMap = <<>>
  /\ matching = NoSymbol
  /\ lastOrderId = 0

\* books[symbol], which creates the book when there is none.
BookOf(symbol) == IF symbol \in DOMAIN books THEN books[symbol] ELSE EmptyBook

\* FAULT for ExAddOrder: the id is not entered in orderSymbolMap.
ExAddOrderUnrouted(symbol, id, side, price, quantity, timestamp) ==
  /\ matching = NoSymbol
  /\ books' = Put(books, symbol, AddOrder(BookOf(symbol), id, side, price,
                                          quantity, timestamp))
  /\ matching' = symbol
  /\ lastOrderId' = id
  /\ UNCHANGED orderSymbolMap

\* NEW: addOrder, then matchOrders(symbol).
ExAddOrder(symbol, id, side, price, quantity, timestamp) ==
  /\ matching = NoSymbol
  /\ books' = Put(books, symbol, AddOrder(BookOf(symbol), id, side, price,
                                          quantity, timestamp))
  /\ orderSymbolMap' = Put(orderSymbolMap, id, symbol)
  /\ matching' = symbol
  /\ lastOrderId' = id

\* CANCEL of an id the exchange does not know.
ExCancelRejected(id) ==
  /\ matching = NoSymbol
  /\ id \notin DOMAIN orderSymbolMap
  /\ UNCHANGED vars

\* CANCEL: the entry goes even when the book no longer has the order.
ExCancelOrder(id) ==
  /\ matching = NoSymbol
  /\ id \in DOMAIN orderSymbolMap
  /\ LET symbol == orderSymbolMap[id]
     IN  books' = Put(books, symbol, CancelOrder(BookOf(symbol), id))
  /\ orderSymbolMap' = Drop(orderSymbolMap, id)
  /\ UNCHANGED <<matching, lastOrderId>>

\* MODIFY of an unknown id, or naming another symbol than the order's.
ExModifyRejected(id, symbol) ==
  /\ matching = NoSymbol
  /\ id \in DOMAIN orderSymbolMap => orderSymbolMap[id] # symbol
  /\ matching' = symbol
  /\ UNCHANGED <<books, orderSymbolMap, lastOrderId>>

\* FAULT for ExModifyOrder: the book is not matched afterwards.
ExModifyOrderUnmatched(id, symbol, quantity, price, timestamp) ==
  /\ matching = NoSymbol
  /\ id \in DOMAIN orderSymbolMap
  /\ orderSymbolMap[id] = symbol
  /\ books' = Put(books, symbol, ModifyOrder(BookOf(symbol), id, quantity,
                                             price, timestamp))
  /\ UNCHANGED <<orderSymbolMap, matching, lastOrderId>>

\* MODIFY: modifyOrder, then matchOrders(symbol).
ExModifyOrder(id, symbol, quantity, price, timestamp) ==
  /\ matching = NoSymbol
  /\ id \in DOMAIN orderSymbolMap
  /\ orderSymbolMap[id] = symbol
  /\ books' = Put(books, symbol, ModifyOrder(BookOf(symbol), id, quantity,
                                             price, timestamp))
  /\ matching' = symbol
  /\ UNCHANGED <<orderSymbolMap, lastOrderId>>

\* One iteration of the loop of matchOrders(matching).
ExMatchFill ==
  /\ matching \in DOMAIN books
  /\ LET b == books[matching]
     IN  \E bp \in DOMAIN b.levels["BUY"], ap \in DOMAIN b.levels["SELL"] :
           /\ Crosses(b, bp, ap)
           /\ books' = [books EXCEPT ![matching] = Fill(b, bp, ap)]
  /\ UNCHANGED <<orderSymbolMap, matching, lastOrderId>>

\* matchOrders(matching) returns, at once when the symbol has no book.
ExMatchDone ==
  /\ matching # NoSymbol
  /\ matching \in DOMAIN books => Uncrossed(books[matching])
  /\ matching' = NoSymbol
  /\ UNCHANGED <<books, orderSymbolMap, lastOrderId>>

(***************************************************************************)
(* The commands the matching thread may dispatch: ids are fresh for a NEW  *)
(* and arbitrary for the others.                                           *)
(***************************************************************************)
New(symbol, side, price, quantity, timestamp) ==
  /\ lastOrderId + 1 \in OrderIds
  /\ BookOf(symbol).nodes < MaxNodes
  /\ ExAddOrder(symbol, lastOrderId + 1, side, price, quantity, timestamp)

Cancel(id) == ExCancelRejected(id) \/ ExCancelOrder(id)

Modify(id, symbol, quantity, price, timestamp) ==
  /\ BookOf(symbol).nodes < MaxNodes
  /\ \/ ExModifyRejected(id, symbol)
     \/ ExModifyOrder(id, symbol, quantity, price, timestamp)

Next ==
  \/ \E symbol \in Symbols, side \in Side, price \in Prices,
        quantity \in Quantities, timestamp \in Timestamps :
       New(symbol, side, price, quantity, timestamp)
  \/ \E id \in OrderIds : Cancel(id)
  \/ \E id \in OrderIds, symbol \in Symbols, price \in Prices,
        quantity \in Quantities, timestamp \in Timestamps :
       Modify(id, symbol, quantity, price, timestamp)
  \/ ExMatchFill
  \/ ExMatchDone

Fairness == WF_vars(ExMatchFill \/ ExMatchDone)

Spec == Init /\ [][Next]_vars /\ Fairness

-----------------------------------------------------------------------------
(* Type invariant: every created book has the members of class OrderBook. *)
TypeOK ==
  /\ DOMAIN books \subseteq Symbols
  /\ \A s \in DOMAIN books : IsBook(books[s])
  /\ IsMap(orderSymbolMap, OrderIds, Symbols)
  /\ matching \in Symbols \cup {NoSymbol}
  /\ lastOrderId \in Nat

(***************************************************************************)
(* In every book the index, the queues and the levels agree, whatever mix  *)
(* of commands for whatever symbols came before.                           *)
(***************************************************************************)
BooksWellFormed == \A s \in DOMAIN books : WellFormed(books[s])

(***************************************************************************)
(* Every order resting in a book can be reached: orderSymbolMap sends its  *)
(* id to that very book, so CANCEL and MODIFY find it, and no id rests in  *)
(* two books.                                                              *)
(***************************************************************************)
RestingIsRouted ==
  \A s \in DOMAIN books : \A id \in DOMAIN books[s].orderMap :
    id \in DOMAIN orderSymbolMap /\ orderSymbolMap[id] = s

(***************************************************************************)
(* No book is crossed between commands, nor is any book other than the one *)
(* being matched: a MODIFY is matched on the symbol it names, and may      *)
(* change no other book.                                                   *)
(***************************************************************************)
UncrossedAtRest ==
  \A s \in DOMAIN books : s # matching => Uncrossed(books[s])

\* Ids of the orders resting anywhere.
Live == UNION {DOMAIN books[s].orderMap : s \in DOMAIN books}

\* An id that starts to rest is a fresh one.
OnlyFreshIdsAppear == \A id \in Live' \ Live : id > lastOrderId

(***************************************************************************)
(* A filled or cancelled order never comes back: the only id that starts   *)
(* to rest is a fresh one.  (orderSymbolMap keeps the ids of filled orders *)
(* forever, so CANCEL and MODIFY of such an id do reach the book.)         *)
(***************************************************************************)
DeadStayDead == [][OnlyFreshIdsAppear]_vars

\* Orders leave a book in a step that counts a trade there, or as the one
\* order whose entry this CANCEL erases.
RemovedForAReason ==
  \A s \in DOMAIN books :
    LET gone == DOMAIN books[s].orderMap \ DOMAIN books'[s].orderMap
    IN  gone # {} =>
          \/ books'[s].stats.totalTrades = books[s].stats.totalTrades + 1
          \/ \E id \in DOMAIN orderSymbolMap :
               /\ gone = {id}
               /\ DOMAIN orderSymbolMap' = DOMAIN orderSymbolMap \ {id}

(***************************************************************************)
(* An order can leave its book only by a trade or by its own CANCEL; a     *)
(* CANCEL between trades removes one order at most, from one book.         *)
(***************************************************************************)
OnlyCancelOrTradeRemoves == [][RemovedForAReason]_vars
=============================================================================
