---------------------------- MODULE ServerProofs ----------------------------
(***************************************************************************)
(* The safety properties of Server.tla, for every set of ids, symbols,     *)
(* prices and quantities, every queue and any number of commands.  What    *)
(* ExchangeProofs.tla proves of the exchange by itself is used here of the *)
(* exchange inside the server: the proofs show that the matching thread    *)
(* gives it no step it does not allow.                                     *)
(***************************************************************************)
EXTENDS Server, SequenceTheorems, TLAPS

\* The exchange again, with its inductive invariant and its theorems.
ExP == INSTANCE ExchangeProofs

-----------------------------------------------------------------------------
(***************************************************************************)
(* The inductive invariant.  Coming lists the commands that have been      *)
(* accepted and not yet dispatched.                                        *)
(***************************************************************************)
Coming == IF net = "push" THEN Append(queue, pending) ELSE queue

\* The matching thread is in matchOrders only when its program counter says so.
MatchingInMatch ==
  /\ eng = "match" <=> matching # NoSymbol
  /\ net = "closed" => eng = "stopped"

\* ids[i] is the latest order id after the first i coming commands: every NEW
\* among them carries the next one, and the main thread goes on from the last.
NumberedInOrder ==
  \E ids \in [0 .. Len(Coming) -> 0 .. nextOrderId - 1] :
    /\ ids[0] = lastOrderId
    /\ ids[Len(Coming)] = nextOrderId - 1
    /\ \A i \in 1 .. Len(Coming) :
         IF Coming[i].type = "NEW"
         THEN ids[i] = ids[i - 1] + 1 /\ Coming[i].orderId = ids[i]
         ELSE ids[i] = ids[i - 1]

Early == net \notin {"clear", "join", "closed"}

\* A command allocates one list node at most, so a book never has more of them
\* than commands were accepted; the final STATS comes on top, and needs none.
NodesAreCounted ==
  \A s \in Symbols :
    /\ Early => Ex!BookOf(s).nodes + Len(Coming) <= accepted
    /\ \A i \in 1 .. Len(Coming) :
         Coming[i].type \in {"NEW", "MODIFY"} =>
           Ex!BookOf(s).nodes + i <= accepted
    /\ Ex!BookOf(s).nodes <= accepted

IInv ==
  /\ TypeOK
  /\ ExP!IInv
  /\ net = "push" => pending \in Command
  /\ accepted <= MaxCommands
  /\ MatchingInMatch
  /\ NumberedInOrder
  /\ NodesAreCounted

-----------------------------------------------------------------------------
(* Ex and ExP are two instances of one exchange: the same state machine. *)

LEMMA SameBooks ==
  /\ \A s : Ex!BookOf(s) = ExP!BookOf(s)
  /\ \A b : Ex!Uncrossed(b) <=> ExP!Uncrossed(b)
<1>1. ASSUME NEW s  PROVE Ex!BookOf(s) = ExP!BookOf(s)
  BY DEF Ex!BookOf, ExP!BookOf, Ex!EmptyBook, ExP!EmptyBook, Ex!Side,
         ExP!Side
<1>2. ASSUME NEW b  PROVE Ex!Uncrossed(b) <=> ExP!Uncrossed(b)
  BY DEF Ex!Uncrossed, ExP!Uncrossed
<1> QED
  BY <1>1, <1>2

LEMMA SameNew ==
  ASSUME NEW symbol, NEW id, NEW side, NEW price, NEW quantity, NEW timestamp
  PROVE  Ex!ExAddOrder(symbol, id, side, price, quantity, timestamp)
           <=> ExP!ExAddOrder(symbol, id, side, price, quantity, timestamp)
BY DEF Ex!ExAddOrder, ExP!ExAddOrder, Ex!BookOf, ExP!BookOf, Ex!EmptyBook,
       ExP!EmptyBook, Ex!Side, ExP!Side, Ex!AddOrder, ExP!AddOrder,
       Ex!NewOrder, ExP!NewOrder, Ex!InsertOrder, ExP!InsertOrder,
       Ex!QueueAt, ExP!QueueAt, Ex!Put, ExP!Put

LEMMA SameCancel ==
  ASSUME NEW id
  PROVE  /\ Ex!ExCancelOrder(id) <=> ExP!ExCancelOrder(id)
         /\ Ex!ExCancelRejected(id) <=> ExP!ExCancelRejected(id)
<1>1. Ex!ExCancelOrder(id) <=> ExP!ExCancelOrder(id)
  BY DEF Ex!ExCancelOrder, ExP!ExCancelOrder, Ex!BookOf, ExP!BookOf,
         Ex!EmptyBook, ExP!EmptyBook, Ex!Side, ExP!Side, Ex!CancelOrder,
         ExP!CancelOrder, Ex!RemoveByLocation, ExP!RemoveByLocation,
         Ex!PlaceOf, ExP!PlaceOf, Ex!EraseAt, ExP!EraseAt, Ex!RemoveAt,
         ExP!RemoveAt, Ex!Forget, ExP!Forget, Ex!Drop, ExP!Drop,
         Ex!Restrict, ExP!Restrict, Ex!Put, ExP!Put
<1>2. Ex!ExCancelRejected(id) <=> ExP!ExCancelRejected(id)
  BY DEF Ex!ExCancelRejected, ExP!ExCancelRejected, Ex!vars, ExP!vars
<1> QED
  BY <1>1, <1>2

LEMMA SameModify ==
  ASSUME NEW id, NEW symbol, NEW quantity, NEW price, NEW timestamp
  PROVE  /\ Ex!ExModifyOrder(id, symbol, quantity, price, timestamp)
              <=> ExP!ExModifyOrder(id, symbol, quantity, price, timestamp)
         /\ Ex!ExModifyRejected(id, symbol) <=> ExP!ExModifyRejected(id, symbol)
<1>1. \A f, k : Ex!Drop(f, k) = ExP!Drop(f, k)
  BY DEF Ex!Drop, ExP!Drop, Ex!Restrict, ExP!Restrict
<1>2. \A q, it : Ex!PlaceOf(q, it) = ExP!PlaceOf(q, it)
  BY DEF Ex!PlaceOf, ExP!PlaceOf
<1>3. \A b, loc : Ex!RemoveByLocation(b, loc) = ExP!RemoveByLocation(b, loc)
  <2>1. \A q, i : Ex!RemoveAt(q, i) = ExP!RemoveAt(q, i)
    BY DEF Ex!RemoveAt, ExP!RemoveAt
  <2>2. \A f, k, v : Ex!Put(f, k, v) = ExP!Put(f, k, v)
    BY DEF Ex!Put, ExP!Put
  <2>3. \A b, s, p, i : Ex!EraseAt(b, s, p, i) = ExP!EraseAt(b, s, p, i)
    BY <1>1, <2>1, <2>2 DEF Ex!EraseAt, ExP!EraseAt
  <2> QED
    BY <1>2, <2>3 DEF Ex!RemoveByLocation, ExP!RemoveByLocation
<1>4. \A b, x : Ex!Forget(b, x) = ExP!Forget(b, x)
  BY <1>1 DEF Ex!Forget, ExP!Forget
<1>5. \A b, o : Ex!InsertOrder(b, o) = ExP!InsertOrder(b, o)
  BY DEF Ex!InsertOrder, ExP!InsertOrder, Ex!QueueAt, ExP!QueueAt,
         Ex!Put, ExP!Put
<1>6. \A b, s, p, i, n : Ex!SetQuantity(b, s, p, i, n) = ExP!SetQuantity(b, s, p, i, n)
  BY DEF Ex!SetQuantity, ExP!SetQuantity
<1>7. ASSUME NEW b
      PROVE  Ex!ModifyOrder(b, id, quantity, price, timestamp) =
               ExP!ModifyOrder(b, id, quantity, price, timestamp)
  BY <1>2, <1>3, <1>4, <1>5, <1>6
     DEF Ex!ModifyOrder, ExP!ModifyOrder, Ex!KeepsPriority, ExP!KeepsPriority,
         Ex!NewOrder, ExP!NewOrder
<1>8. Ex!ExModifyOrder(id, symbol, quantity, price, timestamp)
        <=> ExP!ExModifyOrder(id, symbol, quantity, price, timestamp)
  BY <1>7, SameBooks DEF Ex!ExModifyOrder, ExP!ExModifyOrder, Ex!Put, ExP!Put
<1>9. Ex!ExModifyRejected(id, symbol) <=> ExP!ExModifyRejected(id, symbol)
  BY DEF Ex!ExModifyRejected, ExP!ExModifyRejected
<1> QED
  BY <1>8, <1>9

LEMMA SameMatch ==
  /\ Ex!ExMatchFill <=> ExP!ExMatchFill
  /\ Ex!ExMatchDone <=> ExP!ExMatchDone
<1>1. \A b, s, p, n : Ex!TakeFront(b, s, p, n) = ExP!TakeFront(b, s, p, n)
  BY DEF Ex!TakeFront, ExP!TakeFront, Ex!SetQuantity, ExP!SetQuantity,
         Ex!EraseAt, ExP!EraseAt, Ex!RemoveAt, ExP!RemoveAt,
         Ex!Forget, ExP!Forget, Ex!Drop, ExP!Drop,
         Ex!Restrict, ExP!Restrict, Ex!Put, ExP!Put
<1>2. ASSUME NEW b, NEW bp, NEW ap
      PROVE  Ex!Fill(b, bp, ap) = ExP!Fill(b, bp, ap)
  <2> DEFINE bid == Head(b.levels["BUY"][bp])
             ask == Head(b.levels["SELL"][ap])
             After(c, n) ==
               [c EXCEPT !.stats =
                  [totalOrders |-> @.totalOrders,
                   totalTrades |-> @.totalTrades + 1,
                   totalVolume |-> (@.totalVolume + n) % VolumeModulus]]
             n == Ex!TradeQuantity(bid, ask)
  <2>1. n = ExP!TradeQuantity(bid, ask)
    BY DEF Ex!TradeQuantity, ExP!TradeQuantity
  <2>2. Ex!Fill(b, bp, ap) =
          After(Ex!TakeFront(Ex!TakeFront(b, "BUY", bp, n), "SELL", ap, n), n)
    BY DEF Ex!Fill
  <2>3. ExP!Fill(b, bp, ap) =
          After(ExP!TakeFront(ExP!TakeFront(b, "BUY", bp, n), "SELL", ap, n), n)
    BY <2>1 DEF ExP!Fill
  <2> HIDE DEF n, After
  <2> QED
    BY <1>1, <2>2, <2>3
<1>3. ASSUME NEW b, NEW bp, NEW ap
      PROVE  Ex!Crosses(b, bp, ap) <=> ExP!Crosses(b, bp, ap)
  BY DEF Ex!Crosses, ExP!Crosses, Ex!IsBest, ExP!IsBest
<1>4. ASSUME Ex!ExMatchFill  PROVE ExP!ExMatchFill
  <2>1. PICK bp \in DOMAIN books[matching].levels["BUY"],
             ap \in DOMAIN books[matching].levels["SELL"] :
          /\ Ex!Crosses(books[matching], bp, ap)
          /\ books' = [books EXCEPT ![matching] = Ex!Fill(books[matching], bp, ap)]
    BY <1>4 DEF Ex!ExMatchFill
  <2>2. /\ matching \in DOMAIN books
        /\ UNCHANGED <<orderSymbolMap, matching, lastOrderId>>
    BY <1>4 DEF Ex!ExMatchFill
  <2> QED
    BY <1>2, <1>3, <2>1, <2>2 DEF ExP!ExMatchFill
<1>5. ASSUME ExP!ExMatchFill  PROVE Ex!ExMatchFill
  <2>1. PICK bp \in DOMAIN books[matching].levels["BUY"],
             ap \in DOMAIN books[matching].levels["SELL"] :
          /\ ExP!Crosses(books[matching], bp, ap)
          /\ books' = [books EXCEPT ![matching] = ExP!Fill(books[matching], bp, ap)]
    BY <1>5 DEF ExP!ExMatchFill
  <2>2. /\ matching \in DOMAIN books
        /\ UNCHANGED <<orderSymbolMap, matching, lastOrderId>>
    BY <1>5 DEF ExP!ExMatchFill
  <2> QED
    BY <1>2, <1>3, <2>1, <2>2 DEF Ex!ExMatchFill
<1>6. Ex!ExMatchDone <=> ExP!ExMatchDone
  BY SameBooks DEF Ex!ExMatchDone, ExP!ExMatchDone
<1> QED
  BY <1>4, <1>5, <1>6

LEMMA SameStep == [Ex!Next]_(Ex!vars) => [ExP!Next]_(ExP!vars)
<1>1. ASSUME NEW symbol \in Symbols, NEW side \in Ex!Side, NEW price \in Prices,
             NEW quantity \in Quantities, NEW timestamp \in Timestamps,
             Ex!New(symbol, side, price, quantity, timestamp)
      PROVE  ExP!New(symbol, side, price, quantity, timestamp) /\ side \in ExP!Side
  BY <1>1, SameNew, SameBooks DEF Ex!New, ExP!New, Ex!Side, ExP!Side
<1>2. ASSUME NEW id \in OrderIds, Ex!Cancel(id)
      PROVE  ExP!Cancel(id)
  BY <1>2, SameCancel DEF Ex!Cancel, ExP!Cancel
<1>3. ASSUME NEW id \in OrderIds, NEW symbol \in Symbols, NEW price \in Prices,
             NEW quantity \in Quantities, NEW timestamp \in Timestamps,
             Ex!Modify(id, symbol, quantity, price, timestamp)
      PROVE  ExP!Modify(id, symbol, quantity, price, timestamp)
  BY <1>3, SameModify, SameBooks DEF Ex!Modify, ExP!Modify
<1>4. Ex!vars = ExP!vars /\ (UNCHANGED Ex!vars => UNCHANGED ExP!vars)
  BY DEF Ex!vars, ExP!vars
<1> QED
  BY <1>1, <1>2, <1>3, <1>4, SameMatch DEF Ex!Next, ExP!Next

-----------------------------------------------------------------------------
(* Commands. *)

\* What the matching thread may take a command apart into.
LEMMA CommandFields ==
  ASSUME NEW c \in Command
  PROVE  /\ c.type \in {"NEW", "CANCEL", "MODIFY", "BOOK", "STATS"}
         /\ c.type = "NEW" =>
              /\ c.symbol \in Symbols /\ c.side \in Ex!Side /\ c.price \in Prices
              /\ c.quantity \in Quantities /\ c.timestamp \in Timestamps
              /\ c.orderId \in OrderIds
         /\ c.type = "CANCEL" => c.orderId \in OrderIds
         /\ c.type = "MODIFY" =>
              /\ c.symbol \in Symbols /\ c.price \in Prices
              /\ c.quantity \in Quantities /\ c.timestamp \in Timestamps
              /\ c.orderId \in OrderIds
<1>1. CASE c = FinalStats
  BY <1>1 DEF FinalStats
<1>2. CASE \E line \in {l \in Lines : l.type = "NEW"}, id \in OrderIds,
              t \in Timestamps : c = Stamped(Numbered(line, id), t)
  <2>1. PICK line \in Lines, id \in OrderIds, t \in Timestamps :
          line.type = "NEW" /\ c = Stamped(Numbered(line, id), t)
    BY <1>2
  <2>2. line \in [type : {"NEW"}, side : Ex!Side, symbol : Symbols,
                  quantity : Quantities, price : Prices]
    BY <2>1 DEF Lines
  <2> QED
    BY <2>1, <2>2 DEF Stamped, Numbered, Ex!Put
<1>3. CASE \E line \in {l \in Lines : l.type # "NEW"}, t \in Timestamps :
             c = Stamped(line, t)
  <2>1. PICK line \in Lines, t \in Timestamps :
          line.type # "NEW" /\ c = Stamped(line, t)
    BY <1>3
  <2> QED
    BY <2>1 DEF Lines, Stamped, Ex!Put
<1> QED
  BY <1>1, <1>2, <1>3 DEF Command

\* What processLine makes of a line.
Made(line, id, t) ==
  Stamped(IF line.type = "NEW" THEN Numbered(line, id) ELSE line, t)

LEMMA MadeIsCommand ==
  ASSUME NEW line \in Lines, NEW id, NEW t \in Timestamps,
         line.type = "NEW" => id \in OrderIds
  PROVE  /\ Made(line, id, t) \in Command
         /\ Made(line, id, t).type = line.type
         /\ line.type = "NEW" => Made(line, id, t).orderId = id
<1>1. CASE line.type = "NEW"
  <2>1. Made(line, id, t) = Stamped(Numbered(line, id), t)
    BY <1>1 DEF Made
  <2>2. Made(line, id, t) \in Command
    BY <1>1, <2>1 DEF Command
  <2>3. line \in [type : {"NEW"}, side : Ex!Side, symbol : Symbols,
                  quantity : Quantities, price : Prices]
    BY <1>1 DEF Lines
  <2> QED
    BY <2>1, <2>2, <2>3 DEF Stamped, Numbered, Ex!Put
<1>2. CASE line.type # "NEW"
  <2>1. Made(line, id, t) = Stamped(line, t)
    BY <1>2 DEF Made
  <2>2. Made(line, id, t) \in Command
    BY <1>2, <2>1 DEF Command
  <2>3. Stamped(line, t).type = line.type
    BY DEF Lines, Stamped, Ex!Put
  <2> QED
    BY <1>2, <2>1, <2>2, <2>3
<1> QED
  BY <1>1, <1>2

LEMMA FinalIsCommand == FinalStats \in Command /\ FinalStats.type = "STATS"
BY DEF Command, FinalStats

LEMMA ComingIsSeq ==
  ASSUME IInv
  PROVE  Coming \in Seq(Command) /\ Len(Coming) \in Nat
BY AppendProperties, LenProperties DEF IInv, TypeOK, Coming

-----------------------------------------------------------------------------
(* The initial states, and the steps that leave the commands alone. *)

\* The exchange's share of the types.
LEMMA ExchangeTypes == ExP!IInv => Ex!TypeOK
BY DEF ExP!IInv, ExP!TypeOK, Ex!TypeOK, ExP!IsBook, Ex!IsBook, ExP!SymbolStats,
       Ex!SymbolStats, ExP!IsMap, Ex!IsMap, ExP!Side, Ex!Side, ExP!Order, Ex!Order,
       ExP!OrderLocation, Ex!OrderLocation

LEMMA InitInv == Init => IInv
<1> SUFFICES ASSUME Init PROVE IInv
  OBVIOUS
<1>1. ExP!IInv
  BY ServerAssumption, ExP!InitEstablishes DEF Init, Ex!Init, ExP!Init
<1>2. Coming = <<>> /\ Len(Coming) = 0 /\ lastOrderId = 0 /\ matching = NoSymbol
      /\ nextOrderId = 1 /\ accepted = 0 /\ books = <<>>
  BY DEF Init, Ex!Init, Coming
<1>3. TypeOK
  BY <1>1, ExchangeTypes, ServerAssumption DEF Init, TypeOK
<1>4. NumberedInOrder
  <2> DEFINE ids == [i \in 0 .. 0 |-> 0]
  <2>1. ids \in [0 .. Len(Coming) -> 0 .. nextOrderId - 1] /\ ids[0] = 0
    BY <1>2
  <2>2. ids[Len(Coming)] = nextOrderId - 1 /\ ids[0] = lastOrderId
    BY <1>2, <2>1
  <2>3. 1 .. Len(Coming) = {}
    BY <1>2
  <2> HIDE DEF ids
  <2> QED
    BY <2>1, <2>2, <2>3 DEF NumberedInOrder
<1>5. NodesAreCounted
  <2>1. \A s \in Symbols : Ex!BookOf(s).nodes = 0
    BY <1>2 DEF Ex!BookOf, Ex!EmptyBook
  <2> QED
    BY <1>2, <2>1 DEF NodesAreCounted
<1> QED
  BY <1>1, <1>2, <1>3, <1>4, <1>5, ServerAssumption
     DEF Init, IInv, MatchingInMatch

\* Nothing that the commands or the exchange see changes.
LEMMA AsideStep ==
  ASSUME IInv, UNCHANGED <<exchangeVars, queue, pending, nextOrderId, accepted>>,
         net' \in {"check", "enter", "wait", "lines", "push",
                   "final", "clear", "join", "closed"},
         eng' \in {"check", "pop", "match", "stopped"},
         running' \in BOOLEAN, processed' \in Nat,
         net' = "push" <=> net = "push", Early' => Early,
         eng' = "match" <=> eng = "match",
         net' = "closed" => eng' = "stopped"
  PROVE  IInv'
<1>1. ExP!IInv'
  BY ServerAssumption, ExP!StutterKeeps DEF IInv, ExP!vars, exchangeVars
<1>2. Ex!TypeOK'
  BY <1>1, ExchangeTypes, PTL
<1>3. Coming' = Coming /\ \A s : Ex!BookOf(s)' = Ex!BookOf(s)
  BY DEF Coming, Ex!BookOf, Ex!EmptyBook, exchangeVars
<1>4. TypeOK'
  BY <1>2 DEF IInv, TypeOK, Command
<1>5. NumberedInOrder'
  BY <1>3 DEF IInv, NumberedInOrder, exchangeVars
<1>6. NodesAreCounted'
  BY <1>3 DEF IInv, NodesAreCounted
<1>7. MatchingInMatch'
  BY DEF IInv, MatchingInMatch, exchangeVars
<1> QED
  BY <1>1, <1>4, <1>5, <1>6, <1>7 DEF IInv, Command

LEMMA QuietNetStep ==
  ASSUME IInv,
         \/ NetCheck \/ NetBlock \/ NetEvents \/ NetEpollError \/ NetEventsDone
         \/ ClearRunning \/ Join \/ Signal
  PROVE  IInv'
<1>1. UNCHANGED <<exchangeVars, queue, pending, nextOrderId, accepted, processed, eng>>
  BY DEF NetCheck, NetBlock, NetEvents, NetEpollError, NetEventsDone,
         ClearRunning, Join, Signal, NetGoes
<1>2. /\ net' \in {"check", "enter", "wait", "lines", "push",
                   "final", "clear", "join", "closed"}
      /\ net' = "push" <=> net = "push"
      /\ Early' => Early
      /\ net' = "closed" => eng = "stopped"
  BY DEF NetCheck, NetBlock, NetEvents, NetEpollError, NetEventsDone,
         ClearRunning, Join, Signal, NetGoes, Early, IInv, TypeOK
<1>3. running' \in BOOLEAN
  BY DEF NetCheck, NetBlock, NetEvents, NetEpollError, NetEventsDone,
         ClearRunning, Join, Signal, NetGoes, IInv, TypeOK
<1>4. eng' \in {"check", "pop", "match", "stopped"} /\ processed' \in Nat
  BY <1>1 DEF IInv, TypeOK
<1> QED
  BY <1>1, <1>2, <1>3, <1>4, AsideStep

LEMMA QuietEngStep ==
  ASSUME IInv, EngCheck \/ EngLeave \/ EngYield
  PROVE  IInv'
<1>1. UNCHANGED <<exchangeVars, queue, pending, nextOrderId, accepted, processed,
                  net, running>>
  BY DEF EngCheck, EngLeave, EngYield, EngGoes
<1>2. /\ eng' \in {"check", "pop", "match", "stopped"}
      /\ eng' # "match" /\ eng # "match" /\ eng # "stopped"
  BY DEF EngCheck, EngLeave, EngYield, EngGoes
<1>3. /\ net' \in {"check", "enter", "wait", "lines", "push",
                   "final", "clear", "join", "closed"}
      /\ running' \in BOOLEAN /\ processed' \in Nat
      /\ net' = "push" <=> net = "push"
      /\ Early' => Early
      /\ net' # "closed"
  BY <1>1, <1>2 DEF Early, IInv, TypeOK, MatchingInMatch
<1> QED
  BY <1>1, <1>2, <1>3, AsideStep

-----------------------------------------------------------------------------
(* The steps of the main thread that make and pass on commands. *)

\* The numbering goes on when a command with the right number is added.
LEMMA CommandComes ==
  ASSUME IInv, NEW c, Len(Coming') = Len(Coming) + 1,
         \A i \in 1 .. Len(Coming) : Coming'[i] = Coming[i],
         Coming'[Len(Coming) + 1] = c,
         UNCHANGED lastOrderId,
         c.type = "NEW" => c.orderId = nextOrderId,
         nextOrderId' = IF c.type = "NEW" THEN nextOrderId + 1 ELSE nextOrderId
  PROVE  NumberedInOrder'
<1> DEFINE n == Len(Coming)
<1>1. n \in Nat /\ nextOrderId \in Nat \ {0}
  BY ComingIsSeq DEF IInv, TypeOK
<1>2. PICK ids \in [0 .. n -> 0 .. nextOrderId - 1] :
        /\ ids[0] = lastOrderId
        /\ ids[n] = nextOrderId - 1
        /\ \A i \in 1 .. n :
             IF Coming[i].type = "NEW"
             THEN ids[i] = ids[i - 1] + 1 /\ Coming[i].orderId = ids[i]
             ELSE ids[i] = ids[i - 1]
  BY DEF IInv, NumberedInOrder
<1> DEFINE next == [i \in 0 .. n + 1 |->
                      IF i = n + 1 THEN nextOrderId' - 1 ELSE ids[i]]
<1>3. next \in [0 .. n + 1 -> 0 .. nextOrderId' - 1]
  BY <1>1
<1>4. next[0] = lastOrderId' /\ next[n + 1] = nextOrderId' - 1
  BY <1>1, <1>2
<1>5. \A i \in 1 .. n : next[i] = ids[i] /\ next[i - 1] = ids[i - 1]
  BY <1>1
<1>6. next[(n + 1) - 1] = nextOrderId - 1
  BY <1>1, <1>2
<1> HIDE DEF next
<1>7. ASSUME NEW i \in 1 .. n + 1
      PROVE  IF Coming'[i].type = "NEW"
             THEN next[i] = next[i - 1] + 1 /\ Coming'[i].orderId = next[i]
             ELSE next[i] = next[i - 1]
  <2>1. CASE i = n + 1
    BY <1>1, <1>4, <1>6, <2>1
  <2>2. CASE i # n + 1
    BY <1>1, <1>2, <1>5, <2>2, i \in 1 .. n
  <2> QED
    BY <2>1, <2>2
<1> QED
  BY <1>3, <1>4, <1>7 DEF NumberedInOrder

LEMMA ProcessLineStep ==
  ASSUME IInv, NEW line \in Lines, NEW t \in Timestamps, ProcessLine(line, t)
  PROVE  IInv'
<1> DEFINE made == Made(line, nextOrderId, t)
<1>1. /\ net = "lines" /\ net' = "push" /\ pending' = made
      /\ accepted < MaxCommands /\ accepted' = accepted + 1
      /\ UNCHANGED <<exchangeVars, eng, queue, running, processed>>
      /\ IF line.type = "NEW"
         THEN nextOrderId \in OrderIds /\ nextOrderId' = nextOrderId + 1
         ELSE nextOrderId' = nextOrderId
  BY DEF ProcessLine, TakesId, Made
<1>2. /\ made \in Command /\ made.type = line.type
      /\ made.type = "NEW" => made.orderId = nextOrderId
  BY <1>1, MadeIsCommand
<1> HIDE DEF made
<1>3. nextOrderId \in Nat \ {0} /\ accepted \in Nat /\ MaxCommands \in Nat
  BY ServerAssumption DEF IInv, TypeOK
<1>4. ExP!IInv' /\ Ex!TypeOK'
  <2>1. ExP!IInv'
    BY <1>1, ServerAssumption, ExP!StutterKeeps DEF IInv, ExP!vars, exchangeVars
  <2> QED
    BY <2>1, ExchangeTypes, PTL
<1>5. TypeOK'
  BY <1>1, <1>2, <1>3, <1>4 DEF IInv, TypeOK, Command
<1>6. pending' \in Command /\ accepted' <= MaxCommands
  BY <1>1, <1>2, <1>3
<1>7. MatchingInMatch'
  BY <1>1 DEF IInv, MatchingInMatch, exchangeVars
<1> DEFINE n == Len(Coming)
<1>8. /\ Coming \in Seq(Command) /\ n \in Nat
      /\ Len(Coming') = n + 1
      /\ \A i \in 1 .. n : Coming'[i] = Coming[i]
      /\ Coming'[n + 1] = made
  <2>1. Coming = queue /\ Coming' = Append(queue, made)
    BY <1>1 DEF Coming
  <2> QED
    BY <1>2, <2>1, ComingIsSeq, AppendProperties
<1>9. NumberedInOrder'
  <2>1. UNCHANGED lastOrderId
    BY <1>1 DEF exchangeVars
  <2> QED
    BY <1>1, <1>2, <1>8, <2>1, CommandComes
<1>10. NodesAreCounted'
  <2> SUFFICES ASSUME NEW s \in Symbols
               PROVE  /\ Ex!BookOf(s)'.nodes + Len(Coming') <= accepted'
                      /\ \A i \in 1 .. Len(Coming') :
                           Ex!BookOf(s)'.nodes + i <= accepted'
                      /\ Ex!BookOf(s)'.nodes <= accepted'
    BY DEF NodesAreCounted
  <2>1. Ex!BookOf(s)' = Ex!BookOf(s) /\ Early
    BY <1>1 DEF Ex!BookOf, Ex!EmptyBook, Early, exchangeVars
  <2>2. Ex!BookOf(s).nodes \in Nat /\ Ex!BookOf(s).nodes + n <= accepted
    BY <2>1 DEF IInv, NodesAreCounted, TypeOK, Ex!TypeOK, Ex!IsBook, Ex!BookOf,
                Ex!EmptyBook
  <2> QED
    BY <1>1, <1>3, <1>8, <2>1, <2>2
<1> QED
  BY <1>4, <1>5, <1>6, <1>7, <1>9, <1>10 DEF IInv, Command

LEMMA PushStep ==
  ASSUME IInv, Push
  PROVE  IInv'
<1>1. /\ net = "push" /\ net' = "lines" /\ Len(queue) < QueueBound
      /\ queue' = Append(queue, pending) /\ pending' = NoCommand
      /\ UNCHANGED <<exchangeVars, eng, nextOrderId, running, accepted, processed>>
  BY DEF Push, HasRoom
<1>2. pending \in Command /\ queue \in Seq(Command) /\ QueueBound \in Nat
  BY <1>1, ServerAssumption DEF IInv, TypeOK
<1>3. queue' \in Seq(Command) /\ Len(queue') <= QueueBound
  BY <1>1, <1>2, AppendProperties, LenProperties
<1>4. ExP!IInv' /\ Ex!TypeOK'
  <2>1. ExP!IInv'
    BY <1>1, ServerAssumption, ExP!StutterKeeps DEF IInv, ExP!vars, exchangeVars
  <2> QED
    BY <2>1, ExchangeTypes, PTL
<1>5. TypeOK'
  BY <1>1, <1>3, <1>4 DEF IInv, TypeOK, Command
<1>6. Coming' = Coming /\ Early /\ \A s : Ex!BookOf(s)' = Ex!BookOf(s)
  BY <1>1 DEF Coming, Early, Ex!BookOf, Ex!EmptyBook, exchangeVars
<1>7. MatchingInMatch'
  BY <1>1 DEF IInv, MatchingInMatch, exchangeVars
<1>8. NumberedInOrder'
  BY <1>1, <1>6 DEF IInv, NumberedInOrder, exchangeVars
<1>9. NodesAreCounted'
  BY <1>1, <1>6 DEF IInv, NodesAreCounted
<1> QED
  BY <1>1, <1>4, <1>5, <1>7, <1>8, <1>9 DEF IInv

LEMMA FinalPushStep ==
  ASSUME IInv, FinalPush
  PROVE  IInv'
<1>1. /\ net = "final" /\ net' = "clear"
      /\ UNCHANGED <<exchangeVars, eng, pending, nextOrderId, running,
                     accepted, processed>>
      /\ \/ queue' = Append(queue, FinalStats) /\ Len(queue) < QueueBound
         \/ queue' = queue
  BY DEF FinalPush, HasRoom
<1>2. queue \in Seq(Command) /\ Len(queue) \in Nat /\ QueueBound \in Nat
      /\ Len(queue) <= QueueBound
  BY ServerAssumption DEF IInv, TypeOK
<1>3. queue' \in Seq(Command) /\ Len(queue') <= QueueBound
  BY <1>1, <1>2, FinalIsCommand, AppendProperties, LenProperties
<1>4. ExP!IInv' /\ Ex!TypeOK'
  <2>1. ExP!IInv'
    BY <1>1, ServerAssumption, ExP!StutterKeeps DEF IInv, ExP!vars, exchangeVars
  <2> QED
    BY <2>1, ExchangeTypes, PTL
<1>5. TypeOK'
  BY <1>1, <1>3, <1>4 DEF IInv, TypeOK, Command
<1>6. Coming = queue /\ Coming' = queue' /\ ~ Early' /\ UNCHANGED lastOrderId
      /\ \A s : Ex!BookOf(s)' = Ex!BookOf(s)
  BY <1>1 DEF Coming, Early, Ex!BookOf, Ex!EmptyBook, exchangeVars
<1>7. MatchingInMatch'
  BY <1>1 DEF IInv, MatchingInMatch, exchangeVars
<1>8. NumberedInOrder' /\ NodesAreCounted'
  <2>1. CASE queue' = queue
    BY <1>1, <1>6, <2>1 DEF IInv, NumberedInOrder, NodesAreCounted
  <2>2. CASE queue' = Append(queue, FinalStats)
    <3>1. /\ Len(Coming') = Len(Coming) + 1
          /\ \A i \in 1 .. Len(Coming) : Coming'[i] = Coming[i]
          /\ Coming'[Len(Coming) + 1] = FinalStats
      BY <1>2, <1>6, <2>2, FinalIsCommand, AppendProperties
    <3>2. NumberedInOrder'
      BY <1>1, <1>6, <3>1, FinalIsCommand, CommandComes
    <3>3. \A i \in 1 .. Len(Coming') :
            Coming'[i].type \in {"NEW", "MODIFY"} =>
              i \in 1 .. Len(Coming) /\ Coming'[i] = Coming[i]
      BY <1>2, <1>6, <3>1, FinalIsCommand
    <3>4. NodesAreCounted'
      BY <1>1, <1>6, <3>3 DEF IInv, NodesAreCounted
    <3> QED
      BY <3>2, <3>4
  <2> QED
    BY <1>1, <2>1, <2>2
<1> QED
  BY <1>1, <1>4, <1>5, <1>7, <1>8 DEF IInv

-----------------------------------------------------------------------------
(* The steps of the matching thread. *)

\* The command popped is the first that is coming.
LEMMA FirstIsPopped ==
  ASSUME IInv, EngDispatch
  PROVE  LET first == Coming[1]
         IN  /\ first = Head(queue) /\ first \in Command
             /\ Len(Coming) >= 1 /\ Len(Coming') = Len(Coming) - 1
             /\ \A i \in 1 .. Len(Coming) - 1 : Coming'[i] = Coming[i + 1]
             /\ queue' \in Seq(Command) /\ Len(queue') <= QueueBound
<1>1. /\ queue # <<>> /\ queue' = Tail(queue) /\ queue \in Seq(Command)
      /\ net' = net /\ pending' = pending
      /\ Len(queue) \in Nat \ {0} /\ Len(queue) <= QueueBound /\ QueueBound \in Nat
  BY EmptySeq, ServerAssumption DEF EngDispatch, IInv, TypeOK
<1>2. /\ Head(queue) = queue[1] /\ Head(queue) \in Command
      /\ queue' \in Seq(Command) /\ Len(queue') = Len(queue) - 1
      /\ \A i \in 1 .. Len(queue) - 1 : queue'[i] = queue[i + 1]
  BY <1>1, HeadTailProperties
<1>3. CASE net # "push"
  BY <1>1, <1>2, <1>3 DEF Coming
<1>4. CASE net = "push"
  <2>1. pending \in Command
    BY <1>4 DEF IInv
  <2>2. Coming = Append(queue, pending) /\ Coming' = Append(queue', pending)
    BY <1>1, <1>4 DEF Coming
  <2>3. /\ Len(Coming) = Len(queue) + 1
        /\ \A i \in 1 .. Len(queue) : Coming[i] = queue[i]
        /\ Coming[Len(queue) + 1] = pending
    BY <1>1, <2>1, <2>2, AppendProperties
  <2>4. /\ Len(Coming') = Len(queue') + 1
        /\ \A i \in 1 .. Len(queue') : Coming'[i] = queue'[i]
        /\ Coming'[Len(queue') + 1] = pending
    BY <1>2, <2>1, <2>2, AppendProperties
  <2>5. ASSUME NEW i \in 1 .. Len(Coming) - 1  PROVE Coming'[i] = Coming[i + 1]
    <3>0. Len(queue) \in Nat \ {0} /\ i \in 1 .. Len(queue)
      BY <1>1, <2>3
    <3>1. CASE i = Len(queue)
      BY <1>2, <2>3, <2>4, <3>0, <3>1
    <3>2. CASE i # Len(queue)
      <4>1. /\ i \in 1 .. Len(queue) - 1 /\ i + 1 \in 1 .. Len(queue)
            /\ i \in 1 .. Len(queue')
        BY <1>2, <3>0, <3>2
      <4> QED
        BY <1>2, <2>3, <2>4, <4>1
    <3> QED
      BY <3>1, <3>2
  <2> QED
    BY <1>1, <1>2, <2>3, <2>4, <2>5
<1> QED
  BY <1>3, <1>4

\* What the numbering says of the first command.
LEMMA FirstIsNext ==
  ASSUME IInv, Len(Coming) >= 1
  PROVE  /\ Coming[1].type = "NEW" => Coming[1].orderId = lastOrderId + 1
         /\ Coming[1].type \in {"NEW", "MODIFY"} =>
              \A s \in Symbols : Ex!BookOf(s).nodes < MaxNodes
<1>1. Len(Coming) \in Nat /\ 1 \in 1 .. Len(Coming) /\ 1 - 1 = 0
  BY ComingIsSeq
<1>2. Coming[1].type = "NEW" => Coming[1].orderId = lastOrderId + 1
  BY <1>1 DEF IInv, NumberedInOrder
<1>3. ASSUME Coming[1].type \in {"NEW", "MODIFY"}, NEW s \in Symbols
      PROVE  Ex!BookOf(s).nodes < MaxNodes
  <2>1. Ex!BookOf(s).nodes + 1 <= accepted /\ accepted <= MaxCommands
    BY <1>1, <1>3 DEF IInv, NodesAreCounted
  <2>2. Ex!BookOf(s).nodes \in Nat /\ accepted \in Nat
    BY DEF IInv, TypeOK, Ex!TypeOK, Ex!IsBook, Ex!BookOf, Ex!EmptyBook
  <2>3. MaxCommands \in Nat /\ MaxCommands <= MaxNodes /\ MaxNodes \in Nat
    BY ServerAssumption DEF Ex!ExchangeAssumption
  <2> QED
    BY <2>1, <2>2, <2>3
<1> QED
  BY <1>2, <1>3

(***************************************************************************)
(* What the matching thread does with a command is a step of the exchange  *)
(* or none: its number is the next one and its fields are in range.        *)
(***************************************************************************)
LEMMA DispatchIsCommand ==
  ASSUME IInv, EngDispatch
  PROVE  LET first == Coming[1]
         IN  /\ [Ex!Next]_(Ex!vars)
             /\ matching = NoSymbol
             /\ eng' = "match" <=> matching' # NoSymbol
             /\ eng' \in {"match", "check"}
             /\ lastOrderId' =
                  IF first.type = "NEW" THEN first.orderId ELSE lastOrderId
             /\ first.type \notin {"NEW", "MODIFY"} => matching' = NoSymbol
<1> DEFINE first == Coming[1]
<1>1. /\ first = Head(queue) /\ first \in Command /\ Len(Coming) >= 1
  BY FirstIsPopped
<1>2. /\ eng = "pop"
      /\ \/ StartsMatching(first) /\ eng' = "match"
         \/ HandledAtOnce(first) /\ eng' = "check"
  BY <1>1 DEF EngDispatch
<1>3. /\ first.type = "NEW" => first.orderId = lastOrderId + 1
      /\ first.type \in {"NEW", "MODIFY"} =>
           \A s \in Symbols : Ex!BookOf(s).nodes < MaxNodes
  BY <1>1, FirstIsNext
<1>4. matching = NoSymbol /\ NoSymbol \notin Symbols
  BY <1>2, ServerAssumption DEF IInv, MatchingInMatch, Ex!ExchangeAssumption
<1> HIDE DEF first
<1>5. CASE first.type = "NEW"
  <2>1. /\ Ex!ExAddOrder(first.symbol, first.orderId, first.side, first.price,
                         first.quantity, first.timestamp)
        /\ eng' = "match"
    BY <1>2, <1>5 DEF StartsMatching, HandledAtOnce
  <2>2. /\ first.symbol \in Symbols /\ first.side \in Ex!Side
        /\ first.price \in Prices /\ first.quantity \in Quantities
        /\ first.timestamp \in Timestamps /\ first.orderId \in OrderIds
    BY <1>1, <1>5, CommandFields
  <2>3. Ex!New(first.symbol, first.side, first.price, first.quantity,
               first.timestamp)
    BY <1>3, <1>5, <2>1, <2>2 DEF Ex!New
  <2>4. matching' = first.symbol /\ lastOrderId' = first.orderId
    BY <2>1 DEF Ex!ExAddOrder
  <2>5. Ex!Next
    BY <2>2, <2>3 DEF Ex!Next
  <2> QED
    BY <1>4, <1>5, <2>1, <2>2, <2>4, <2>5 DEF first
<1>6. CASE first.type = "MODIFY"
  <2>1. /\ \/ Ex!ExModifyRejected(first.orderId, first.symbol)
           \/ Ex!ExModifyOrder(first.orderId, first.symbol, first.quantity,
                               first.price, first.timestamp)
        /\ eng' = "match"
    BY <1>2, <1>6 DEF StartsMatching, HandledAtOnce
  <2>2. /\ first.symbol \in Symbols /\ first.price \in Prices
        /\ first.quantity \in Quantities
        /\ first.timestamp \in Timestamps /\ first.orderId \in OrderIds
    BY <1>1, <1>6, CommandFields
  <2>3. Ex!Modify(first.orderId, first.symbol, first.quantity, first.price,
                  first.timestamp)
    BY <1>3, <1>6, <2>1, <2>2 DEF Ex!Modify
  <2>4. matching' = first.symbol /\ lastOrderId' = lastOrderId
    BY <2>1 DEF Ex!ExModifyRejected, Ex!ExModifyOrder
  <2>5. Ex!Next
    BY <2>2, <2>3 DEF Ex!Next
  <2> QED
    BY <1>4, <1>6, <2>1, <2>2, <2>4, <2>5 DEF first
<1>7. CASE first.type = "CANCEL"
  <2>1. Ex!Cancel(first.orderId) /\ eng' = "check" /\ first.orderId \in OrderIds
    BY <1>1, <1>2, <1>7, CommandFields DEF StartsMatching, HandledAtOnce
  <2>2. matching' = matching /\ lastOrderId' = lastOrderId
    BY <2>1 DEF Ex!Cancel, Ex!ExCancelRejected, Ex!ExCancelOrder, Ex!vars
  <2>3. Ex!Next
    BY <2>1 DEF Ex!Next
  <2> QED
    BY <1>4, <1>7, <2>1, <2>2, <2>3 DEF first
<1>8. CASE first.type \in {"BOOK", "STATS"}
  <2>1. UNCHANGED exchangeVars /\ eng' = "check"
    BY <1>2, <1>8 DEF StartsMatching, HandledAtOnce
  <2> QED
    BY <1>4, <1>8, <2>1 DEF first, exchangeVars, Ex!vars
<1> QED
  BY <1>1, <1>5, <1>6, <1>7, <1>8, CommandFields

\* What a step of the exchange does to the part of the invariant about it.
LEMMA ExchangeStep ==
  ASSUME IInv, [Ex!Next]_(Ex!vars)
  PROVE  /\ ExP!IInv' /\ Ex!TypeOK'
         /\ \A s \in Symbols :
              LET before == Ex!BookOf(s).nodes
                  after == Ex!BookOf(s)'.nodes
              IN  /\ before \in Nat /\ after \in {before, before + 1}
                  /\ matching # NoSymbol \/ matching' = NoSymbol => after = before
<1>1. [ExP!Next]_(ExP!vars) /\ ExP!IInv
  BY SameStep DEF IInv
<1>2. ExP!IInv'
  BY <1>1, ExP!Inductive, ServerAssumption
<1>3. Ex!TypeOK'
  BY <1>2, ExchangeTypes, PTL
<1>4. ASSUME NEW s \in Symbols
      PROVE  LET before == Ex!BookOf(s).nodes
                 after == Ex!BookOf(s)'.nodes
             IN  /\ before \in Nat /\ after \in {before, before + 1}
                 /\ matching # NoSymbol \/ matching' = NoSymbol => after = before
  <2>1. /\ ExP!NodesAdded(s) \in {0, 1}
        /\ matching # NoSymbol \/ matching' = NoSymbol => ExP!NodesAdded(s) = 0
    BY <1>1, ExP!StepNodes, ServerAssumption
  <2>2. ExP!BookOf(s) = Ex!BookOf(s) /\ ExP!BookOf(s)' = Ex!BookOf(s)'
    <3>1. ExP!BookOf(s) = Ex!BookOf(s)
      BY SameBooks
    <3>2. ExP!BookOf(s)' = Ex!BookOf(s)'
      BY DEF Ex!BookOf, ExP!BookOf, Ex!EmptyBook, ExP!EmptyBook, Ex!Side, ExP!Side
    <3> QED
      BY <3>1, <3>2
  <2>3. Ex!BookOf(s).nodes \in Nat /\ Ex!BookOf(s)'.nodes \in Nat
    BY <1>3 DEF IInv, TypeOK, Ex!TypeOK, Ex!IsBook, Ex!BookOf, Ex!EmptyBook
  <2> QED
    BY <2>1, <2>2, <2>3 DEF ExP!NodesAdded
<1> QED
  BY <1>2, <1>3, <1>4

LEMMA EngDispatchStep ==
  ASSUME IInv, EngDispatch
  PROVE  IInv'
<1> DEFINE first == Coming[1]
           n == Len(Coming)
<1>1. /\ UNCHANGED <<net, pending, nextOrderId, running, accepted>>
      /\ processed' \in {processed, processed + 1} /\ eng = "pop"
  BY DEF EngDispatch
<1>2. /\ n \in Nat /\ n >= 1 /\ Len(Coming') = n - 1
      /\ \A i \in 1 .. n - 1 : Coming'[i] = Coming[i + 1]
      /\ queue' \in Seq(Command) /\ Len(queue') <= QueueBound
  BY FirstIsPopped, ComingIsSeq
<1>3. /\ [Ex!Next]_(Ex!vars) /\ matching = NoSymbol
      /\ eng' = "match" <=> matching' # NoSymbol
      /\ eng' \in {"match", "check"}
      /\ lastOrderId' = IF first.type = "NEW" THEN first.orderId ELSE lastOrderId
      /\ first.type \notin {"NEW", "MODIFY"} => matching' = NoSymbol
  BY DispatchIsCommand
<1>4. ExP!IInv' /\ Ex!TypeOK'
  BY <1>3, ExchangeStep
<1>5. TypeOK'
  <2>1. processed' \in Nat
    BY <1>1 DEF IInv, TypeOK
  <2> QED
    BY <1>1, <1>2, <1>3, <1>4, <2>1 DEF IInv, TypeOK, Command
<1>6. MatchingInMatch'
  BY <1>1, <1>3 DEF IInv, MatchingInMatch
<1>7. NumberedInOrder'
  <2>1. PICK ids \in [0 .. n -> 0 .. nextOrderId - 1] :
          /\ ids[0] = lastOrderId
          /\ ids[n] = nextOrderId - 1
          /\ \A i \in 1 .. n :
               IF Coming[i].type = "NEW"
               THEN ids[i] = ids[i - 1] + 1 /\ Coming[i].orderId = ids[i]
               ELSE ids[i] = ids[i - 1]
    BY DEF IInv, NumberedInOrder
  <2> DEFINE rest == [i \in 0 .. n - 1 |-> ids[i + 1]]
  <2>2. rest \in [0 .. n - 1 -> 0 .. nextOrderId' - 1]
    BY <1>1, <1>2
  <2>3. rest[0] = ids[1] /\ rest[n - 1] = nextOrderId' - 1
    BY <1>1, <1>2, <2>1
  <2>4. ids[1] = lastOrderId'
    BY <1>2, <1>3, <2>1, 1 \in 1 .. n, 1 - 1 = 0
  <2>5. ASSUME NEW i \in 1 .. n - 1
        PROVE  IF Coming'[i].type = "NEW"
               THEN rest[i] = rest[i - 1] + 1 /\ Coming'[i].orderId = rest[i]
               ELSE rest[i] = rest[i - 1]
    <3>1. i + 1 \in 1 .. n /\ (i + 1) - 1 = i /\ Coming'[i] = Coming[i + 1]
      BY <1>2
    <3>2. rest[i] = ids[i + 1] /\ rest[i - 1] = ids[i]
      BY <1>2
    <3> HIDE DEF rest, n
    <3> QED
      BY <2>1, <3>1, <3>2
  <2> HIDE DEF rest
  <2> QED
    BY <1>2, <2>2, <2>3, <2>4, <2>5 DEF NumberedInOrder
<1>8. NodesAreCounted'
  <2> SUFFICES ASSUME NEW s \in Symbols
               PROVE  /\ Early' => Ex!BookOf(s)'.nodes + Len(Coming') <= accepted'
                      /\ \A i \in 1 .. Len(Coming') :
                           Coming'[i].type \in {"NEW", "MODIFY"} =>
                             Ex!BookOf(s)'.nodes + i <= accepted'
                      /\ Ex!BookOf(s)'.nodes <= accepted'
    BY DEF NodesAreCounted
  <2> DEFINE before == Ex!BookOf(s).nodes
             after == Ex!BookOf(s)'.nodes
  <2>1. /\ before \in Nat /\ after \in {before, before + 1}
        /\ first.type \notin {"NEW", "MODIFY"} => after = before
    BY <1>3, ExchangeStep
  <2>2. /\ Early => before + n <= accepted
        /\ \A i \in 1 .. n :
             Coming[i].type \in {"NEW", "MODIFY"} => before + i <= accepted
        /\ before <= accepted
    BY DEF IInv, NodesAreCounted
  <2>3. accepted \in Nat /\ accepted' = accepted
    BY <1>1 DEF IInv, TypeOK
  <2> HIDE DEF before, after, n, first
  <2>4. ASSUME Early'  PROVE after + (n - 1) <= accepted
    <3>1. Early
      BY <1>1, <2>4 DEF Early
    <3>2. before + n <= accepted
      BY <2>2, <3>1
    <3> QED
      BY <1>2, <2>1, <2>3, <3>2
  <2>5. ASSUME NEW i \in 1 .. n - 1, Coming'[i].type \in {"NEW", "MODIFY"}
        PROVE  after + i <= accepted
    <3>1. i + 1 \in 1 .. n /\ Coming'[i] = Coming[i + 1] /\ i \in Nat
      BY <1>2
    <3>2. before + (i + 1) <= accepted
      BY <2>2, <2>5, <3>1
    <3> QED
      BY <1>1, <2>1, <3>1, <3>2 DEF IInv, TypeOK
  <2>6. after <= accepted
    <3>1. CASE first.type \in {"NEW", "MODIFY"}
      <4>1. before + 1 <= accepted
        BY <1>2, <2>2, <3>1, 1 \in 1 .. n DEF first
      <4> QED
        BY <2>1, <4>1 DEF IInv, TypeOK
    <3>2. CASE first.type \notin {"NEW", "MODIFY"}
      BY <2>1, <2>2, <3>2
    <3> QED
      BY <3>1, <3>2
  <2> QED
    BY <1>1, <1>2, <2>4, <2>5, <2>6 DEF after
<1> QED
  BY <1>1, <1>4, <1>5, <1>6, <1>7, <1>8 DEF IInv, Command

LEMMA EngMatchStep ==
  ASSUME IInv, EngMatch
  PROVE  IInv' /\ [Ex!Next]_(Ex!vars)
<1>1. /\ UNCHANGED <<net, queue, pending, nextOrderId, running, accepted>>
      /\ eng = "match" /\ processed' \in {processed, processed + 1}
      /\ \/ Ex!ExMatchFill /\ eng' = "match"
         \/ Ex!ExMatchDone /\ eng' = "check"
  BY DEF EngMatch, AfterFill
<1>2. [Ex!Next]_(Ex!vars)
  BY <1>1 DEF Ex!Next
<1>3. matching # NoSymbol /\ NoSymbol \notin Symbols
  BY <1>1, ServerAssumption DEF IInv, MatchingInMatch, Ex!ExchangeAssumption
<1>4. /\ lastOrderId' = lastOrderId
      /\ eng' = "match" <=> matching' # NoSymbol
      /\ eng' # "stopped"
  BY <1>1, <1>3 DEF Ex!ExMatchFill, Ex!ExMatchDone
<1>5. /\ ExP!IInv' /\ Ex!TypeOK'
      /\ \A s \in Symbols : Ex!BookOf(s)'.nodes = Ex!BookOf(s).nodes
  BY <1>2, <1>3, ExchangeStep
<1>6. Coming' = Coming
  BY <1>1 DEF Coming
<1>7. TypeOK'
  <2>1. processed' \in Nat
    BY <1>1 DEF IInv, TypeOK
  <2> QED
    BY <1>1, <1>5, <2>1 DEF IInv, TypeOK, Command
<1>8. MatchingInMatch'
  BY <1>1, <1>4 DEF IInv, MatchingInMatch
<1>9. NumberedInOrder'
  BY <1>1, <1>4, <1>6 DEF IInv, NumberedInOrder
<1>10. NodesAreCounted'
  BY <1>1, <1>5, <1>6 DEF IInv, NodesAreCounted, Early
<1> QED
  BY <1>1, <1>2, <1>5, <1>7, <1>8, <1>9, <1>10 DEF IInv, Command

-----------------------------------------------------------------------------
(***************************************************************************)
(* Every step keeps the invariant and is one of the exchange or none.      *)
(***************************************************************************)
LEMMA Inductive == IInv /\ [Next]_vars => IInv' /\ [Ex!Next]_(Ex!vars)
<1> SUFFICES ASSUME IInv, [Next]_vars
             PROVE  IInv' /\ [Ex!Next]_(Ex!vars)
  OBVIOUS
<1>0. UNCHANGED exchangeVars => [Ex!Next]_(Ex!vars)
  BY DEF exchangeVars, Ex!vars
<1>1. CASE \/ NetCheck \/ NetBlock \/ NetEvents \/ NetEpollError \/ NetEventsDone
           \/ ClearRunning \/ Join \/ Signal
  <2>1. UNCHANGED exchangeVars
    BY <1>1 DEF NetCheck, NetBlock, NetEvents, NetEpollError, NetEventsDone,
            ClearRunning, Join, Signal, NetGoes
  <2> QED
    BY <1>0, <1>1, <2>1, QuietNetStep
<1>2. CASE EngCheck \/ EngLeave \/ EngYield
  <2>1. UNCHANGED exchangeVars
    BY <1>2 DEF EngCheck, EngLeave, EngYield, EngGoes
  <2> QED
    BY <1>0, <1>2, <2>1, QuietEngStep
<1>3. ASSUME NEW line \in Lines, NEW t \in Timestamps, ProcessLine(line, t)
      PROVE  IInv' /\ UNCHANGED exchangeVars
  BY <1>3, ProcessLineStep DEF ProcessLine
<1>4. CASE Push
  BY <1>0, <1>4, PushStep DEF Push
<1>5. CASE FinalPush
  BY <1>0, <1>5, FinalPushStep DEF FinalPush
<1>6. CASE EngDispatch
  BY <1>6, EngDispatchStep, DispatchIsCommand
<1>7. CASE EngMatch
  BY <1>7, EngMatchStep
<1>8. CASE UNCHANGED vars
  <2>1. UNCHANGED <<exchangeVars, queue, pending, nextOrderId, accepted, processed,
                    net, eng, running>>
    BY <1>8 DEF vars
  <2>2. /\ net' \in {"check", "enter", "wait", "lines", "push",
                     "final", "clear", "join", "closed"}
        /\ eng' \in {"check", "pop", "match", "stopped"}
        /\ running' \in BOOLEAN /\ processed' \in Nat
        /\ net' = "push" <=> net = "push"
        /\ Early' => Early
        /\ eng' = "match" <=> eng = "match"
        /\ net' = "closed" => eng' = "stopped"
    BY <2>1 DEF IInv, TypeOK, MatchingInMatch, Early
  <2> QED
    BY <1>0, <2>1, <2>2, AsideStep
<1> QED
  BY <1>0, <1>1, <1>2, <1>3, <1>4, <1>5, <1>6, <1>7, <1>8
     DEF Next, NetSteps, NetInput, Engine

LEMMA AlwaysIInv == Spec => []IInv
BY InitInv, Inductive, PTL DEF Spec

(***************************************************************************)
(* Both threads, the queue and the exchange keep their types: the queue    *)
(* never holds more than its bound, and only commands.                     *)
(***************************************************************************)
THEOREM ServerTypeCorrect == Spec => []TypeOK
<1>1. IInv => TypeOK
  BY DEF IInv
<1> QED
  BY <1>1, AlwaysIInv, PTL

(***************************************************************************)
(* A shutdown never cuts a command short: when the matching thread has     *)
(* left its loop no book is half matched, and main comes past its join     *)
(* only then.                                                              *)
(***************************************************************************)
THEOREM AlwaysStopsBetweenCommands == Spec => []StopsBetweenCommands
<1>1. ASSUME IInv  PROVE StopsBetweenCommands
  <2>1. ASSUME eng = "stopped"
        PROVE  matching = NoSymbol /\ \A s \in DOMAIN books : Ex!Uncrossed(books[s])
    <3>1. matching = NoSymbol /\ NoSymbol \notin Symbols
      BY <1>1, <2>1, ServerAssumption DEF IInv, MatchingInMatch, Ex!ExchangeAssumption
    <3>2. \A s \in DOMAIN books : s # matching
      BY <1>1, <3>1 DEF IInv, TypeOK, Ex!TypeOK
    <3>3. \A s \in DOMAIN books : ExP!Uncrossed(books[s])
      BY <1>1, <3>2 DEF IInv, ExP!IInv, ExP!UncrossedAtRest
    <3> QED
      BY <3>1, <3>3, SameBooks
  <2> QED
    BY <1>1, <2>1 DEF IInv, MatchingInMatch, StopsBetweenCommands
<1> QED
  BY <1>1, AlwaysIInv, PTL

(***************************************************************************)
(* The safety part of ImplementsExchange: whatever the interleaving of the *)
(* two threads, the exchange sees commands one at a time, each matched to  *)
(* the end, and new orders numbered in the order they are added.           *)
(***************************************************************************)
THEOREM ServerDrivesExchange == Spec => Ex!Init /\ [][Ex!Next]_(Ex!vars)
<1>1. Init => Ex!Init
  BY DEF Init
<1> QED
  BY <1>1, Inductive, AlwaysIInv, PTL DEF Spec

(***************************************************************************)
(* What is proved of the exchange by itself holds in the server: in every  *)
(* book the levels, queues and index agree, every resting order is routed  *)
(* to its book, and only the book being matched may be crossed.            *)
(***************************************************************************)
THEOREM ServerKeepsBooksSound ==
  Spec => [](Ex!BooksWellFormed /\ Ex!RestingIsRouted /\ Ex!UncrossedAtRest)
<1>1. IInv => Ex!BooksWellFormed
  BY DEF IInv, ExP!IInv, ExP!BooksWellFormed, Ex!BooksWellFormed,
         ExP!WellFormed, Ex!WellFormed, ExP!NoEmptyLevel, Ex!NoEmptyLevel,
         ExP!QueuesHoldOwnOrders, Ex!QueuesHoldOwnOrders,
         ExP!QueuesAreFifo, Ex!QueuesAreFifo,
         ExP!IndexCoversQueues, Ex!IndexCoversQueues,
         ExP!IndexPointsToQueues, Ex!IndexPointsToQueues, ExP!Side, Ex!Side
<1>2. IInv => Ex!RestingIsRouted
  BY DEF IInv, ExP!IInv, ExP!RestingIsRouted, Ex!RestingIsRouted
<1>3. IInv => Ex!UncrossedAtRest
  BY SameBooks DEF IInv, ExP!IInv, ExP!UncrossedAtRest, Ex!UncrossedAtRest
<1> QED
  BY <1>1, <1>2, <1>3, AlwaysIInv, PTL
=============================================================================
