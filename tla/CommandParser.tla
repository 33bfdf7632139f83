---------------------------- MODULE CommandParser ----------------------------
(***************************************************************************)
(* processLine (server.cpp): how a line of text becomes a command.         *)
(*                                                                         *)
(* A line is a sequence of tokens, and a token a sequence of pieces: a     *)
(* word, an integer, or the fraction ".5".  Pieces matter because the      *)
(* stream's extractions do not stop at blanks only: reading an integer     *)
(* from "10.5" takes 10 and leaves ".5" for the next extraction.  Of a     *)
(* number too long for its type the extraction fails; a negative one read  *)
(* into uint64_t wraps.  Prices are counted in halves.  Exponents, and     *)
(* numbers used as symbols of more than 15 digits, are left out.           *)
(***************************************************************************)
EXTENDS Integers, SequencesExt

CONSTANTS
  Lines,      \* the lines that may arrive
  Cut,        \* Cut[w]: the first 15 characters of the word w
  IntMax,     \* int is -IntMax - 1 .. IntMax
  IdModulus,  \* uint64_t is 0 .. IdModulus - 1
  MaxOrders,  \* bounds the orders numbered in one behaviour
  NoLine

Word(w) == [kind |-> "word", val |-> w]
Number(n) == [kind |-> "int", val |-> n]
Half == [kind |-> "half", val |-> 1]

IsPiece(p) ==
  p = Half \/ p.kind = "word" \/ (p.kind = "int" /\ p.val \in Int)

IsToken(token) ==
  /\ token # <<>> /\ token \in Seq(Range(token))
  /\ \A p \in Range(token) : IsPiece(p)

ASSUME ParserAssumption ==
  /\ IntMax \in Nat /\ MaxOrders \in Nat
  /\ IdModulus \in Nat /\ IdModulus > MaxOrders
  /\ \A l \in Lines :
       l \in Seq(Range(l)) /\ \A token \in Range(l) : IsToken(token)

VARIABLES
  line,        \* the line being processed, or NoLine
  pending,     \* the command built from it, or NoCommand
  nextOrderId

parserVars == <<line, pending, nextOrderId>>

NoCommand == [type |-> "none"]

ParserInit == line = NoLine /\ pending = NoCommand /\ nextOrderId = 1

Int32 == -IntMax - 1 .. IntMax
UInt64 == 0 .. IdModulus - 1

-----------------------------------------------------------------------------
(* What one extraction (ss >> x) takes from a token. *)

Extracts(type, token) ==
  LET first == Head(token)
  IN  \/ type = "string"
      \/ type = "int" /\ first.kind = "int" /\ first.val \in Int32
      \/ type = "uint64" /\ first.kind = "int"
           /\ {first.val, -first.val} \cap UInt64 # {}
      \/ type = "double" /\ first.kind \in {"int", "half"}

\* A number with its fraction, in halves, and how many pieces that is.
HasFraction(token) == Len(token) > 1 /\ token[2] = Half
InHalves(token) ==
  LET n == 2 * Head(token).val
  IN  IF Head(token) = Half THEN 1
      ELSE IF ~HasFraction(token) THEN n
      ELSE IF n < 0 THEN n - 1 ELSE n + 1

Value(type, token) ==
  CASE type = "string" -> token
    [] type = "int"    -> Head(token).val
    [] type = "uint64" -> Head(token).val % IdModulus
    [] type = "double" -> InHalves(token)

Left(type, token) ==
  CASE type = "string" -> <<>>
    [] type = "double" /\ Head(token).kind = "int" /\ HasFraction(token)
                       -> SubSeq(token, 3, Len(token))
    [] OTHER           -> Tail(token)

\* The reader: the input left, the values so far, and the stream's state.
Extract(r, type) ==
  IF ~r.ok \/ r.in = <<>> \/ ~Extracts(type, Head(r.in))
  THEN [r EXCEPT !.ok = FALSE]
  ELSE LET left == Left(type, Head(r.in))
       IN  [ok  |-> TRUE,
            out |-> Append(r.out, Value(type, Head(r.in))),
            in  |-> IF left = <<>> THEN Tail(r.in) ELSE <<left>> \o Tail(r.in)]

-----------------------------------------------------------------------------
(* The commands, by what is extracted after their name. *)

\* FAULT for IdType: int orderId.
IdTypeInt == "int"

IdType == "uint64"

Arguments ==
  [BUY    |-> <<"string", "int", "double">>,
   SELL   |-> <<"string", "int", "double">>,
   CANCEL |-> <<IdType>>,
   MODIFY |-> <<IdType, "string", "int", "double">>,
   BOOK   |-> <<"string">>,
   STATS  |-> <<>>]

Known(l) == l # <<>> /\ \E name \in DOMAIN Arguments : Head(l) = <<Word(name)>>
Name(l) == Head(l)[1].val

Extracted(l) ==
  FoldLeft(Extract, [in |-> Tail(l), out |-> <<>>, ok |-> TRUE],
           Arguments[Name(l)])

WellFormed(l) == Known(l) /\ Extracted(l).ok

\* FAULT for SymbolOf: nothing is cut, and no NUL ends the array.
SymbolOfUncut(token) == token

\* strncpy into symbol[16].
SymbolOf(token) ==
  IF Head(token).kind = "word" /\ Len(token) = 1
  THEN <<Word(Cut[Head(token).val])>> ELSE token

Built(name, v) ==
  CASE name \in {"BUY", "SELL"} ->
         [type |-> "NEW", side |-> name, orderId |-> nextOrderId,
          symbol |-> SymbolOf(v[1]), quantity |-> v[2], price |-> v[3]]
    [] name = "CANCEL" -> [type |-> name, orderId |-> v[1]]
    [] name = "MODIFY" ->
         [type |-> name, orderId |-> v[1],
          symbol |-> SymbolOf(v[2]), quantity |-> v[3], price |-> v[4]]
    [] name = "BOOK"   -> [type |-> name, symbol |-> SymbolOf(v[1])]
    [] name = "STATS"  -> [type |-> name]

-----------------------------------------------------------------------------
Arrive ==
  /\ line = NoLine
  /\ nextOrderId <= MaxOrders
  /\ line' \in Lines
  /\ UNCHANGED <<pending, nextOrderId>>

Takes(l) == IF Name(l) \in {"BUY", "SELL"} THEN 1 ELSE 0

Build ==
  /\ line # NoLine /\ pending = NoCommand
  /\ WellFormed(line)
  /\ pending' = Built(Name(line), Extracted(line).out)
  /\ nextOrderId' = nextOrderId + Takes(line)
  /\ UNCHANGED line

\* FAULT for Malformed: the id is taken before the line is known to be good.
MalformedTakingId ==
  /\ line # NoLine /\ pending = NoCommand
  /\ ~WellFormed(line)
  /\ line' = NoLine
  /\ nextOrderId' = nextOrderId + (IF Known(line) THEN Takes(line) ELSE 0)
  /\ UNCHANGED pending

\* "Malformed ..." or "Unknown command": nothing is pushed.
Malformed ==
  /\ line # NoLine /\ pending = NoCommand
  /\ ~WellFormed(line)
  /\ line' = NoLine
  /\ UNCHANGED <<pending, nextOrderId>>

\* spscQueue.push, which is Server.tla's matter.
Push ==
  /\ pending # NoCommand
  /\ pending' = NoCommand
  /\ line' = NoLine
  /\ UNCHANGED nextOrderId

ParserNext == Arrive \/ Build \/ Malformed \/ Push

ParserSpec == ParserInit /\ [][ParserNext]_parserVars

-----------------------------------------------------------------------------
(***************************************************************************)
(* Type invariant.  Whatever the line says, ids fit uint64_t and           *)
(* quantities int.                                                         *)
(***************************************************************************)
ParserTypeOK ==
  /\ line # NoLine => \A i \in DOMAIN line : line[i] # <<>>
  /\ nextOrderId \in 1 .. MaxOrders + 1
  /\ pending # NoCommand =>
       /\ pending.type \in {"NEW", "MODIFY", "CANCEL"} =>
            pending.orderId \in UInt64
       /\ pending.type \in {"NEW", "MODIFY"} =>
            pending.quantity \in Int32 /\ pending.price \in Int

IsSymbol(token) == Len(token) = 1 /\ Head(token).kind = "word"
IsWhole(token, S) ==
  Len(token) = 1 /\ Head(token).kind = "int" /\ Head(token).val \in S
IsPrice(token) ==
  \/ token = <<Half>>
  \/ Head(token).kind = "int" /\ Tail(token) \in {<<>>, <<Half>>}
IsOrder(t) ==
  Len(t) = 3 /\ IsSymbol(t[1]) /\ IsWhole(t[2], Int32) /\ IsPrice(t[3])

\* The lines of "Supported formats" (above processLine), token for token.
Supported(l) ==
  LET t == Tail(l)
  IN  /\ Known(l)
      /\ \/ Name(l) \in {"BUY", "SELL"} /\ IsOrder(t)
         \/ Name(l) = "CANCEL" /\ Len(t) = 1 /\ IsWhole(t[1], UInt64)
         \/ Name(l) = "MODIFY" /\ t # <<>> /\ IsWhole(t[1], UInt64)
              /\ IsOrder(Tail(t))
         \/ Name(l) = "BOOK" /\ Len(t) = 1 /\ IsSymbol(t[1])
         \/ Name(l) = "STATS" /\ t = <<>>

\* An order's symbol, quantity and price are the last three tokens.
Says(l, command) ==
  LET n == Len(l)
      name == Name(l)
  IN  /\ command.type = IF name \in {"BUY", "SELL"} THEN "NEW" ELSE name
      /\ command.type = "NEW" => command.side = name
      /\ name \in {"CANCEL", "MODIFY"} => command.orderId = l[2][1].val
      /\ name \in {"BUY", "SELL", "MODIFY"} =>
           /\ command.symbol = <<Word(Cut[l[n - 2][1].val])>>
           /\ command.quantity = l[n - 1][1].val
           /\ command.price = InHalves(l[n])
      /\ name = "BOOK" => command.symbol = <<Word(Cut[l[2][1].val])>>

(***************************************************************************)
(* A line in a supported format is never rejected, and the command built   *)
(* from it says what the line says, symbols by their first 15 characters.  *)
(***************************************************************************)
SupportedIsUnderstood ==
  [][line # NoLine /\ pending = NoCommand /\ Supported(line) =>
       pending' # NoCommand /\ Says(line, pending')]_parserVars

(***************************************************************************)
(* An id is used up by an accepted BUY or SELL, which carries it, and by   *)
(* nothing else: a line that turns out malformed after any number of good  *)
(* tokens leaves no trace.                                                 *)
(***************************************************************************)
OnlyOrdersTakeIds ==
  [][pending = NoCommand =>
       nextOrderId' = IF pending' # NoCommand /\ pending'.type = "NEW"
                      THEN pending'.orderId + 1 ELSE nextOrderId]_parserVars

(***************************************************************************)
(* The README's "Command Format": "BUY <qty> <price>", "SELL <qty>         *)
(* <price>", "CANCEL <orderId>", "MODIFY <orderId> <qty> <price>",         *)
(* "STATS".  A line in one of these formats is not rejected.               *)
(***************************************************************************)
InReadme(l) ==
  LET t == Tail(l)
      n == Len(t)
      Ends == n >= 2 /\ IsWhole(t[n - 1], Int32) /\ IsPrice(t[n])
  IN  /\ Known(l)
      /\ \/ Name(l) \in {"BUY", "SELL"} /\ n = 2 /\ Ends
         \/ Name(l) = "CANCEL" /\ n = 1 /\ IsWhole(t[1], UInt64)
         \/ Name(l) = "MODIFY" /\ n = 3 /\ IsWhole(t[1], UInt64) /\ Ends
         \/ Name(l) = "STATS" /\ n = 0

ReadmeIsAccepted ==
  [][line # NoLine /\ pending = NoCommand /\ InReadme(line) =>
       pending' # NoCommand]_parserVars
=============================================================================
