---------------------------- MODULE MCOrderBook ----------------------------
(***************************************************************************)
(* One book: three orders on two prices, with reinsertions, cancels and    *)
(* partial fills.  Quantities include a negative one, which the parser     *)
(* lets through.                                                           *)
(***************************************************************************)
EXTENDS OrderBook

MCQuantities == {-1, 1, 2}
=============================================================================
