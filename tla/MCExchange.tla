----------------------------- MODULE MCExchange -----------------------------
(***************************************************************************)
(* Two symbols, three orders, one tick apart in price.  Quantities include *)
(* a negative one, which the parser lets through.                          *)
(***************************************************************************)
EXTENDS Exchange

MCQuantities == {-1, 1, 2}
=============================================================================
