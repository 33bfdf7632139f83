------------------------------ MODULE MCServer ------------------------------
(***************************************************************************)
(* A queue of two places and four commands: one is being matched, two wait *)
(* in the full queue and the main thread spins with the fourth.  One       *)
(* symbol and price, so every BUY meets every SELL; routing between        *)
(* symbols is MCExchange's matter.                                         *)
(***************************************************************************)
EXTENDS Server
=============================================================================
