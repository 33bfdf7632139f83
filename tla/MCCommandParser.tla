-------------------------- MODULE MCCommandParser --------------------------
(***************************************************************************)
(* Every command with up to four arguments from a set that has a short     *)
(* word and two long ones alike in their first 15 characters, numbers that *)
(* fit, that are negative or too long, fractions, and a number that runs   *)
(* into a word.                                                            *)
(***************************************************************************)
EXTENDS CommandParser

CONSTANTS aapl, long1, long2, long

MCCut == [w \in {aapl, long1, long2} |-> IF w = aapl THEN aapl ELSE long]

MCTokens ==
  {<<Word(w)>> : w \in DOMAIN MCCut} \cup {<<Number(n)>> : n \in {-1, 1, 9}}
    \cup {<<Number(1), Half>>, <<Half>>, <<Number(2), Word(aapl)>>}

MCLines ==
  {<<>>, <<<<Word(aapl)>>>>} \cup
    {<<<<Word(name)>>>> \o args :
       name \in DOMAIN Arguments,
       args \in UNION {[1 .. n -> MCTokens] : n \in 0 .. 4}}
=============================================================================
