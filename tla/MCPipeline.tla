----------------------------- MODULE MCPipeline -----------------------------
(***************************************************************************)
(* Three orders through a ring of one place, two through the mutex queue,  *)
(* and a server session with reports between the orders; the clock makes   *)
(* few steps, so many readings are equal and some are not.                 *)
(***************************************************************************)
EXTENDS Pipeline

MCRounds ==
  << [kind |-> "spsc",  types |-> <<"NEW", "NEW", "NEW">>],
     [kind |-> "mutex", types |-> <<"NEW", "NEW">>],
     [kind |-> "spsc",  types |-> <<"STATS", "NEW", "NEW", "STATS", "NEW">>] >>
=============================================================================
