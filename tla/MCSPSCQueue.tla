---------------------------- MODULE MCSPSCQueue ----------------------------
(***************************************************************************)
(* Three slots, so two items inside; pushes enough to go round the ring    *)
(* more than once with the other thread's view a full turn behind.         *)
(***************************************************************************)
EXTENDS SPSCQueue
=============================================================================
