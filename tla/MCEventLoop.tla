---------------------------- MODULE MCEventLoop ----------------------------
(***************************************************************************)
(* Two clients, descriptors for both of them, two events per epoll_wait   *)
(* and reads of two bytes: a read takes part of a line, or of two, and may *)
(* or may not be the last of its event; a batch has both clients, or one   *)
(* and the listener.  accept may fail for want of a descriptor at any time.*)
(***************************************************************************)
EXTENDS EventLoop

CONSTANTS c1, c2, a, b

MCStream ==
  (c1 :> <<a, LF, b, LF, a>>) @@ (c2 :> <<b, CR, LF>>)
=============================================================================
