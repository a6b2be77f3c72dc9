------------------------------ MODULE MCProxy ------------------------------
(* Proxy on its own for TLC, for what does not hold of it.  What holds is   *)
(* checked in MCPoolAndProxy.                                               *)
EXTENDS Proxy
=============================================================================
