------------------------- MODULE MCDesktopInstances -------------------------
(***************************************************************************)
(* DesktopInstances for TLC: two sites and two handlers on two addresses;  *)
(* the third instance takes the address of one that is being closed.       *)
(***************************************************************************)
EXTENDS DesktopInstances, TLC
=============================================================================
