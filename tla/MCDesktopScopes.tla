--------------------------- MODULE MCDesktopScopes ---------------------------
(* DesktopScopes on its own for TLC, for what does not hold of it.  What     *)
(* holds is checked in MCDesktopFiles.                                       *)
EXTENDS DesktopScopes, TLC

Symmetry == Permutations(Scopes) \cup Permutations(Pages)
=============================================================================
