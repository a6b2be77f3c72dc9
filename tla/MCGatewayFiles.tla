--------------------------- MODULE MCGatewayFiles ---------------------------
(* GatewayFiles for TLC: enough connections to rotate the audit file twice, *)
(* which are interchangeable; at most MaxFiles captures are on disk at once *)
(* (a third one can start when the cleanup has removed one).                *)
EXTENDS GatewayFiles, TLC

ConnSymmetry == Permutations(Conns)
=============================================================================
