-------------------------- MODULE MCConnectionGate --------------------------
(***************************************************************************)
(* ConnectionGate for TLC: two connections, of one tunnel or of two, which *)
(* may both be proxied and then meet at the audit lock.                    *)
(***************************************************************************)
EXTENDS ConnectionGate
=============================================================================
