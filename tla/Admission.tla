----------------------------- MODULE Admission -----------------------------
(***************************************************************************)
(* What the gateway promises about simultaneous connections: each belongs  *)
(* to one tunnel, at most PerTunnel of them to the same one, and at most   *)
(* MaxConnections exist at all.  ConnectionGate implements it.             *)
(***************************************************************************)
EXTENDS Naturals, FiniteSets

CONSTANTS Conns, Keys, NoKey, MaxConnections, PerTunnel

VARIABLE live   \* the tunnel each connection belongs to, or NoKey

LiveOn(k) == {c \in Conns : live[c] = k}
AllLive   == {c \in Conns : live[c] # NoKey}

Init == live = [c \in Conns |-> NoKey]

Enter(c, k) ==
  /\ live[c] = NoKey
  /\ Cardinality(LiveOn(k)) < PerTunnel
  /\ Cardinality(AllLive) < MaxConnections
  /\ live' = [live EXCEPT ![c] = k]

Leave(c) ==
  /\ live[c] # NoKey
  /\ live' = [live EXCEPT ![c] = NoKey]

Next == \E c \in Conns : Leave(c) \/ \E k \in Keys : Enter(c, k)

Spec == Init /\ [][Next]_live
=============================================================================
