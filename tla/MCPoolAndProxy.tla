--------------------------- MODULE MCPoolAndProxy ---------------------------
(***************************************************************************)
(* TunnelPool and Proxy for TLC, side by side: more tunnels than ports, so *)
(* that an address is launched again while the loop and the links of its   *)
(* last tunnel wind down; and two messages in each direction, enough for   *)
(* one to be held while its predecessor is delivered.                      *)
(*                                                                         *)
(* The two share no variable.  Either goes its way while the other is in   *)
(* its initial state, so that both are explored as they are on their own.  *)
(***************************************************************************)
EXTENDS TunnelPool, Proxy

PoolRests  == Init /\ UNCHANGED vars
ProxyRests == ProxyInit /\ UNCHANGED proxyVars
bothVars   == <<vars, proxyVars>>

BothInit == Init /\ ProxyInit

BothNext ==
  \/ \E p \in Ports : \/ Close(p) /\ ProxyRests
                      \/ \E t \in Tunnels : Launch(p, t) /\ ProxyRests
  \/ \E t \in Tunnels : Loop(t) /\ ProxyRests
  \/ \E l \in Links : Link(l) /\ ProxyRests
  \/ \E d \in Sides : \/ Forward(d) /\ PoolRests
                      \/ Produce(d) /\ PoolRests
                      \/ SourceEnds(d) /\ PoolRests
                      \/ SinkBreaks(d) /\ PoolRests
  \/ (Cancelled /\ PoolRests) \/ (Cancel /\ PoolRests)

(* Fairness and ProxyFairness, for the steps that are there. *)
BothSpec ==
  /\ BothInit /\ [][BothNext]_bothVars
  /\ \A t \in Tunnels : /\ WF_vars((SeesCancelled(t) \/ PassesCheck(t) \/ Spawn(t)) /\ ProxyRests)
                        /\ WF_vars(AbortLands(t) /\ ProxyRests)
  /\ \A l \in Links : WF_vars(LinkCancelled(l) /\ ProxyRests)
  /\ WF_proxyVars(Cancelled /\ PoolRests)
  /\ \A d \in Sides : WF_proxyVars((Take(d) \/ SendFails(d) \/ StreamEnds(d)) /\ PoolRests)
=============================================================================
