-------------------------- MODULE TunnelPoolProofs --------------------------
(***************************************************************************)
(* Theorems about TunnelPool, for any addresses, tunnels and connections.  *)
(***************************************************************************)
EXTENDS TunnelPool, TLAPS

LEMMA IInvInit == Init => IInv
  BY DEF Init, IInv, TypeOK, ListenersAccounted

LEMMA LaunchKeeps ==
  ASSUME IInv, NEW p \in Ports, NEW t \in Tunnels, Launch(p, t)
  PROVE  IInv'
  <1> USE DEF IInv
  <1>1. TypeOK'
    BY DEF TypeOK, Launch, Dropped
  <1>2. cancelled \subseteq cancelled' /\ aborting \subseteq aborting' /\ aborting' \subseteq cancelled'
    BY DEF Launch
  <1>3. ListenersAccounted'
    <2> SUFFICES ASSUME NEW q \in Ports
                 PROVE  /\ bound'[q] # None => pool'[q] = bound'[q] \/ bound'[q] \in cancelled' \cap aborting'
                        /\ pool'[q] # None => bound'[q] = pool'[q] \/ pool'[q] \in cancelled'
      BY DEF ListenersAccounted
    <2>1. CASE q = p
      BY <2>1 DEF Launch, TypeOK
    <2>2. CASE q # p
      BY <2>2, <1>2 DEF Launch, TypeOK, ListenersAccounted
    <2>3. QED BY <2>1, <2>2
  <1>4. QED BY <1>1, <1>2, <1>3

LEMMA CloseKeeps ==
  ASSUME IInv, NEW p \in Ports, Close(p)
  PROVE  IInv'
  <1> USE DEF IInv
  <1>1. TypeOK'
    BY DEF TypeOK, Close, Dropped
  <1>2. cancelled \subseteq cancelled' /\ aborting \subseteq aborting' /\ aborting' \subseteq cancelled'
    BY DEF Close
  <1>3. ListenersAccounted'
    <2> SUFFICES ASSUME NEW q \in Ports
                 PROVE  /\ bound'[q] # None => pool'[q] = bound'[q] \/ bound'[q] \in cancelled' \cap aborting'
                        /\ pool'[q] # None => bound'[q] = pool'[q] \/ pool'[q] \in cancelled'
      BY DEF ListenersAccounted
    <2>1. CASE q = p
      <3>1. pool'[q] = None /\ bound'[q] = bound[q]
        BY <2>1 DEF Close, TypeOK
      <3>2. pool[p] \in cancelled' \cap aborting'
        BY DEF Close, Dropped
      <3>3. QED BY <2>1, <3>1, <3>2, <1>2 DEF ListenersAccounted
    <2>2. CASE q # p
      BY <2>2, <1>2 DEF Close, TypeOK, ListenersAccounted
    <2>3. QED BY <2>1, <2>2
  <1>4. QED BY <1>1, <1>2, <1>3

(* A loop that stops leaves no entry that is not cancelled. *)
LEMMA StopKeeps ==
  ASSUME IInv, NEW t \in Tunnels, bound' = Unbound(t), pool' = pool, aborting' = aborting,
         cancelled \subseteq cancelled', t \in cancelled'
  PROVE  ListenersAccounted' /\ aborting' \subseteq cancelled'
  <1> SUFFICES ASSUME NEW q \in Ports
               PROVE  /\ bound'[q] # None => pool'[q] = bound'[q] \/ bound'[q] \in cancelled' \cap aborting'
                      /\ pool'[q] # None => bound'[q] = pool'[q] \/ pool'[q] \in cancelled'
    BY DEF IInv, ListenersAccounted
  <1>1. bound'[q] = IF bound[q] = t THEN None ELSE bound[q]
    BY DEF Unbound
  <1>2. /\ bound[q] # None => pool[q] = bound[q] \/ bound[q] \in cancelled \cap aborting
        /\ pool[q] # None => bound[q] = pool[q] \/ pool[q] \in cancelled
    BY DEF IInv, ListenersAccounted
  <1>3. CASE bound[q] = t
    BY <1>1, <1>2, <1>3
  <1>4. CASE bound[q] # t
    BY <1>1, <1>2, <1>4
  <1>5. QED BY <1>3, <1>4

LEMMA LoopKeeps ==
  ASSUME IInv, NEW t \in Tunnels, Loop(t)
  PROVE  IInv'
  <1>1. TypeOK'
    <2>1. ASSUME NEW l \in Links, Accept(t, l) PROVE TypeOK'
      BY <2>1 DEF IInv, TypeOK, Accept, Step
    <2>2. CASE AcceptFails(t) \/ AbortLands(t)
      BY <2>2 DEF IInv, TypeOK, AcceptFails, AbortLands, Stop, Step, Unbound
    <2>3. CASE SeesCancelled(t)
      BY <2>3 DEF IInv, TypeOK, SeesCancelled, Stop, Step, Unbound, Passed
    <2>4. CASE PassesCheck(t) \/ Spawn(t)
      BY <2>4 DEF IInv, TypeOK, PassesCheck, Spawn, Step, Passed
    <2>5. CASE PeerGone(t)
      BY <2>5 DEF IInv, TypeOK, PeerGone
    <2>6. QED BY <2>1, <2>2, <2>3, <2>4, <2>5 DEF Loop
  <1>2. ListenersAccounted' /\ aborting' \subseteq cancelled'
    <2>1. CASE \/ \E l \in Links : Accept(t, l)
               \/ PassesCheck(t)
               \/ Spawn(t)
      BY <2>1 DEF IInv, ListenersAccounted, Accept, PassesCheck, Spawn
    <2>2. CASE AcceptFails(t)
      BY <2>2, StopKeeps DEF AcceptFails, Stop
    <2>3. CASE SeesCancelled(t)
      BY <2>3, StopKeeps DEF SeesCancelled, Stop
    <2>4. CASE AbortLands(t)
      BY <2>4, StopKeeps DEF AbortLands, Stop, IInv
    <2>5. CASE PeerGone(t)
      BY <2>5 DEF IInv, TypeOK, ListenersAccounted, PeerGone
    <2>6. QED BY <2>1, <2>2, <2>3, <2>4, <2>5 DEF Loop
  <1>3. QED BY <1>1, <1>2 DEF IInv

LEMMA LinkKeeps ==
  ASSUME IInv, NEW l \in Links, Link(l)
  PROVE  IInv'
  <1>1. PICK from, to \in {"connecting", "proxying", "ended"} : Move(l, from, to)
    BY DEF Link, Connect, ConnectFails, ProxyEnds, LinkCancelled
  <1>2. QED BY <1>1 DEF IInv, TypeOK, ListenersAccounted, Move

LEMMA IInvNext == IInv /\ [Next]_vars => IInv'
  <1> SUFFICES ASSUME IInv, [Next]_vars PROVE IInv'
    OBVIOUS
  <1>1. ASSUME NEW p \in Ports, Close(p) PROVE IInv'
    BY <1>1, CloseKeeps
  <1>2. ASSUME NEW p \in Ports, NEW t \in Tunnels, Launch(p, t) PROVE IInv'
    BY <1>2, LaunchKeeps
  <1>3. ASSUME NEW t \in Tunnels, Loop(t) PROVE IInv'
    BY <1>3, LoopKeeps
  <1>4. ASSUME NEW l \in Links, Link(l) PROVE IInv'
    BY <1>4, LinkKeeps
  <1>5. CASE UNCHANGED vars
    BY <1>5 DEF IInv, TypeOK, ListenersAccounted, vars
  <1>6. QED BY <1>1, <1>2, <1>3, <1>4, <1>5 DEF Next

LEMMA Invariance == Spec => []IInv
  BY IInvInit, IInvNext, PTL DEF Spec

-----------------------------------------------------------------------------
(* The state of the pool, the loops and the links is well typed. *)
THEOREM TypeCorrect == Spec => []TypeOK
  <1>1. IInv => TypeOK
    BY DEF IInv
  <1>2. QED BY <1>1, Invariance, PTL

(* No listener and no entry of the pool outlives the other, except while an  *)
(* abort is under way or after a failed accept (tunnel.rs:63-67, 117-126).   *)
THEOREM ListenersAlwaysAccounted == Spec => []ListenersAccounted
  <1>1. IInv => ListenersAccounted
    BY DEF IInv
  <1>2. QED BY <1>1, Invariance, PTL

(* A launch replaces no tunnel that still accepts (daemon.rs:183-203): the   *)
(* bind fails as long as the entry of the address has its listener.          *)
THEOREM LiveIsNeverReplaced == Spec => NeverReplacesLive
  <1> DEFINE Kept == \A p \in Ports :
        pool[p] # None /\ pool'[p] \notin {None, pool[p]} => pool[p] \in cancelled
  <1>1. IInv /\ [Next]_vars => [Kept]_vars
    <2> SUFFICES ASSUME IInv, Next, NEW q \in Ports,
                        pool[q] # None, pool'[q] \notin {None, pool[q]}
                 PROVE  pool[q] \in cancelled
      OBVIOUS
    <2>1. ASSUME NEW p \in Ports, NEW t \in Tunnels, Launch(p, t) PROVE pool[q] \in cancelled
      <3>1. q = p
        BY <2>1 DEF Launch, IInv, TypeOK
      <3>2. QED BY <2>1, <3>1 DEF Launch, IInv, ListenersAccounted
    <2>2. ASSUME NEW p \in Ports, Close(p) PROVE FALSE
      BY <2>2 DEF Close, IInv, TypeOK
    <2>3. ASSUME NEW t \in Tunnels, Loop(t) PROVE FALSE
      BY <2>3 DEF Loop, Accept, AcceptFails, SeesCancelled, PassesCheck, Spawn, AbortLands, PeerGone
    <2>4. ASSUME NEW l \in Links, Link(l) PROVE FALSE
      BY <2>4 DEF Link, Connect, ConnectFails, ProxyEnds, LinkCancelled, Move
    <2>5. QED BY <2>1, <2>2, <2>3, <2>4 DEF Next
  <1>2. QED BY <1>1, Invariance, PTL DEF Spec, NeverReplacesLive
=============================================================================
