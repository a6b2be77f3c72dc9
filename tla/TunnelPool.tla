----------------------------- MODULE TunnelPool -----------------------------
(***************************************************************************)
(* The local side: the daemon's pool of tunnels (cli/daemon.rs), each with *)
(* an accept loop that holds a listener and spawns one task, a link, per   *)
(* connection (tunnel.rs).  The pool's lock makes launch and close one     *)
(* step each; dropping a Tunnel only asks the runtime to abort its loop.   *)
(***************************************************************************)
EXTENDS Naturals

CONSTANTS Ports,     \* local addresses, the keys of the pool
          Tunnels,   \* the tunnels ever launched
          Links,     \* the connections ever accepted
          None       \* model value

ASSUME NoneAssumption == None \notin Tunnels

VARIABLES pool,      \* local address -> tunnel, or None
          bound,     \* local address -> the tunnel whose listener has it, or None
          loop,      \* per tunnel: where its accept loop is
          cancelled, \* the tunnels whose token was cancelled
          aborting,  \* the tunnels whose JoinHandle was aborted
          link,      \* per link: where its task is
          owner      \* per link: the tunnel that accepted it

vars == <<pool, bound, loop, cancelled, aborting, link, owner>>

Init == /\ pool = [p \in Ports |-> None] /\ bound = [p \in Ports |-> None]
        /\ loop = [t \in Tunnels |-> "unborn"]
        /\ cancelled = {} /\ aborting = {}
        /\ link = [l \in Links |-> "unborn"] /\ owner = [l \in Links |-> None]

(* A task that ends closes its listener. *)
Unbound(t) == [p \in Ports |-> IF bound[p] = t THEN None ELSE bound[p]]

(* impl Drop for Tunnel: the tunnel the pool's entry held. *)
Dropped(p) == {pool[p]} \ {None}

-----------------------------------------------------------------------------
(* The management API, under the write lock of the pool. *)
Launch_Reuse(p, t) ==   \* plausible bug: the port may be shared
  /\ loop[t] = "unborn"
  /\ bound' = [bound EXCEPT ![p] = t]
  /\ loop' = [loop EXCEPT ![t] = "accepting"]
  /\ pool' = [pool EXCEPT ![p] = t]
  /\ cancelled' = cancelled \cup Dropped(p)
  /\ aborting' = aborting \cup Dropped(p)
  /\ UNCHANGED <<link, owner>>

(* The bind fails while a listener has the address.  insert() replaces, and  *)
(* drops, an entry whose loop has given up.                                  *)
Launch(p, t) ==
  /\ loop[t] = "unborn"
  /\ bound[p] = None
  /\ bound' = [bound EXCEPT ![p] = t]
  /\ loop' = [loop EXCEPT ![t] = "accepting"]
  /\ pool' = [pool EXCEPT ![p] = t]
  /\ cancelled' = cancelled \cup Dropped(p)
  /\ aborting' = aborting \cup Dropped(p)
  /\ UNCHANGED <<link, owner>>

Close_NoAbort(p) ==   \* plausible bug: Drop cancels the token and no more
  /\ pool[p] # None
  /\ pool' = [pool EXCEPT ![p] = None]
  /\ cancelled' = cancelled \cup Dropped(p)
  /\ UNCHANGED <<bound, loop, aborting, link, owner>>

Close(p) ==
  /\ pool[p] # None
  /\ pool' = [pool EXCEPT ![p] = None]
  /\ cancelled' = cancelled \cup Dropped(p)
  /\ aborting' = aborting \cup Dropped(p)
  /\ UNCHANGED <<bound, loop, link, owner>>

-----------------------------------------------------------------------------
(* The accept loop of a tunnel. *)
Step(t, from, to) == loop[t] = from /\ loop' = [loop EXCEPT ![t] = to]

Stop(t, from) == Step(t, from, "stopped") /\ bound' = Unbound(t)

(* The connection in the loop's hands between accept() and spawn. *)
Passed(t, to) ==
  link' = [l \in Links |-> IF owner[l] = t /\ link[l] = "accepted" THEN to ELSE link[l]]

Accept(t, l) == /\ Step(t, "accepting", "accepted")
                /\ link[l] = "unborn"
                /\ link' = [link EXCEPT ![l] = "accepted"]
                /\ owner' = [owner EXCEPT ![l] = t]
                /\ UNCHANGED <<pool, bound, cancelled, aborting>>

AcceptFails_Keeps(t) ==   \* plausible bug: the loop ends, its token lives on
  /\ Stop(t, "accepting")
  /\ UNCHANGED <<pool, cancelled, aborting, link, owner>>

AcceptFails(t) == /\ Stop(t, "accepting")
                  /\ cancelled' = cancelled \cup {t}
                  /\ UNCHANGED <<pool, aborting, link, owner>>

(* is_cancelled: the loop ends, the new connection and the listener with it. *)
SeesCancelled(t) == /\ t \in cancelled
                    /\ Stop(t, "accepted")
                    /\ Passed(t, "ended")
                    /\ UNCHANGED <<pool, cancelled, aborting, owner>>

PassesCheck(t) == /\ t \notin cancelled
                  /\ Step(t, "accepted", "checked")
                  /\ UNCHANGED <<pool, bound, cancelled, aborting, link, owner>>

Spawn(t) == /\ Step(t, "checked", "accepting")
            /\ Passed(t, "connecting")
            /\ UNCHANGED <<pool, bound, cancelled, aborting, owner>>

(* An abort takes effect where the task waits, in accept(). *)
AbortLands(t) == /\ t \in aborting
                 /\ Stop(t, "accepting")
                 /\ UNCHANGED <<pool, cancelled, aborting, link, owner>>

-----------------------------------------------------------------------------
(* A link: connect_async, which nothing cancels, then proxy. *)
Move(l, from, to) == /\ link[l] = from
                     /\ link' = [link EXCEPT ![l] = to]
                     /\ UNCHANGED <<pool, bound, loop, cancelled, aborting, owner>>

Connect(l) == Move(l, "connecting", "proxying")
ConnectFails(l) == Move(l, "connecting", "ended")
ProxyEnds(l) == Move(l, "proxying", "ended")

LinkCancelled_Orphan(l) ==   \* plausible bug: links run on a token of their own
  FALSE /\ Move(l, "proxying", "ended")

LinkCancelled(l) == owner[l] \in cancelled /\ Move(l, "proxying", "ended")

-----------------------------------------------------------------------------
(* peer_addr().unwrap() on a connection that was reset before it was looked  *)
(* at.  The release profile aborts on a panic: the process and every socket  *)
(* of it are gone.                                                           *)
PeerGone(t) == /\ loop[t] = "accepted"
               /\ pool' = [p \in Ports |-> None] /\ bound' = [p \in Ports |-> None]
               /\ loop' = [u \in Tunnels |-> "stopped"]
               /\ link' = [l \in Links |-> "ended"]
               /\ cancelled' = Tunnels
               /\ UNCHANGED <<aborting, owner>>

Loop(t) == \/ \E l \in Links : Accept(t, l)
           \/ AcceptFails(t) \/ SeesCancelled(t) \/ PassesCheck(t) \/ Spawn(t)
           \/ AbortLands(t) \/ PeerGone(t)

Link(l) == Connect(l) \/ ConnectFails(l) \/ ProxyEnds(l) \/ LinkCancelled(l)

Next == \/ \E p \in Ports : Close(p) \/ \E t \in Tunnels : Launch(p, t)
        \/ \E t \in Tunnels : Loop(t)
        \/ \E l \in Links : Link(l)

Spec == Init /\ [][Next]_vars

(* The runtime polls what is ready and carries out aborts.  Nothing is       *)
(* assumed of the remote, which may never answer connect_async, or of the    *)
(* peers, which may never connect or end.                                    *)
Fairness ==
  /\ \A t \in Tunnels : /\ WF_vars(SeesCancelled(t) \/ PassesCheck(t) \/ Spawn(t))
                        /\ WF_vars(AbortLands(t))
  /\ \A l \in Links : WF_vars(LinkCancelled(l))

FairSpec == Spec /\ Fairness

-----------------------------------------------------------------------------
(* Properties. *)

(* Types of the pool, the loops and the links. *)
TypeOK ==
  /\ pool \in [Ports -> Tunnels \cup {None}] /\ bound \in [Ports -> Tunnels \cup {None}]
  /\ loop \in [Tunnels -> {"unborn", "accepting", "accepted", "checked", "stopped"}]
  /\ cancelled \subseteq Tunnels /\ aborting \subseteq Tunnels
  /\ link \in [Links -> {"unborn", "accepted", "connecting", "proxying", "ended"}]
  /\ owner \in [Links -> Tunnels \cup {None}]

(* No listener outlives its entry in the pool but one being aborted, and no  *)
(* entry outlives its listener but one whose token, and so whose links, are  *)
(* cancelled: daemon.rs:183-203, tunnel.rs:63-67, 117-126.                   *)
ListenersAccounted ==
  \A p \in Ports :
    /\ bound[p] # None => pool[p] = bound[p] \/ bound[p] \in cancelled \cap aborting
    /\ pool[p] # None => bound[p] = pool[p] \/ pool[p] \in cancelled

IInv == TypeOK /\ aborting \subseteq cancelled /\ ListenersAccounted

(* A launch never takes the place of a tunnel that still accepts.            *)
NeverReplacesLive ==
  [][\A p \in Ports :
       pool[p] # None /\ pool'[p] \notin {None, pool[p]} => pool[p] \in cancelled]_vars

(* A connection that is being forwarded ends once its tunnel is closed.      *)
LinksEndAfterClose ==
  \A l \in Links :
    (link[l] = "proxying" /\ owner[l] \in cancelled) ~> link[l] = "ended"

(* The address of a closed tunnel can be bound again in the end.             *)
PortFreed ==
  \A p \in Ports, t \in Tunnels :
    (bound[p] = t /\ pool[p] # t) ~> bound[p] # t
=============================================================================
