-------------------------- MODULE DesktopInstances --------------------------
(***************************************************************************)
(* The tunnels of the desktop application (desktop/src/daemon.rs,          *)
(* daemon/api.rs, daemon/workers.rs): the list of instances behind its     *)
(* lock, the handlers that launch and close them, the latency loop that    *)
(* pings a snapshot of them, and pingfall, which drops the ones that did   *)
(* not answer.  Pages act for their own scope; the user may act for any.   *)
(*                                                                         *)
(* Identities stand for the positions in the list: a later one is behind   *)
(* an earlier one.  Tunnels are reduced to who listens where (TunnelPool   *)
(* has their detail), scopes to what remove_scope and pingfall read        *)
(* (DesktopScopes has theirs).  Labels and latencies, which nothing here    *)
(* depends on, are left out.                                               *)
(***************************************************************************)
EXTENDS Naturals

CONSTANTS Scopes,   \* hosts, and the application's own "default-scope"
          Locals,   \* local addresses
          Remotes,  \* remote addresses
          Tasks,    \* slots of concurrent handlers
          MaxId,    \* bound on the instances ever created
          None

ASSUME BoundAssumption == MaxId \in Nat

Ids       == 1 .. MaxId
Requests  == [scope : Scopes, local : Locals, remote : Remotes]
Instances == [id : Ids, scope : Scopes, local : Locals, remote : Remotes]

ASSUME SentinelAssumption ==
  /\ None \notin Instances /\ None \notin Ids
  /\ None \notin Tasks /\ Tasks \cap Ids = {}

VARIABLES instances,  \* ServerState.instances
          born,       \* the last identity given
          listener,   \* per address: the task or the instance that listens, or None
          pc,         \* per task: the await it is at
          req,        \* per task: the request it is working on, or None
          seen,       \* per task: the instance close_instance or the user looked at
          round,      \* what the latency loop has left of its snapshot
          falling,    \* the instance pingfall is about to remove, or None
          scopes      \* hosts of ServerState.scopes

task   == <<pc, req, seen>>
worker == <<round, falling>>
vars   == <<instances, born, listener, task, worker, scopes>>

Init == /\ instances = {} /\ born = 0
        /\ listener = [l \in Locals |-> None]
        /\ pc = [t \in Tasks |-> "idle"] /\ req = [t \in Tasks |-> None]
        /\ seen = [t \in Tasks |-> None]
        /\ round = {} /\ falling = None
        /\ scopes \in SUBSET Scopes

Listed == {i.id : i \in instances}
At(l)  == {i \in instances : i.local = l}
Twins(r) == {i \in instances : i.remote = r.remote /\ i.scope = r.scope}

Wait(t, at, r, id) == /\ pc[t] = "idle"
                      /\ pc' = [pc EXCEPT ![t] = at]
                      /\ req' = [req EXCEPT ![t] = r]
                      /\ seen' = [seen EXCEPT ![t] = id]

Return(t) == /\ pc' = [pc EXCEPT ![t] = "idle"]
             /\ req' = [req EXCEPT ![t] = None]
             /\ seen' = [seen EXCEPT ![t] = None]

(* retain: dropping an instance drops its Tunnel, which keeps the address    *)
(* until its accept loop is aborted (Unbind).                                *)
Keep(kept) == instances' = kept /\ UNCHANGED <<born, listener>>

-----------------------------------------------------------------------------
(* launch_instance, from a page or from the user. *)

(* create_tcp_listener, before the lock: only a free address can be bound. *)
Bind(t, r) ==
  /\ listener[r.local] = None
  /\ Wait(t, "bound", r, None)
  /\ listener' = [listener EXCEPT ![r.local] = t]
  /\ UNCHANGED <<instances, born, worker, scopes>>

(* The local address is taken: by an instance that no longer listens.  The   *)
(* error drops the new listener.                                             *)
LaunchTaken(t) ==
  /\ pc[t] = "bound"
  /\ At(req[t].local) # {}
  /\ listener' = [listener EXCEPT ![req[t].local] = None]
  /\ Return(t)
  /\ UNCHANGED <<instances, born, worker, scopes>>

(* The scope has this remote already: its instance is the answer. *)
LaunchReused(t) ==
  /\ pc[t] = "bound"
  /\ At(req[t].local) = {}
  /\ Twins(req[t]) # {}
  /\ listener' = [listener EXCEPT ![req[t].local] = None]
  /\ Return(t)
  /\ UNCHANGED <<instances, born, worker, scopes>>

Push(t) ==
  /\ pc[t] = "bound"
  /\ born < MaxId
  /\ born' = born + 1
  /\ instances' = instances \cup {[id |-> born + 1, scope |-> req[t].scope,
                                   local |-> req[t].local, remote |-> req[t].remote]}
  /\ listener' = [listener EXCEPT ![req[t].local] = born + 1]
  /\ Return(t)
  /\ UNCHANGED <<worker, scopes>>

LaunchNew_Rebinds(t) == Push(t) /\ Twins(req[t]) = {}   \* plausible bug: trusts bind

LaunchNew(t) == Push(t) /\ At(req[t].local) = {} /\ Twins(req[t]) = {}

-----------------------------------------------------------------------------
(* close_instance: the scope is checked under the lock, then the lock is     *)
(* released and remove_instance takes it again.                              *)
CloseCheck_AnyScope(t, s, i) ==   \* plausible bug: the scope is not compared
  /\ Wait(t, "close", [scope |-> s, local |-> i.local, remote |-> i.remote], i.id)
  /\ UNCHANGED <<instances, born, listener, worker, scopes>>

CloseCheck(t, s, i) ==
  /\ i.scope = s
  /\ Wait(t, "close", [scope |-> s, local |-> i.local, remote |-> i.remote], i.id)
  /\ UNCHANGED <<instances, born, listener, worker, scopes>>

(* remove_instance: by local address, whichever instance has it by now.      *)
(* The user's click on a row is the same, with the row as it was drawn.      *)
RemoveInstance(t) ==
  /\ pc[t] = "close"
  /\ Keep({i \in instances : i.local # req[t].local})
  /\ Return(t)
  /\ UNCHANGED <<worker, scopes>>

(* remove_scope: the scope under one lock, its instances under the other.    *)
(* scopes.write() waits while pingfall holds that lock for reading.          *)
RemoveScope(t, s) ==
  /\ falling = None
  /\ s \in scopes
  /\ scopes' = scopes \ {s}
  /\ Wait(t, "sweep", [scope |-> s], None)
  /\ UNCHANGED <<instances, born, listener, worker>>

Sweep_None(t) == pc[t] = "sweep" /\ Return(t)   \* plausible bug: scopes only
                 /\ UNCHANGED <<instances, born, listener, worker, scopes>>

Sweep(t) ==
  /\ pc[t] = "sweep"
  /\ Keep({i \in instances : i.scope # req[t].scope})
  /\ Return(t)
  /\ UNCHANGED <<worker, scopes>>

(* request_control; scopes.write() waits for pingfall here, too. *)
RequestControl(s) ==
  /\ falling = None
  /\ scopes' = scopes \cup {s}
  /\ UNCHANGED <<instances, born, listener, task, worker>>

-----------------------------------------------------------------------------
(* workers.rs. *)

(* latency_loop: a snapshot, then one ping after the other. *)
StartRound ==
  /\ round = {} /\ falling = None
  /\ instances # {}
  /\ round' = instances
  /\ UNCHANGED <<instances, born, listener, task, falling, scopes>>

(* An answer, or a failure that the scope's features and settings, chosen by *)
(* the site, do not name; or pingfall, which holds scopes.read() while it    *)
(* waits for instances.write().                                              *)
Ping ==
  /\ falling = None
  /\ \E v \in round :
       /\ \A w \in round : v.id <= w.id
       /\ round' = round \ {v}
       /\ \/ falling' = None
          \/ v.scope \in scopes /\ falling' = v
  /\ UNCHANGED <<instances, born, listener, task, scopes>>

(* remove_instance again, with the address the snapshot had. *)
Pingfall ==
  /\ falling # None
  /\ Keep({i \in instances : i.local # falling.local})
  /\ falling' = None
  /\ UNCHANGED <<task, round, scopes>>

-----------------------------------------------------------------------------
(* The accept loop of an instance ends: it was aborted after a removal, or   *)
(* accept() failed and the instance stays listed.                            *)
Unbind(l) ==
  /\ listener[l] \in Ids
  /\ listener' = [listener EXCEPT ![l] = None]
  /\ UNCHANGED <<instances, born, task, worker, scopes>>

(* A page is closed: its handler is dropped where it waits for the lock, and *)
(* with it the listener it has bound.                                        *)
Abandon(t) ==
  /\ pc[t] \in {"bound", "close"}
  /\ listener' = [l \in Locals |-> IF listener[l] = t THEN None ELSE listener[l]]
  /\ Return(t)
  /\ UNCHANGED <<instances, born, worker, scopes>>

Launch(t) == LaunchTaken(t) \/ LaunchReused(t) \/ LaunchNew(t)
Remove(t) == RemoveInstance(t) \/ Sweep(t)

Next == \/ \E t \in Tasks :
             \/ \E r \in Requests : Bind(t, r)
             \/ \E s \in Scopes : RemoveScope(t, s) \/ \E i \in instances : CloseCheck(t, s, i)
             \/ Launch(t) \/ Remove(t) \/ Abandon(t)
        \/ \E s \in Scopes : RequestControl(s)
        \/ StartRound \/ Ping \/ Pingfall
        \/ \E l \in Locals : Unbind(l)

Spec == Init /\ [][Next]_vars
(* Ready tasks are polled, tokio's locks are fair queues, and remove_scope    *)
(* runs for the user, whose task nobody drops.  Nothing makes a page, a user  *)
(* or a remote act.                                                          *)
FairSpec == Spec /\ \A t \in Tasks : WF_vars(Sweep(t))

-----------------------------------------------------------------------------
(* Properties. *)

(* Types of the list, of the handlers' locals and of the latency loop. *)
TypeOK ==
  /\ instances \subseteq Instances /\ born \in 0 .. MaxId
  /\ listener \in [Locals -> {None} \cup Tasks \cup Ids]
  /\ pc \in [Tasks -> {"idle", "bound", "close", "sweep"}]
  /\ req \in [Tasks -> Requests \cup [scope : Scopes] \cup {None}]
  /\ \A t \in Tasks : /\ pc[t] \in {"bound", "close"} => req[t] \in Requests
                      /\ pc[t] = "sweep" => req[t] \in [scope : Scopes]
  /\ seen \in [Tasks -> Ids \cup {None}]
  /\ round \subseteq Instances
  /\ falling \in Instances \cup {None}
  /\ scopes \subseteq Scopes

(* daemon.rs:307-349.  However launches overlap, with each other and with    *)
(* tunnels that died or are being aborted, a local address names at most one *)
(* instance, a scope has a remote at most once, and no instance is listed    *)
(* under an address where another one listens.                               *)
Unambiguous ==
  /\ \A i, j \in instances :
       i.local = j.local \/ (i.scope = j.scope /\ i.remote = j.remote) => i = j
  /\ \A i \in instances : listener[i.local] \notin Ids \ {i.id}

(* daemon.rs:367-418, api.rs:192-219, workers.rs:103-138.  An instance       *)
(* leaves the list because its own scope (or the user) closed it, because    *)
(* its scope was removed, or because it failed a ping itself; the one race   *)
(* left open is that the instance meant had left the list before, and this   *)
(* one was launched at its address.                                          *)
Meant(i, local, id) == local = i.local /\ (id = i.id \/ id \notin Listed)

Cause(i) ==
  \/ \E t \in Tasks :
       \/ /\ pc[t] = "close" /\ pc'[t] = "idle"
          /\ Meant(i, req[t].local, seen[t])
          /\ seen[t] = i.id => req[t].scope = i.scope
       \/ pc[t] = "sweep" /\ pc'[t] = "idle" /\ req[t].scope = i.scope
  \/ falling # None /\ falling' = None /\ Meant(i, falling.local, falling.id)

RemovedForCause == [][\A i \in instances \ instances' : Cause(i)]_vars

(* daemon.rs:393: "Removes the scope `host` and all of its instances": each  *)
(* one that is listed when the scope goes leaves the list, in spite of the   *)
(* launches, closes and pingfalls around the two locks.                      *)
Sweeping(n) ==
  \E i \in instances : i.id = n /\ \E t \in Tasks : pc[t] = "sweep" /\ req[t].scope = i.scope

ScopeSwept == \A n \in Ids : Sweeping(n) ~> n \notin Listed

(* The invariant behind them: identities are given once, an instance that is *)
(* listed has not changed since somebody looked at it, and a listener that   *)
(* is not dead is the one of the instance.                                   *)
Identified ==
  /\ \A i \in instances : i.id <= born
  /\ \A i, j \in instances : i.id = j.id => i = j
  /\ \A l \in Locals : listener[l] \in Ids => listener[l] <= born
  /\ \A t \in Tasks : pc[t] = "bound" => listener[req[t].local] = t

Remembered ==
  /\ \A t \in Tasks : pc[t] = "close" =>
       /\ seen[t] \in 1 .. born
       /\ \A i \in instances :
            i.id = seen[t] => i.local = req[t].local /\ i.scope = req[t].scope
  /\ falling # None =>
       /\ falling.id <= born
       /\ \A i \in instances : i.id = falling.id => i = falling
  /\ \A v \in round : v.id <= born /\ \A i \in instances : i.id = v.id => i = v

IInv == TypeOK /\ Unambiguous /\ Identified /\ Remembered
=============================================================================
