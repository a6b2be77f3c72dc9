------------------------ MODULE DesktopInstancesProofs ------------------------
(***************************************************************************)
(* Proofs about DesktopInstances, for any number of sites, addresses,      *)
(* remotes, handlers and instances; and about EventPump, for buffers of    *)
(* any size and any number of events.                                      *)
(***************************************************************************)
EXTENDS DesktopInstances, EventPump, SequenceTheorems, TLAPS

USE BoundAssumption, SentinelAssumption

(* A step of one of the actions, or none. *)
LEMMA NextCases ==
  ASSUME [Next]_vars
  PROVE  \/ \E t \in Tasks, r \in Requests : Bind(t, r)
         \/ \E t \in Tasks, s \in Scopes : RemoveScope(t, s)
         \/ \E t \in Tasks, s \in Scopes, i \in instances : CloseCheck(t, s, i)
         \/ \E t \in Tasks : \/ LaunchTaken(t) \/ LaunchReused(t) \/ LaunchNew(t)
                             \/ RemoveInstance(t) \/ Sweep(t) \/ Abandon(t)
         \/ \E s \in Scopes : RequestControl(s)
         \/ StartRound \/ Ping \/ Pingfall
         \/ \E l \in Locals : Unbind(l)
         \/ UNCHANGED vars
  BY DEF Next, Launch, Remove

(* What a handler is given, and what it forgets, is well typed. *)
Handlers ==
  /\ pc \in [Tasks -> {"idle", "bound", "close", "sweep"}]
  /\ req \in [Tasks -> Requests \cup [scope : Scopes] \cup {None}]
  /\ \A t \in Tasks : /\ pc[t] \in {"bound", "close"} => req[t] \in Requests
                      /\ pc[t] = "sweep" => req[t] \in [scope : Scopes]
  /\ seen \in [Tasks -> Ids \cup {None}]

LEMMA WaitType ==
  ASSUME Handlers, NEW t \in Tasks, NEW at, NEW r, NEW id \in Ids \cup {None}, Wait(t, at, r, id),
         \/ at \in {"bound", "close"} /\ r \in Requests
         \/ at = "sweep" /\ r \in [scope : Scopes]
  PROVE  Handlers'
  BY DEF Wait, Handlers

LEMMA ReturnType ==
  ASSUME Handlers, NEW t \in Tasks, Return(t)
  PROVE  Handlers'
  BY DEF Return, Handlers

LEMMA TypeInit == Init => TypeOK
  BY DEF Init, TypeOK, Ids

LEMMA TypeStep ==
  ASSUME TypeOK, [Next]_vars
  PROVE  TypeOK'
<1> DEFINE Rest == /\ instances \subseteq Instances /\ born \in 0 .. MaxId
                   /\ listener \in [Locals -> {None} \cup Tasks \cup Ids]
                   /\ round \subseteq Instances
                   /\ falling \in Instances \cup {None}
                   /\ scopes \subseteq Scopes
<1>0. TypeOK <=> Handlers /\ Rest
  BY DEF TypeOK, Handlers
<1>a. TypeOK' <=> Handlers' /\ Rest'
  BY DEF TypeOK, Handlers
<1>b. Handlers /\ Rest
  BY <1>0
<1> HIDE DEF Rest
<1>1. ASSUME NEW t \in Tasks, NEW r \in Requests, Bind(t, r)
      PROVE  Handlers' /\ Rest'
  <2>1. Handlers'
    BY <1>b, <1>1, WaitType DEF Bind
  <2>2. r.local \in Locals
    BY DEF Requests
  <2>3. Rest'
    BY <1>b, <1>1, <2>2 DEF Bind, Rest, worker
  <2>4. QED BY <2>1, <2>3
<1>2. ASSUME NEW t \in Tasks, NEW s \in Scopes, RemoveScope(t, s)
      PROVE  Handlers' /\ Rest'
  <2>1. Handlers'
    BY <1>b, <1>2, WaitType DEF RemoveScope
  <2>2. Rest'
    BY <1>b, <1>2 DEF RemoveScope, Rest, worker
  <2>3. QED BY <2>1, <2>2
<1>3. ASSUME NEW t \in Tasks, NEW s \in Scopes, NEW i \in instances, CloseCheck(t, s, i)
      PROVE  Handlers' /\ Rest'
  <2>1. i \in Instances
    BY <1>b DEF Rest
  <2>2. i.id \in Ids /\ [scope |-> s, local |-> i.local, remote |-> i.remote] \in Requests
    BY <2>1 DEF Instances, Requests
  <2>3. Handlers'
    BY <1>b, <1>3, <2>2, WaitType DEF CloseCheck
  <2>4. Rest'
    BY <1>b, <1>3 DEF CloseCheck, Rest, worker
  <2>5. QED BY <2>3, <2>4
<1>4. ASSUME NEW t \in Tasks, LaunchTaken(t) \/ LaunchReused(t) \/ Abandon(t)
      PROVE  Handlers' /\ Rest'
  <2>1. Handlers'
    BY <1>b, <1>4, ReturnType DEF LaunchTaken, LaunchReused, Abandon
  <2>2. Rest'
    BY <1>b, <1>4 DEF LaunchTaken, LaunchReused, Abandon, Rest, worker
  <2>3. QED BY <2>1, <2>2
<1>5. ASSUME NEW t \in Tasks, LaunchNew(t)
      PROVE  Handlers' /\ Rest'
  <2>1. Push(t) /\ req[t] \in Requests
    BY <1>b, <1>5 DEF LaunchNew, Push, Handlers
  <2>2. Handlers'
    BY <1>b, <2>1, ReturnType DEF Push
  <2>3. born + 1 \in Ids /\ born' \in 0 .. MaxId
    BY <1>b, <2>1 DEF Push, Rest, Ids
  <2>4. [id |-> born + 1, scope |-> req[t].scope,
         local |-> req[t].local, remote |-> req[t].remote] \in Instances
    BY <2>1, <2>3 DEF Requests, Instances
  <2>5. Rest'
    BY <1>b, <2>1, <2>3, <2>4 DEF Push, Rest, worker
  <2>6. QED BY <2>2, <2>5
<1>6. ASSUME NEW t \in Tasks, RemoveInstance(t) \/ Sweep(t)
      PROVE  Handlers' /\ Rest'
  <2>1. Handlers'
    BY <1>b, <1>6, ReturnType DEF RemoveInstance, Sweep
  <2>2. Rest'
    BY <1>b, <1>6 DEF RemoveInstance, Sweep, Keep, Rest, worker
  <2>3. QED BY <2>1, <2>2
<1>7. ASSUME NEW s \in Scopes, RequestControl(s)
      PROVE  Handlers' /\ Rest'
  BY <1>b, <1>7 DEF RequestControl, Handlers, Rest, task, worker
<1>8. CASE StartRound
  BY <1>a, <1>b, <1>8 DEF StartRound, Handlers, Rest, task
<1>9. CASE Ping
  <2>1. PICK v \in round : round' = round \ {v} /\ falling' \in {None, v}
    BY <1>9 DEF Ping
  <2>2. /\ instances' = instances /\ born' = born /\ listener' = listener
        /\ pc' = pc /\ req' = req /\ seen' = seen /\ scopes' = scopes
    BY <1>9 DEF Ping, task
  <2>3. round' \subseteq Instances /\ falling' \in Instances \cup {None}
    BY <1>b, <2>1 DEF Rest
  <2>4. Handlers'
    BY <1>b, <2>2 DEF Handlers
  <2>5. Rest'
    BY <1>b, <2>2, <2>3 DEF Rest
  <2>6. QED BY <1>a, <2>4, <2>5
<1>10. CASE Pingfall
  BY <1>a, <1>b, <1>10 DEF Pingfall, Keep, Handlers, Rest, task
<1>11. ASSUME NEW l \in Locals, Unbind(l)
       PROVE  Handlers' /\ Rest'
  BY <1>b, <1>11 DEF Unbind, Handlers, Rest, task, worker
<1>12. CASE UNCHANGED vars
  BY <1>a, <1>b, <1>12 DEF vars, task, worker, Handlers, Rest
<1>13. QED
  BY <1>a, <1>1, <1>2, <1>3, <1>4, <1>5, <1>6, <1>7, <1>8, <1>9, <1>10, <1>11, <1>12, NextCases

-----------------------------------------------------------------------------
(* An address that was bound has no listener but the one who bound it, and   *)
(* identities are never given twice.                                         *)
LEMMA IdentifiedStep ==
  ASSUME TypeOK, Identified, [Next]_vars
  PROVE  Identified'
<1> USE DEF Ids
<1>1. ASSUME NEW t \in Tasks, NEW r \in Requests, Bind(t, r)
      PROVE  Identified'
  <2>1. r.local \in Locals /\ listener[r.local] = None /\ pc[t] = "idle"
    BY <1>1 DEF Bind, Wait, Requests
  <2>2. /\ instances' = instances /\ born' = born
        /\ listener' = [listener EXCEPT ![r.local] = t]
        /\ pc' = [pc EXCEPT ![t] = "bound"] /\ req' = [req EXCEPT ![t] = r]
    BY <1>1 DEF Bind, Wait
  <2>3. \A u \in Tasks : pc'[u] = "bound" => listener'[req'[u].local] = u
    <3>1. SUFFICES ASSUME NEW u \in Tasks, pc'[u] = "bound"
                   PROVE  listener'[req'[u].local] = u
      OBVIOUS
    <3>2. CASE u = t
      BY <2>1, <2>2, <3>2 DEF TypeOK
    <3>3. CASE u # t
      <4>1. pc[u] = "bound" /\ req'[u] = req[u]
        BY <2>2, <3>1, <3>3 DEF TypeOK
      <4>2. listener[req[u].local] = u /\ u # None
        BY <4>1 DEF Identified
      <4>3. req[u].local # r.local /\ req[u].local \in Locals
        BY <2>1, <4>1, <4>2 DEF TypeOK, Requests
      <4>4. QED BY <2>2, <4>1, <4>2, <4>3 DEF TypeOK
    <3>4. QED BY <3>2, <3>3
  <2>4. \A l \in Locals : listener'[l] \in Ids => listener'[l] <= born
    BY <2>1, <2>2 DEF TypeOK, Identified
  <2>5. QED BY <2>2, <2>3, <2>4 DEF Identified
<1>2. ASSUME NEW t \in Tasks, LaunchTaken(t) \/ LaunchReused(t)
      PROVE  Identified'
  <2>1. /\ instances' = instances /\ born' = born /\ pc[t] = "bound"
        /\ listener' = [listener EXCEPT ![req[t].local] = None]
        /\ pc' = [pc EXCEPT ![t] = "idle"] /\ req' = [req EXCEPT ![t] = None]
    BY <1>2 DEF LaunchTaken, LaunchReused, Return
  <2>2. \A u \in Tasks : pc'[u] = "bound" =>
          u # t /\ pc[u] = "bound" /\ req'[u] = req[u] /\ req[u].local # req[t].local
    BY <2>1 DEF TypeOK, Identified
  <2>3. \A u \in Tasks : pc[u] = "bound" => req[u].local \in Locals
    BY DEF TypeOK, Requests
  <2>4. \A u \in Tasks : pc'[u] = "bound" => listener'[req'[u].local] = u
    BY <2>1, <2>2, <2>3 DEF TypeOK, Identified
  <2>5. \A l \in Locals : listener'[l] \in Ids => listener'[l] <= born
    BY <2>1 DEF TypeOK, Identified
  <2>6. QED BY <2>1, <2>4, <2>5 DEF Identified
<1>3. ASSUME NEW t \in Tasks, LaunchNew(t)
      PROVE  Identified'
  <2>1. /\ pc[t] = "bound" /\ born' = born + 1 /\ born + 1 \in Ids
        /\ instances' = instances \cup {[id |-> born + 1, scope |-> req[t].scope,
                                       local |-> req[t].local, remote |-> req[t].remote]}
        /\ listener' = [listener EXCEPT ![req[t].local] = born + 1]
        /\ pc' = [pc EXCEPT ![t] = "idle"] /\ req' = [req EXCEPT ![t] = None]
    BY <1>3 DEF LaunchNew, Push, Return, TypeOK
  <2>2. \A u \in Tasks : pc'[u] = "bound" =>
          u # t /\ pc[u] = "bound" /\ req'[u] = req[u] /\ req[u].local # req[t].local
    BY <2>1 DEF TypeOK, Identified
  <2>3. \A u \in Tasks : pc[u] = "bound" => req[u].local \in Locals
    BY DEF TypeOK, Requests
  <2>4. \A u \in Tasks : pc'[u] = "bound" => listener'[req'[u].local] = u
    BY <2>1, <2>2, <2>3 DEF TypeOK, Identified
  <2>5. \A l \in Locals : listener'[l] \in Ids => listener'[l] <= born'
    BY <2>1 DEF TypeOK, Identified
  <2>6. \A i \in instances : i.id \in Nat /\ i.id <= born
    BY DEF TypeOK, Instances, Identified
  <2>7. \A i \in instances' : i.id <= born'
    BY <2>1, <2>6 DEF TypeOK
  <2>8. \A i, j \in instances' : i.id = j.id => i = j
    BY <2>1, <2>6 DEF TypeOK, Identified
  <2>9. QED BY <2>4, <2>5, <2>7, <2>8 DEF Identified
<1>4. ASSUME NEW t \in Tasks, Abandon(t)
      PROVE  Identified'
  <2>1. /\ instances' = instances /\ born' = born
        /\ listener' = [l \in Locals |-> IF listener[l] = t THEN None ELSE listener[l]]
        /\ pc' = [pc EXCEPT ![t] = "idle"] /\ req' = [req EXCEPT ![t] = None]
    BY <1>4 DEF Abandon, Return
  <2>2. \A u \in Tasks : pc'[u] = "bound" => u # t /\ pc[u] = "bound" /\ req'[u] = req[u]
    BY <2>1 DEF TypeOK
  <2>3. \A u \in Tasks : pc[u] = "bound" => req[u].local \in Locals
    BY DEF TypeOK, Requests
  <2>4. \A u \in Tasks : pc'[u] = "bound" => listener'[req'[u].local] = u
    BY <2>1, <2>2, <2>3 DEF Identified
  <2>5. \A l \in Locals : listener'[l] \in Ids => listener'[l] <= born
    BY <2>1 DEF Identified
  <2>6. QED BY <2>1, <2>4, <2>5 DEF Identified
<1>5. ASSUME NEW l \in Locals, Unbind(l)
      PROVE  Identified'
  <2>1. /\ instances' = instances /\ born' = born /\ pc' = pc /\ req' = req
        /\ listener[l] \in Ids /\ listener' = [listener EXCEPT ![l] = None]
    BY <1>5 DEF Unbind, task
  <2>2. \A u \in Tasks : pc[u] = "bound" => req[u].local \in Locals \ {l}
    BY <2>1 DEF TypeOK, Requests, Identified
  <2>3. QED BY <2>1, <2>2 DEF TypeOK, Identified
<1>6. ASSUME NEW t \in Tasks,
             \/ RemoveInstance(t) \/ Sweep(t)
             \/ \E s \in Scopes : RemoveScope(t, s) \/ \E i \in instances : CloseCheck(t, s, i)
      PROVE  Identified'
  <2>1. instances' \subseteq instances /\ born' = born /\ listener' = listener
    BY <1>6 DEF RemoveInstance, Sweep, Keep, RemoveScope, CloseCheck
  <2>2. \A u \in Tasks : pc'[u] = "bound" => pc[u] = "bound" /\ req'[u] = req[u]
    BY <1>6 DEF RemoveInstance, Sweep, Return, RemoveScope, CloseCheck, Wait, TypeOK
  <2>3. QED BY <2>1, <2>2 DEF Identified
<1>7. CASE StartRound \/ Ping \/ Pingfall \/ UNCHANGED vars \/ \E s \in Scopes : RequestControl(s)
  <2>1. /\ instances' \subseteq instances /\ born' = born /\ listener' = listener
        /\ pc' = pc /\ req' = req
    BY <1>7 DEF StartRound, Ping, Pingfall, Keep, RequestControl, vars, task
  <2>2. QED BY <2>1 DEF Identified
<1>8. QED BY <1>1, <1>2, <1>3, <1>4, <1>5, <1>6, <1>7, NextCases

-----------------------------------------------------------------------------
(* Only a launch adds to the list, and it looks at the whole list first. *)
LEMMA UnambiguousStep ==
  ASSUME TypeOK, Identified, Unambiguous, [Next]_vars
  PROVE  Unambiguous'
<1>1. ASSUME NEW t \in Tasks, LaunchNew(t)
      PROVE  Unambiguous'
  <2>1. /\ born + 1 \in Ids /\ req[t] \in Requests
        /\ listener' = [listener EXCEPT ![req[t].local] = born + 1]
    BY <1>1 DEF LaunchNew, Push, Return, TypeOK, Ids
  <2>a. PICK new : /\ new.id = born + 1 /\ new.scope = req[t].scope
                   /\ new.local = req[t].local /\ new.remote = req[t].remote
                   /\ instances' = instances \cup {new}
    BY <1>1 DEF LaunchNew, Push
  <2>2. \A i \in instances : /\ i.local # new.local
                             /\ (i.scope # new.scope \/ i.remote # new.remote)
    BY <1>1, <2>a DEF LaunchNew, At, Twins
  <2>3. \A i, j \in instances' :
          i.local = j.local \/ (i.scope = j.scope /\ i.remote = j.remote) => i = j
    <3>1. SUFFICES ASSUME NEW i \in instances', NEW j \in instances',
                          i.local = j.local \/ (i.scope = j.scope /\ i.remote = j.remote)
                   PROVE  i = j
      OBVIOUS
    <3>2. CASE i \in instances /\ j \in instances
      BY <3>1, <3>2 DEF Unambiguous
    <3>3. CASE i = new /\ j \in instances
      BY <2>2, <3>1, <3>3
    <3>4. CASE i \in instances /\ j = new
      BY <2>2, <3>1, <3>4
    <3>5. QED BY <2>a, <3>2, <3>3, <3>4
  <2>4. new.local \in Locals /\ \A i \in instances : i.local \in Locals
    BY <2>1, <2>a DEF TypeOK, Instances, Requests
  <2>5. \A l \in Locals : l # new.local => listener'[l] = listener[l]
    BY <2>1, <2>a DEF TypeOK
  <2>6. listener'[new.local] = new.id
    BY <2>1, <2>4, <2>a DEF TypeOK
  <2>7. \A i \in instances' : listener'[i.local] \notin Ids \ {i.id}
    BY <2>a, <2>2, <2>4, <2>5, <2>6 DEF Unambiguous
  <2>8. QED BY <2>3, <2>7 DEF Unambiguous
<1>2. CASE /\ instances' \subseteq instances
           /\ \A l \in Locals : listener'[l] \in Ids => listener'[l] = listener[l]
  <2>1. \A i \in instances : i.local \in Locals
    BY DEF TypeOK, Instances
  <2>2. QED BY <1>2, <2>1 DEF Unambiguous
<1>3. ASSUME NEW t \in Tasks, NEW r \in Requests, Bind(t, r)
      PROVE  /\ instances' \subseteq instances
             /\ \A l \in Locals : listener'[l] \in Ids => listener'[l] = listener[l]
  BY <1>3 DEF Bind, TypeOK
<1>4. ASSUME NEW t \in Tasks, LaunchTaken(t) \/ LaunchReused(t) \/ Abandon(t)
      PROVE  /\ instances' \subseteq instances
             /\ \A l \in Locals : listener'[l] \in Ids => listener'[l] = listener[l]
  BY <1>4 DEF LaunchTaken, LaunchReused, Abandon, TypeOK
<1>5. ASSUME NEW l \in Locals, Unbind(l)
      PROVE  /\ instances' \subseteq instances
             /\ \A m \in Locals : listener'[m] \in Ids => listener'[m] = listener[m]
  BY <1>5 DEF Unbind, TypeOK
<1>6. ASSUME NEW t \in Tasks,
             \/ RemoveInstance(t) \/ Sweep(t)
             \/ \E s \in Scopes : RemoveScope(t, s) \/ \E i \in instances : CloseCheck(t, s, i)
      PROVE  instances' \subseteq instances /\ listener' = listener
  BY <1>6 DEF RemoveInstance, Sweep, Keep, RemoveScope, CloseCheck
<1>7. CASE StartRound \/ Ping \/ Pingfall \/ UNCHANGED vars \/ \E s \in Scopes : RequestControl(s)
  <2>1. instances' \subseteq instances /\ listener' = listener
    BY <1>7 DEF StartRound, Ping, Pingfall, Keep, RequestControl, vars
  <2>2. QED BY <1>2, <2>1
<1>8. QED BY <1>1, <1>2, <1>3, <1>4, <1>5, <1>6, <1>7, NextCases

-----------------------------------------------------------------------------
(* What a handler or the latency loop remembers of an instance stays true of *)
(* it as long as it is listed, because identities are new at every launch.   *)
Closing(t) ==
  /\ seen[t] \in 1 .. born
  /\ \A i \in instances :
       i.id = seen[t] => i.local = req[t].local /\ i.scope = req[t].scope

Known(v) == v.id <= born /\ \A i \in instances : i.id = v.id => i = v

LEMMA ListStep ==
  ASSUME TypeOK, [Next]_vars
  PROVE  /\ born \in Nat /\ born' \in Nat /\ born <= born'
         /\ \A i \in instances' : i \in instances \/ i.id = born + 1
<1>1. born \in Nat
  BY DEF TypeOK
<1>2. ASSUME NEW t \in Tasks, LaunchNew(t)
      PROVE  /\ born' = born + 1
             /\ \A i \in instances' : i \in instances \/ i.id = born + 1
  BY <1>2 DEF LaunchNew, Push
<1>3. \/ instances' \subseteq instances /\ born' = born
      \/ \E t \in Tasks : LaunchNew(t)
  BY NextCases
     DEF Bind, RemoveScope, CloseCheck, LaunchTaken, LaunchReused, RemoveInstance, Sweep, Keep,
         Abandon, RequestControl, StartRound, Ping, Pingfall, Unbind, vars
<1>4. QED BY <1>1, <1>2, <1>3

LEMMA RememberedStep ==
  ASSUME TypeOK, Identified, Remembered, [Next]_vars
  PROVE  Remembered'
<1>0. /\ Remembered <=> /\ \A t \in Tasks : pc[t] = "close" => Closing(t)
                        /\ falling # None => Known(falling)
                        /\ \A v \in round : Known(v)
      /\ Remembered' <=> /\ \A t \in Tasks : pc'[t] = "close" => Closing(t)'
                         /\ falling' # None => Known(falling)'
                         /\ \A v \in round' : /\ v.id <= born'
                                              /\ \A i \in instances' : i.id = v.id => i = v
  BY DEF Remembered, Closing, Known
<1>1. \A v \in Instances : Known(v) => /\ v.id <= born'
                                       /\ \A i \in instances' : i.id = v.id => i = v
  BY ListStep DEF Known, Instances, Ids
<1>2. \A t \in Tasks : pc'[t] = "close" => Closing(t)'
  <2>1. SUFFICES ASSUME NEW t \in Tasks, pc'[t] = "close"
                 PROVE  Closing(t)'
    OBVIOUS
  <2>2. \/ pc[t] = "close" /\ req'[t] = req[t] /\ seen'[t] = seen[t]
        \/ \E s \in Scopes, i \in instances : CloseCheck(t, s, i)
    <3>1. ASSUME NEW u \in Tasks, NEW s \in Scopes, NEW i \in instances, CloseCheck(u, s, i), u # t
          PROVE  pc[t] = "close" /\ req'[t] = req[t] /\ seen'[t] = seen[t]
      BY <2>1, <3>1 DEF CloseCheck, Wait, TypeOK
    <3>2. ASSUME NEW u \in Tasks,
                 (\E r \in Requests : Bind(u, r)) \/ (\E s \in Scopes : RemoveScope(u, s))
          PROVE  pc[t] = "close" /\ req'[t] = req[t] /\ seen'[t] = seen[t]
      BY <2>1, <3>2 DEF Bind, RemoveScope, Wait, TypeOK
    <3>3. ASSUME NEW u \in Tasks,
                 \/ LaunchTaken(u) \/ LaunchReused(u) \/ LaunchNew(u)
                 \/ RemoveInstance(u) \/ Sweep(u) \/ Abandon(u)
          PROVE  pc[t] = "close" /\ req'[t] = req[t] /\ seen'[t] = seen[t]
      <4>1. Return(u)
        BY <3>3 DEF LaunchTaken, LaunchReused, LaunchNew, Push, RemoveInstance, Sweep, Abandon
      <4>2. QED BY <2>1, <4>1 DEF Return, TypeOK
    <3>4. CASE task' = task
      BY <2>1, <3>4 DEF task
    <3>5. QED
      BY <3>1, <3>2, <3>3, <3>4, NextCases
         DEF RequestControl, StartRound, Ping, Pingfall, Unbind, vars
  <2>3. CASE pc[t] = "close" /\ req'[t] = req[t] /\ seen'[t] = seen[t]
    <3>1. Closing(t)
      BY <1>0, <2>3
    <3>2. QED BY <2>3, <3>1, ListStep DEF Closing
  <2>4. ASSUME NEW s \in Scopes, NEW i \in instances, CloseCheck(t, s, i)
        PROVE  Closing(t)'
    <3>1. /\ i.scope = s /\ instances' = instances /\ born' = born
          /\ req'[t] = [scope |-> s, local |-> i.local, remote |-> i.remote] /\ seen'[t] = i.id
      BY <2>4 DEF CloseCheck, Wait, TypeOK
    <3>2. i.id \in 1 .. born
      BY DEF TypeOK, Instances, Ids, Identified
    <3>3. \A j \in instances : j.id = i.id => j = i
      BY DEF Identified
    <3>4. QED BY <3>1, <3>2, <3>3 DEF Closing
  <2>5. QED BY <2>2, <2>3, <2>4
<1>3. round' \subseteq round \cup instances /\ falling' \in {None, falling} \cup round
  BY NextCases
     DEF Bind, RemoveScope, CloseCheck, LaunchTaken, LaunchReused, LaunchNew, Push, RemoveInstance,
         Sweep, Abandon, RequestControl, StartRound, Ping, Pingfall, Unbind, vars, worker
<1>4. \A v \in instances : Known(v)
  BY DEF Identified, Known
<1>5. round \subseteq Instances /\ instances \subseteq Instances /\ falling \in Instances \cup {None}
  BY DEF TypeOK
<1>6. \A v \in round' : /\ v.id <= born'
                        /\ \A i \in instances' : i.id = v.id => i = v
  BY <1>0, <1>1, <1>3, <1>4, <1>5
<1>7. falling' # None => Known(falling)'
  <2>1. SUFFICES ASSUME falling' # None PROVE Known(falling)'
    OBVIOUS
  <2>2. falling' \in Instances /\ Known(falling')
    BY <1>0, <1>3, <1>5, <2>1
  <2>3. QED BY <1>1, <2>2 DEF Known
<1>8. QED BY <1>0, <1>2, <1>6, <1>7

-----------------------------------------------------------------------------
LEMMA InvInit == Init => IInv
<1> SUFFICES ASSUME Init PROVE IInv
  OBVIOUS
<1>1. TypeOK
  BY TypeInit
<1>2. Unambiguous /\ Identified /\ Remembered
  BY DEF Init, Unambiguous, Identified, Remembered, Ids
<1>3. QED BY <1>1, <1>2 DEF IInv

LEMMA InvStep == IInv /\ [Next]_vars => IInv'
  BY TypeStep, UnambiguousStep, IdentifiedStep, RememberedStep DEF IInv

LEMMA Inductive == Spec => []IInv
  BY InvInit, InvStep, PTL DEF Spec

(* The list, the handlers and the latency loop are well typed. *)
THEOREM TypeCorrect == Spec => []TypeOK
<1>1. IInv => TypeOK
  BY DEF IInv
<1>2. QED BY <1>1, Inductive, PTL

(* A local address names one instance, a scope has a remote once, and nobody *)
(* else listens where an instance is listed (daemon.rs:307-349).             *)
THEOREM AlwaysUnambiguous == Spec => []Unambiguous
<1>1. IInv => Unambiguous
  BY DEF IInv
<1>2. QED BY <1>1, Inductive, PTL

-----------------------------------------------------------------------------
(* Whoever removes by address hits the instance he looked at, or one that    *)
(* was launched there after that one had left the list.                      *)
LEMMA CauseStep ==
  ASSUME IInv, [Next]_vars
  PROVE  \A i \in instances \ instances' : Cause(i)
<1> SUFFICES ASSUME NEW i \in instances, i \notin instances' PROVE Cause(i)
  OBVIOUS
<1>0. TypeOK /\ Unambiguous /\ Identified /\ Remembered
  BY DEF IInv
<1>1. ASSUME NEW t \in Tasks, RemoveInstance(t)
      PROVE  Cause(i)
  <2>1. pc[t] = "close" /\ pc'[t] = "idle" /\ i.local = req[t].local
    BY <1>0, <1>1 DEF RemoveInstance, Keep, Return, TypeOK
  <2>2. \A j \in instances : j.id = seen[t] => j.local = req[t].local /\ j.scope = req[t].scope
    BY <1>0, <2>1 DEF Remembered
  <2>3. \A j \in instances : j.local = i.local => j = i
    BY <1>0 DEF Unambiguous
  <2>4. Meant(i, req[t].local, seen[t])
    BY <2>1, <2>2, <2>3 DEF Meant, Listed
  <2>5. seen[t] = i.id => req[t].scope = i.scope
    BY <2>2
  <2>6. QED BY <2>1, <2>4, <2>5 DEF Cause
<1>2. ASSUME NEW t \in Tasks, Sweep(t)
      PROVE  Cause(i)
  BY <1>0, <1>2 DEF Sweep, Keep, Return, TypeOK, Cause
<1>3. CASE Pingfall
  <2>1. falling # None /\ falling' = None /\ i.local = falling.local
    BY <1>3 DEF Pingfall, Keep
  <2>2. \A j \in instances : j.id = falling.id => j = falling
    BY <1>0, <2>1 DEF Remembered
  <2>3. \A j \in instances : j.local = i.local => j = i
    BY <1>0 DEF Unambiguous
  <2>4. Meant(i, falling.local, falling.id)
    BY <2>1, <2>2, <2>3 DEF Meant, Listed
  <2>5. QED BY <2>1, <2>4 DEF Cause
<1>4. ASSUME \A t \in Tasks : ~RemoveInstance(t) /\ ~Sweep(t),
             ~Pingfall
      PROVE  FALSE
  BY <1>4, NextCases
     DEF Bind, RemoveScope, CloseCheck, LaunchTaken, LaunchReused, LaunchNew, Push, Abandon,
         RequestControl, StartRound, Ping, Unbind, vars
<1>5. QED BY <1>1, <1>2, <1>3, <1>4

(* An instance leaves the list by a close of its own scope or of the user,   *)
(* by the removal of its scope, or by its own failed ping, except when the   *)
(* one that was meant had left before (daemon.rs:367-418, workers.rs:103).   *)
THEOREM RemovalsHaveCause == Spec => RemovedForCause
<1>1. IInv /\ [Next]_vars => [\A i \in instances \ instances' : Cause(i)]_vars
  BY CauseStep
<1>2. QED BY <1>1, Inductive, PTL DEF Spec, RemovedForCause

-----------------------------------------------------------------------------
(* The event pump.  First, its lines: a line that follows is appended, and   *)
(* the newest of some lines that follow each other do so, to the same last.  *)
LEMMA EmptyAppended ==
  ASSUME NEW s \in Seq(Nat)
  PROVE  s \o <<>> = s
  OBVIOUS

LEMMA AppendLine ==
  ASSUME NEW a \in Seq(Nat), Consecutive(a), NEW n \in Nat, n = LastLine(a) + 1
  PROVE  Consecutive(Append(a, n)) /\ LastLine(Append(a, n)) = n
  <1> DEFINE c == Append(a, n)
  <1>1. /\ Len(a) \in Nat /\ Len(c) = Len(a) + 1 /\ c \in Seq(Nat) /\ c[Len(a) + 1] = n
        /\ \A i \in 1..Len(a) : c[i] = a[i]
    OBVIOUS
  <1> HIDE DEF c
  <1>2. c # <<>>
    BY <1>1
  <1>3. LastLine(c) = n
    BY <1>1, <1>2 DEF LastLine
  <1>4. Consecutive(c)
    <2>1. SUFFICES ASSUME NEW i \in 2..(Len(a) + 1) PROVE c[i] = c[i - 1] + 1
      BY <1>1 DEF Consecutive
    <2>2. CASE i = Len(a) + 1
      <3>1. a # <<>> /\ Len(a) \in 1..Len(a)
        BY <1>1, <2>2
      <3>2. n = a[Len(a)] + 1
        BY <3>1 DEF LastLine
      <3>3. c[i] = n /\ i - 1 = Len(a) /\ c[Len(a)] = a[Len(a)]
        BY <1>1, <2>2, <3>1
      <3>4. QED BY <3>2, <3>3
    <2>3. CASE i \in 2..Len(a)
      <3>1. i \in 1..Len(a) /\ i - 1 \in 1..Len(a)
        BY <1>1, <2>3
      <3>2. c[i] = a[i] /\ c[i - 1] = a[i - 1]
        BY <1>1, <3>1
      <3>3. a[i] = a[i - 1] + 1
        BY <2>3 DEF Consecutive
      <3>4. QED BY <3>2, <3>3
    <2>4. QED BY <1>1, <2>2, <2>3
  <1>5. QED BY <1>3, <1>4 DEF c

LEMMA NewestLines ==
  ASSUME NEW s \in Seq(Nat), Consecutive(s)
  PROVE  /\ Newest(s) \in Seq(Nat) /\ Len(Newest(s)) <= MaxLogs
         /\ Consecutive(Newest(s)) /\ LastLine(Newest(s)) = LastLine(s)
  <1>1. CASE Len(s) <= MaxLogs
    BY <1>1 DEF Newest
  <1>2. CASE Len(s) > MaxLogs
    <2> DEFINE k == Len(s) - MaxLogs
               t == SubSeq(s, Len(s) - MaxLogs + 1, Len(s))
    <2>1. k \in Nat /\ k < Len(s) /\ Len(s) - k = MaxLogs /\ MaxLogs \in Nat \ {0}
      BY <1>2, PumpAssumption
    <2>2. Newest(s) = t
      <3>1. ~(Len(s) <= MaxLogs)
        BY <1>2, PumpAssumption
      <3>2. QED BY <3>1 DEF Newest
    <2>3. t \in Seq(Nat) /\ Len(t) = MaxLogs /\ \A i \in 1..MaxLogs : t[i] = s[k + i]
      <3>1. \A i \in (k + 1)..Len(s) : s[i] \in Nat
        BY <2>1
      <3>2. /\ t \in Seq(Nat) /\ Len(t) = MaxLogs
            /\ \A i \in 1..(Len(s) - (k + 1) + 1) : t[i] = s[k + 1 + i - 1]
        BY <2>1, <3>1, SubSeqProperties
      <3>3. QED BY <2>1, <3>2
    <2> HIDE DEF t, k
    <2>4. Consecutive(t)
      <3>1. SUFFICES ASSUME NEW i \in 2..MaxLogs PROVE t[i] = t[i - 1] + 1
        BY <2>3 DEF Consecutive
      <3> DEFINE h == k + i
      <3>2. h \in 2..Len(s) /\ k + (i - 1) = h - 1 /\ i \in 1..MaxLogs /\ i - 1 \in 1..MaxLogs
        BY <2>1
      <3> HIDE DEF h
      <3>3. s[h] = s[h - 1] + 1
        BY <3>2 DEF Consecutive
      <3>4. t[i] = s[k + i] /\ t[i - 1] = s[k + (i - 1)]
        BY <2>3, <3>2
      <3>5. QED BY <3>2, <3>3, <3>4 DEF h
    <2>5. LastLine(t) = LastLine(s)
      <3>1. t # <<>> /\ s # <<>> /\ k + MaxLogs = Len(s)
        BY <2>1, <2>3 DEF k
      <3>2. t[MaxLogs] = s[Len(s)]
        BY <2>1, <2>3, <3>1
      <3>3. QED BY <2>3, <3>1, <3>2 DEF LastLine
    <2>6. QED BY <2>1, <2>2, <2>3, <2>4, <2>5
  <1>3. QED BY <1>1, <1>2, PumpAssumption

(* Second, the channel: what a send adds, and what a receive takes.          *)
LEMMA EventKinds ==
  /\ \A e \in Events : e.kind \in {"Log", "HasUpdates", "Online", "Refresh", "Popup", "Quit"}
  /\ \A e \in Events : e.kind = "Log" => e.line \in Nat
  /\ Online.kind = "Online" /\ Refresh.kind = "Refresh" /\ Popup.kind = "Popup"
  /\ Quit.kind = "Quit" /\ \A n : Log(n).kind = "Log" /\ Log(n).line = n
  /\ \A v : HasUpdates(v).kind = "HasUpdates"
  /\ {Online, Refresh, Popup, Quit} \subseteq Events
  /\ \A n \in Nat : Log(n) \in Events
  /\ \A v \in BOOLEAN : HasUpdates(v) \in Events
  BY DEF Events, Online, Refresh, Popup, Quit, Log, HasUpdates

LEMMA SendQueue ==
  ASSUME queue \in Seq(Events), NEW e \in Events, Send(e)
  PROVE  /\ queue' \in Seq(Events) /\ Queued(e)'
         /\ \A f : Queued(f) => Queued(f)'
         /\ Len(queue') = Len(queue) + 1 /\ queue'[Len(queue) + 1] = e
         /\ \A i \in 1..Len(queue) : queue'[i] = queue[i]
  <1>1. /\ queue' \in Seq(Events)
        /\ Len(queue') = Len(queue) + 1 /\ queue'[Len(queue) + 1] = e
        /\ \A i \in 1..Len(queue) : queue'[i] = queue[i]
    BY DEF Send
  <1>2. Len(queue) \in Nat
    OBVIOUS
  <1>3. QED BY <1>1, <1>2 DEF Queued

LEMMA TakeQueue ==
  ASSUME queue \in Seq(Events), queue # <<>>, queue' = Tail(queue)
  PROVE  /\ queue' \in Seq(Events) /\ Head(queue) \in Events
         /\ \A f : Queued(f) => f = Head(queue) \/ Queued(f)'
         /\ Len(queue) \in Nat /\ Len(queue') = Len(queue) - 1 /\ Head(queue) = queue[1]
         /\ \A i \in 1..Len(queue') : queue'[i] = queue[i + 1]
  <1>1. /\ queue' \in Seq(Events) /\ Head(queue) \in Events /\ Head(queue) = queue[1]
        /\ Len(queue) \in Nat /\ Len(queue) > 0 /\ Len(queue') = Len(queue) - 1
        /\ \A i \in 1..Len(queue') : queue'[i] = queue[i + 1]
    OBVIOUS
  <1>2. ASSUME NEW i \in 1..Len(queue), i # 1
        PROVE  i - 1 \in 1..Len(queue') /\ queue'[i - 1] = queue[i]
    BY <1>1, <1>2
  <1>3. \A f : Queued(f) => f = Head(queue) \/ Queued(f)'
    BY <1>1, <1>2 DEF Queued
  <1>4. QED BY <1>1, <1>3

(* An event that is no log line leaves the lines on their way, at either end; *)
(* a new line is behind them, and the one that is taken is the next.          *)
LEMMA SendLines ==
  ASSUME queue \in Seq(Events), NEW e \in Events, Send(e),
         NEW n \in Nat, NEW m \in Nat, Follows(queue, n, m)
  PROVE  /\ e.kind # "Log" => Follows(queue', n, m)
         /\ e = Log(m + 1) => Follows(queue', n, m + 1)
  <1> DEFINE k == Len(queue) + 1
  <1>1. /\ Len(queue') = k /\ queue'[k] = e /\ k \in Nat
        /\ \A i \in 1..Len(queue) : queue'[i] = queue[i]
    BY SendQueue
  <1>2. LogsOf(queue') = LogsOf(queue) \cup (IF e.kind = "Log" THEN {k} ELSE {})
    BY <1>1 DEF LogsOf
  <1>3. \A i \in LogsOf(queue) : i \in 1..Len(queue) /\ queue'[i] = queue[i] /\ i < k
    BY <1>1 DEF LogsOf
  <1>4. CASE e.kind # "Log"
    <2>1. LogsOf(queue') = LogsOf(queue)
      BY <1>2, <1>4
    <2>2. \A i \in LogsOf(queue') : queue'[i].line \in (n + 1)..m
      BY <1>3, <2>1 DEF Follows
    <2>3. \A l \in (n + 1)..m : \E i \in LogsOf(queue') : queue'[i].line = l
      BY <1>3, <2>1 DEF Follows
    <2>4. \A i, j \in LogsOf(queue') : i < j => queue'[i].line < queue'[j].line
      BY <1>3, <2>1 DEF Follows
    <2>5. e # Log(m + 1)
      BY <1>4, EventKinds
    <2>6. n <= m
      BY DEF Follows
    <2>7. QED BY <2>2, <2>3, <2>4, <2>5, <2>6 DEF Follows
  <1>5. CASE e = Log(m + 1)
    <2>1. e.kind = "Log" /\ e.line = m + 1
      BY <1>5, EventKinds
    <2>2. LogsOf(queue') = LogsOf(queue) \cup {k}
      BY <1>2, <2>1
    <2>3. \A i \in LogsOf(queue') : queue'[i].line \in (n + 1)..(m + 1)
      BY <1>1, <1>3, <2>1, <2>2 DEF Follows
    <2>4. ASSUME NEW l \in (n + 1)..(m + 1) PROVE \E i \in LogsOf(queue') : queue'[i].line = l
      <3>1. CASE l = m + 1
        BY <1>1, <2>1, <2>2, <3>1
      <3>2. CASE l \in (n + 1)..m
        <4>1. PICK i \in LogsOf(queue) : queue[i].line = l
          BY <3>2 DEF Follows
        <4>2. QED BY <1>3, <2>2, <4>1
      <3>3. QED BY <3>1, <3>2
    <2>5. ASSUME NEW i \in LogsOf(queue'), NEW j \in LogsOf(queue'), i < j
          PROVE  queue'[i].line < queue'[j].line
      <3>1. i \in LogsOf(queue)
        BY <1>1, <1>3, <2>2, <2>5
      <3>2. CASE j \in LogsOf(queue)
        BY <1>3, <2>5, <3>1, <3>2 DEF Follows
      <3>3. CASE j = k
        <4>1. queue'[i].line \in (n + 1)..m
          BY <1>3, <3>1 DEF Follows
        <4>2. QED BY <1>1, <2>1, <3>3, <4>1
      <3>4. QED BY <2>2, <3>2, <3>3
    <2>6. n <= m + 1
      BY DEF Follows
    <2>7. QED BY <2>1, <2>3, <2>4, <2>5, <2>6 DEF Follows
  <1>6. QED BY <1>4, <1>5, EventKinds

LEMMA TakeLines ==
  ASSUME queue \in Seq(Events), queue # <<>>, queue' = Tail(queue),
         NEW n \in Nat, NEW m \in Nat, Follows(queue, n, m)
  PROVE  /\ Head(queue).kind # "Log" => Follows(queue', n, m)
         /\ Head(queue).kind = "Log" =>
              Head(queue).line = n + 1 /\ n + 1 <= m /\ Follows(queue', n + 1, m)
  <1> DEFINE e == Head(queue)
  <1>1. /\ e \in Events /\ e = queue[1] /\ Len(queue) \in Nat /\ Len(queue) > 0
        /\ Len(queue') = Len(queue) - 1
        /\ \A i \in 1..Len(queue') : queue'[i] = queue[i + 1]
    BY TakeQueue
  <1> HIDE DEF e
  <1>2. \A i : i \in LogsOf(queue') => i + 1 \in LogsOf(queue) /\ queue'[i] = queue[i + 1] /\ i \in Nat
    BY <1>1 DEF LogsOf
  <1>3. \A i : i \in LogsOf(queue) /\ i # 1 => i \in Nat /\ i - 1 \in LogsOf(queue') /\ queue'[i - 1] = queue[i]
    BY <1>1 DEF LogsOf
  <1>4. 1 \in LogsOf(queue) <=> e.kind = "Log"
    BY <1>1 DEF LogsOf
  <1>5. /\ \A i \in LogsOf(queue) : queue[i].line \in (n + 1)..m
        /\ \A l \in (n + 1)..m : \E i \in LogsOf(queue) : queue[i].line = l
        /\ n <= m
    BY DEF Follows
  <1>6. \A i, j \in LogsOf(queue') : i < j => queue'[i].line < queue'[j].line
    <2>1. SUFFICES ASSUME NEW i \in LogsOf(queue'), NEW j \in LogsOf(queue'), i < j
                   PROVE  queue'[i].line < queue'[j].line
      OBVIOUS
    <2>2. i + 1 \in LogsOf(queue) /\ j + 1 \in LogsOf(queue) /\ i + 1 < j + 1
      BY <1>2, <2>1
    <2>3. queue[i + 1].line < queue[j + 1].line
      BY <2>2 DEF Follows
    <2>4. QED BY <1>2, <2>1, <2>3
  <1>7. CASE e.kind # "Log"
    <2>1. \A i \in LogsOf(queue') : queue'[i].line \in (n + 1)..m
      BY <1>2, <1>5
    <2>2. \A l \in (n + 1)..m : \E i \in LogsOf(queue') : queue'[i].line = l
      <3>1. SUFFICES ASSUME NEW l \in (n + 1)..m PROVE \E i \in LogsOf(queue') : queue'[i].line = l
        OBVIOUS
      <3>2. PICK i \in LogsOf(queue) : queue[i].line = l
        BY <1>5
      <3>3. QED BY <1>3, <1>4, <1>7, <3>2
    <2>3. QED BY <1>5, <1>6, <1>7, <2>1, <2>2 DEF Follows, e
  <1>8. CASE e.kind = "Log"
    <2>1. 1 \in LogsOf(queue) /\ e.line \in (n + 1)..m
      BY <1>1, <1>4, <1>5, <1>8
    <2>2. \A i \in LogsOf(queue) : i # 1 => queue[i].line > e.line
      <3>1. SUFFICES ASSUME NEW i \in LogsOf(queue), i # 1 PROVE e.line < queue[i].line
        BY <1>5, <2>1
      <3>2. 1 < i
        BY <3>1 DEF LogsOf
      <3>3. QED BY <1>1, <2>1, <3>2 DEF Follows
    <2>3. e.line = n + 1 /\ n + 1 <= m
      <3>1. n + 1 \in (n + 1)..m
        BY <2>1
      <3>2. PICK i \in LogsOf(queue) : queue[i].line = n + 1
        BY <1>5, <3>1
      <3>3. CASE i = 1
        BY <1>1, <3>1, <3>2, <3>3
      <3>4. CASE i # 1
        BY <2>1, <2>2, <3>2, <3>4
      <3>5. QED BY <3>3, <3>4
    <2>4. \A i \in LogsOf(queue') : queue'[i].line \in (n + 2)..m
      <3>1. SUFFICES ASSUME NEW i \in LogsOf(queue') PROVE queue'[i].line \in (n + 2)..m
        OBVIOUS
      <3>2. i + 1 \in LogsOf(queue) /\ i + 1 # 1 /\ queue'[i] = queue[i + 1]
        BY <1>1, <1>2 DEF LogsOf
      <3>3. queue[i + 1].line \in (n + 1)..m /\ queue[i + 1].line > n + 1
        BY <1>5, <2>2, <2>3, <3>2
      <3> DEFINE l == queue[i + 1].line
      <3>4. l \in (n + 1)..m /\ l > n + 1
        BY <3>3
      <3> HIDE DEF l
      <3>5. l \in (n + 2)..m
        BY <3>4
      <3>6. QED BY <3>2, <3>5 DEF l
    <2>5. \A l \in (n + 2)..m : \E i \in LogsOf(queue') : queue'[i].line = l
      <3>1. SUFFICES ASSUME NEW l \in (n + 2)..m PROVE \E i \in LogsOf(queue') : queue'[i].line = l
        OBVIOUS
      <3>2. l \in (n + 1)..m /\ l # n + 1
        OBVIOUS
      <3>3. PICK i \in LogsOf(queue) : queue[i].line = l
        BY <1>5, <3>2
      <3>4. i # 1
        BY <1>1, <2>3, <3>2, <3>3
      <3>5. QED BY <1>3, <3>3, <3>4
    <2>6. (n + 1) + 1 = n + 2
      OBVIOUS
    <2>7. Follows(queue', n + 1, m)
      BY <1>6, <2>3, <2>4, <2>5, <2>6 DEF Follows
    <2>8. QED BY <1>8, <2>3, <2>7 DEF e
  <1>9. QED BY <1>7, <1>8 DEF e

(* A step of one of the actions, or none. *)
LEMMA PumpNextCases ==
  ASSUME [PumpNext]_pumpVars
  PROVE  \/ app # "over" /\ \/ BindApi \/ TellOnline \/ StreamLog \/ CheckForUpdates
                            \/ Change \/ Announce \/ DropAnnounce \/ FirstPing
         \/ AskPopup \/ AskQuit \/ OpenFirst \/ CloseToTray \/ CloseAndQuit
         \/ ToggleTray \/ ChangePage \/ SetEditor \/ Receive \/ FlushLogs
         \/ UNCHANGED pumpVars
  BY DEF PumpNext, Daemon, Window, Pump

(* The window's copies keep their type, and a field is all that changes.     *)
LEMMA FreshFields ==
  ASSUME PumpTyped
  PROVE  /\ FreshView \in Views /\ FreshView # Closed
         /\ FreshView.lists = lists /\ FreshView.port = port /\ FreshView.updates = updates
         /\ FreshView.logs = logs /\ FreshView.editor = logs
  BY ClosedAssumption DEF FreshView, Views, PumpTyped

LEMMA ViewFields ==
  ASSUME NEW w \in Views
  PROVE  /\ \A v \in Nat : LET x == [w EXCEPT !.lists = v]
                           IN /\ x \in Views /\ x.lists = v /\ x.port = w.port
                              /\ x.updates = w.updates /\ x.logs = w.logs /\ x.editor = w.editor
         /\ \A v \in Nat : LET x == [w EXCEPT !.port = v]
                           IN /\ x \in Views /\ x.lists = w.lists /\ x.port = v
                              /\ x.updates = w.updates /\ x.logs = w.logs /\ x.editor = w.editor
         /\ \A v \in BOOLEAN : LET x == [w EXCEPT !.updates = v]
                               IN /\ x \in Views /\ x.lists = w.lists /\ x.port = w.port
                                  /\ x.updates = v /\ x.logs = w.logs /\ x.editor = w.editor
         /\ \A v \in Seq(Nat) : LET x == [w EXCEPT !.logs = v]
                                IN /\ x \in Views /\ x.lists = w.lists /\ x.port = w.port
                                   /\ x.updates = w.updates /\ x.logs = v /\ x.editor = w.editor
         /\ \A v \in Seq(Nat) : LET x == [w EXCEPT !.editor = v]
                                IN /\ x \in Views /\ x.lists = w.lists /\ x.port = w.port
                                   /\ x.updates = w.updates /\ x.logs = w.logs /\ x.editor = v
  BY DEF Views

(* What the pump may receive, and what that does to the window. *)
LEMMA Shown ==
  ASSUME PumpTyped, NEW f, NEW v, Show(f, v)
  PROVE  /\ ~IsOpen => view' = Closed
         /\ f = "lists" /\ v \in Nat /\ IsOpen => view' = [view EXCEPT !.lists = v]
         /\ f = "port" /\ v \in Nat /\ IsOpen => view' = [view EXCEPT !.port = v]
         /\ f = "updates" /\ v \in BOOLEAN /\ IsOpen => view' = [view EXCEPT !.updates = v]
  BY DEF Show, IsOpen

LEMMA LastIsLine ==
  ASSUME NEW s \in Seq(Nat)
  PROVE  LastLine(s) \in Nat
  BY DEF LastLine

(* The daemon's steps and the requests for the window touch neither the      *)
(* window nor the buffers: they send an event, or read a line and send it.   *)
LEMMA SentKeeps ==
  ASSUME PumpInv, UNCHANGED <<app, logs, batch, view, edits>>,
         \/ UNCHANGED <<queue, lines>>
         \/ lines' = lines /\ \E e \in Events : e.kind # "Log" /\ Send(e)
         \/ lines' = lines + 1 /\ Send(Log(lines + 1))
  PROVE  /\ queue' \in Seq(Events) /\ lines' \in Nat
         /\ \A f : Queued(f) => Queued(f)'
         /\ EditsLast' /\ LogsInOrder'
  <1>1. queue \in Seq(Events) /\ lines \in Nat /\ logs \o batch \in Seq(Nat)
    BY DEF PumpInv, PumpTyped
  <1> DEFINE n == LastLine(logs \o batch)
  <1>2. n \in Nat
    BY <1>1, LastIsLine
  <1>3. EditsLast' /\ (IsOpen' <=> IsOpen)
    BY DEF PumpInv, EditsLast, IsOpen
  <1>4. /\ queue' \in Seq(Events) /\ lines' \in Nat
        /\ \A f : Queued(f) => Queued(f)'
        /\ Follows(queue, n, lines) => Follows(queue', n, lines')
    <2>1. CASE UNCHANGED <<queue, lines>>
      BY <1>1, <2>1 DEF Queued
    <2>2. ASSUME lines' = lines, NEW e \in Events, e.kind # "Log", Send(e)
          PROVE  <1>4
      BY <1>1, <1>2, <2>2, SendQueue, SendLines
    <2>3. CASE lines' = lines + 1 /\ Send(Log(lines + 1))
      <3>1. Log(lines + 1) \in Events /\ lines + 1 \in Nat
        BY <1>1, EventKinds
      <3>2. QED BY <1>1, <1>2, <2>3, <3>1, SendQueue, SendLines
    <2>4. QED BY <2>1, <2>2, <2>3
  <1>5. LogsInOrder'
    BY <1>3, <1>4 DEF PumpInv, LogsInOrder
  <1>6. QED BY <1>3, <1>4, <1>5

LEMMA DaemonKeeps ==
  ASSUME PumpInv,
         \/ BindApi \/ TellOnline \/ StreamLog \/ CheckForUpdates
         \/ Change \/ Announce \/ DropAnnounce \/ FirstPing
         \/ AskPopup \/ AskQuit \/ ToggleTray \/ UNCHANGED pumpVars
  PROVE  PumpInv'
  <1>1. UNCHANGED <<app, updates, logs, batch, view, edits>>
    BY DEF BindApi, TellOnline, StreamLog, CheckForUpdates, Change, Announce, DropAnnounce,
           FirstPing, AskPopup, AskQuit, ToggleTray, pumpVars, shared, tasks
  <1>2. \/ UNCHANGED <<queue, lines>>
        \/ lines' = lines /\ \E e \in Events : e.kind # "Log" /\ Send(e)
        \/ lines' = lines + 1 /\ Send(Log(lines + 1))
    <2>1. CASE BindApi \/ Change \/ DropAnnounce \/ FirstPing \/ ToggleTray \/ UNCHANGED pumpVars
      BY <2>1 DEF BindApi, Change, DropAnnounce, FirstPing, ToggleTray, pumpVars, tasks
    <2>2. CASE StreamLog
      BY <2>2 DEF StreamLog
    <2>3. CASE TellOnline
      BY <2>3, EventKinds DEF TellOnline
    <2>4. CASE CheckForUpdates
      BY <2>4, EventKinds DEF CheckForUpdates
    <2>5. CASE Announce
      BY <2>5, EventKinds DEF Announce
    <2>6. CASE AskPopup
      BY <2>6, EventKinds DEF AskPopup
    <2>7. CASE AskQuit
      BY <2>7, EventKinds DEF AskQuit, tasks
    <2>8. QED BY <2>1, <2>2, <2>3, <2>4, <2>5, <2>6, <2>7
  <1>3. /\ queue' \in Seq(Events) /\ lines' \in Nat
        /\ \A f : Queued(f) => Queued(f)'
        /\ EditsLast' /\ LogsInOrder'
    BY <1>1, <1>2, SentKeeps
  <1>4. /\ lists \in Nat /\ port \in Nat /\ owed \in Nat /\ silent \in BOOLEAN /\ Port \in Nat
    BY PumpAssumption DEF PumpInv, PumpTyped
  <1>5. lists' \in Nat /\ port' \in Nat /\ owed' \in Nat /\ silent' \in BOOLEAN
    <2>1. CASE BindApi
      BY <1>4, <2>1 DEF BindApi
    <2>2. CASE Change \/ FirstPing
      <3>1. lists' = lists + 1 /\ (owed' = owed \/ owed' = owed + 1) /\ port' = port
        BY <2>2 DEF Change, FirstPing, tasks
      <3>2. silent' \in BOOLEAN
        BY <1>4, <2>2 DEF Change, FirstPing
      <3>3. QED BY <1>4, <3>1, <3>2
    <2>3. CASE Announce \/ DropAnnounce
      <3>1. owed' = owed - 1 /\ owed > 0 /\ port' = port /\ lists' = lists
        BY <2>3 DEF Announce, DropAnnounce, shared
      <3>2. silent' \in BOOLEAN
        BY <1>4, <2>3 DEF Announce, DropAnnounce
      <3>3. QED BY <1>4, <3>1, <3>2
    <2>4. CASE \/ TellOnline \/ StreamLog \/ CheckForUpdates \/ AskPopup \/ AskQuit
               \/ ToggleTray \/ UNCHANGED pumpVars
      BY <1>4, <2>4 DEF TellOnline, StreamLog, CheckForUpdates, AskPopup, AskQuit, ToggleTray,
                        pumpVars, shared, tasks
    <2>5. QED BY <2>1, <2>2, <2>3, <2>4
  <1>6. PumpTyped'
    BY <1>1, <1>3, <1>5 DEF PumpInv, PumpTyped
  <1>7. PortSet'
    BY DEF PumpInv, PortSet, BindApi, TellOnline, StreamLog, CheckForUpdates, Change, Announce,
           DropAnnounce, FirstPing, AskPopup, AskQuit, ToggleTray, pumpVars, shared, tasks
  <1>8. online' = "told" /\ ~Queued(Online)' =>
          online = "told" /\ ~Queued(Online) /\ port' = port
    <2>1. CASE TellOnline
      <3>1. Queued(Online)'
        BY <2>1, EventKinds, SendQueue DEF TellOnline, PumpInv, PumpTyped
      <3>2. QED BY <3>1
    <2>2. CASE ~TellOnline
      BY <1>3, <2>2 DEF BindApi, StreamLog, CheckForUpdates, Change, Announce, DropAnnounce,
                        FirstPing, AskPopup, AskQuit, ToggleTray, pumpVars, shared, tasks
    <2>3. QED BY <2>1, <2>2
  <1>9. owed' = 0 /\ ~Queued(Refresh)' /\ ~silent' =>
          owed = 0 /\ ~Queued(Refresh) /\ ~silent /\ lists' = lists
    <2>1. CASE Announce
      <3>1. Queued(Refresh)'
        BY <2>1, EventKinds, SendQueue DEF Announce, PumpInv, PumpTyped
      <3>2. QED BY <3>1
    <2>2. CASE Change \/ DropAnnounce \/ FirstPing
      BY <1>4, <2>2 DEF Change, DropAnnounce, FirstPing
    <2>3. CASE ~(Announce \/ Change \/ DropAnnounce \/ FirstPing)
      BY <1>3, <2>3 DEF BindApi, TellOnline, StreamLog, CheckForUpdates, AskPopup, AskQuit,
                        ToggleTray, pumpVars, shared, tasks
    <2>4. QED BY <2>1, <2>2, <2>3
  <1>10. ViewCurrent'
    BY <1>1, <1>8, <1>9 DEF PumpInv, ViewCurrent, IsOpen
  <1>11. QED BY <1>3, <1>6, <1>7, <1>10 DEF PumpInv

(* The window's own steps leave the channel and the buffers alone. *)
LEMMA WindowKeeps ==
  ASSUME PumpInv, OpenFirst \/ CloseToTray \/ CloseAndQuit \/ ChangePage \/ SetEditor
  PROVE  PumpInv'
  <1> USE DEF PumpInv
  <1>1. UNCHANGED <<lists, port, updates, logs, lines, owed, online, queue, batch>>
    BY DEF OpenFirst, CloseToTray, CloseAndQuit, ChangePage, SetEditor, shared, tasks
  <1>2. app # "over"
    BY DEF OpenFirst, CloseToTray, CloseAndQuit, ChangePage, SetEditor, Idle
  <1>3. CASE CloseToTray \/ CloseAndQuit
    <2>1. view' = Closed /\ edits' = <<>> /\ silent' = silent
      BY <1>3 DEF CloseToTray, CloseAndQuit
    <2>2. PumpTyped'
      BY <1>1, <2>1 DEF PumpTyped
    <2>3. QED BY <1>1, <1>2, <2>1, <2>2
            DEF PortSet, EditsLast, ViewCurrent, LogsInOrder, IsOpen, Queued
  <1>4. ASSUME OpenFirst
        PROVE  PumpInv'
    <2>1. view' = FreshView /\ silent' = FALSE /\ edits' = edits
      BY <1>4 DEF OpenFirst
    <2>2. PumpTyped'
      BY <1>1, <2>1, FreshFields DEF PumpTyped
    <2>3. EditsLast'
      BY <1>1, <1>2, <2>1, FreshFields DEF EditsLast, LogsInOrder, IsOpen
    <2>4. QED BY <1>1, <1>2, <2>1, <2>2, FreshFields
            DEF PortSet, EditsLast, ViewCurrent, LogsInOrder, IsOpen, Queued
  <1>5. CASE ChangePage
    <2>1. view \in Views /\ view' = [view EXCEPT !.lists = lists] /\ lists \in Nat
          /\ silent' = FALSE /\ edits' = edits
      BY <1>5 DEF ChangePage, IsOpen, PumpTyped
    <2>2. /\ view' \in Views /\ view'.lists = lists /\ view'.port = view.port
          /\ view'.updates = view.updates /\ view'.logs = view.logs /\ view'.editor = view.editor
      BY <2>1, ViewFields
    <2>3. view' # Closed /\ view # Closed
      BY <2>1, <2>2, ClosedAssumption
    <2>4. PumpTyped'
      BY <1>1, <2>1, <2>2 DEF PumpTyped
    <2>5. QED BY <1>1, <1>2, <2>1, <2>2, <2>3, <2>4
            DEF PortSet, EditsLast, ViewCurrent, LogsInOrder, IsOpen, Queued
  <1>6. CASE SetEditor
    <2>1. edits # <<>> /\ view' = [view EXCEPT !.editor = Head(edits)] /\ edits' = Tail(edits)
          /\ silent' = silent
      BY <1>6 DEF SetEditor
    <2>2. view \in Views /\ edits \in Seq(Seq(Nat)) /\ Head(edits) \in Seq(Nat)
          /\ edits[Len(edits)] = view.logs
      BY <2>1 DEF PumpTyped, EditsLast, IsOpen
    <2>3. /\ view' \in Views /\ view'.lists = view.lists /\ view'.port = view.port
          /\ view'.updates = view.updates /\ view'.logs = view.logs /\ view'.editor = Head(edits)
      BY <2>1, <2>2, ViewFields
    <2>4. /\ edits' \in Seq(Seq(Nat))
          /\ edits' = <<>> => Head(edits) = view.logs
          /\ edits' # <<>> => edits'[Len(edits')] = view.logs
      <3>1. /\ Len(edits) \in Nat /\ Len(edits) > 0 /\ edits' \in Seq(Seq(Nat))
            /\ Head(edits) = edits[1]
            /\ Len(edits') = Len(edits) - 1
            /\ \A i \in 1..Len(edits') : edits'[i] = edits[i + 1]
        BY <2>1, <2>2
      <3>2. CASE edits' = <<>>
        <4>1. Len(edits) = 1
          BY <3>1, <3>2
        <4>2. QED BY <2>2, <3>1, <3>2, <4>1
      <3>3. CASE edits' # <<>>
        <4>1. Len(edits') \in 1..Len(edits') /\ Len(edits') + 1 = Len(edits)
          BY <3>1, <3>3
        <4>2. edits'[Len(edits')] = edits[Len(edits)]
          BY <3>1, <4>1
        <4>3. QED BY <2>2, <3>1, <3>3, <4>2
      <3>4. QED BY <3>2, <3>3
    <2>5. view' # Closed /\ view # Closed
      BY <2>2, <2>3, ClosedAssumption
    <2>6. PumpTyped'
      BY <1>1, <2>1, <2>3, <2>4 DEF PumpTyped
    <2>7. QED BY <1>1, <1>2, <2>1, <2>2, <2>3, <2>4, <2>5, <2>6
            DEF PortSet, EditsLast, ViewCurrent, LogsInOrder, IsOpen, Queued
  <1>7. QED BY <1>3, <1>4, <1>5, <1>6

(* The pump takes an event. *)
LEMMA ReceiveKeeps ==
  ASSUME PumpInv, Receive
  PROVE  PumpInv'
  <1> USE DEF PumpInv
  <1> DEFINE e == Head(queue)
  <1>1. /\ app = "running" /\ queue # <<>> /\ queue' = Tail(queue)
        /\ UNCHANGED <<lines, owed, online>>
        /\ \/ ProcessQuit(e) \/ ProcessPopup(e) \/ ProcessHasUpdates(e)
           \/ ProcessOnline(e) \/ ProcessRefresh(e) \/ Collect(e)
    BY DEF Receive, tasks
  <1>2. queue \in Seq(Events)
    BY DEF PumpTyped
  <1>3. queue' \in Seq(Events) /\ e \in Events /\ \A f : Queued(f) => f = e \/ Queued(f)'
    BY <1>1, <1>2, TakeQueue
  <1> DEFINE n == LastLine(logs \o batch)
  <1>4. logs \o batch \in Seq(Nat) /\ n \in Nat /\ lines \in Nat
    <2>1. logs \o batch \in Seq(Nat) /\ lines \in Nat
      BY DEF PumpTyped
    <2>2. QED BY <2>1, LastIsLine
  <1>5. /\ e.kind # "Log" => Follows(queue', n, lines)
        /\ e.kind = "Log" => e.line = n + 1 /\ Follows(queue', n + 1, lines)
    BY <1>1, <1>2, <1>4, TakeLines DEF LogsInOrder
  <1> HIDE DEF e
  <1>6. CASE ProcessQuit(e)
    <2>1. /\ app' = "over" /\ view' = Closed /\ edits' = <<>> /\ batch' = <<>>
          /\ UNCHANGED <<lists, port, updates, logs, silent>>
      BY <1>6 DEF ProcessQuit, shared
    <2>2. QED BY <1>1, <1>3, <2>1
            DEF PumpTyped, PortSet, EditsLast, ViewCurrent, LogsInOrder, IsOpen
  (* The lines, for an event that is none. *)
  <1>7. ASSUME e.kind # "Log", UNCHANGED <<app, logs, batch, edits>>,
               IsOpen => IsOpen' /\ view'.logs = view.logs /\ view'.editor = view.editor,
               ~IsOpen /\ IsOpen' => view'.logs = logs /\ view'.editor = logs
        PROVE  LogsInOrder' /\ EditsLast'
    BY <1>1, <1>5, <1>7 DEF LogsInOrder, EditsLast
  <1>8. CASE ProcessPopup(e)
    <2>1. e.kind = "Popup" /\ e # Online /\ e # Refresh
      BY <1>8, EventKinds DEF ProcessPopup
    <2>2. UNCHANGED <<app, lists, port, updates, logs, batch, edits>>
      BY <1>8 DEF ProcessPopup, shared
    <2>3. CASE IsOpen
      <3>1. view' = view /\ silent' = silent
        BY <1>8, <2>3 DEF ProcessPopup
      <3>2. LogsInOrder' /\ EditsLast'
        BY <1>7, <2>1, <2>2, <3>1 DEF IsOpen
      <3>3. QED BY <1>1, <1>3, <2>1, <2>2, <3>1, <3>2
              DEF PumpTyped, PortSet, ViewCurrent, IsOpen
    <2>4. CASE ~IsOpen
      <3>1. view' = FreshView /\ silent' = FALSE
        BY <1>8, <2>4 DEF ProcessPopup
      <3>2. LogsInOrder' /\ EditsLast'
        BY <1>7, <2>1, <2>2, <2>4, <3>1, FreshFields
      <3>3. QED BY <1>1, <1>3, <2>1, <2>2, <3>1, <3>2, FreshFields
              DEF PumpTyped, PortSet, ViewCurrent
    <2>5. QED BY <2>3, <2>4
  <1>9. CASE ProcessHasUpdates(e) \/ ProcessOnline(e) \/ ProcessRefresh(e)
    <2>1. /\ e.kind \in {"HasUpdates", "Online", "Refresh"}
          /\ UNCHANGED <<app, lists, port, logs, batch, edits>>
      BY <1>9, EventKinds DEF ProcessHasUpdates, ProcessOnline, ProcessRefresh, shared
    <2>2. updates' \in BOOLEAN /\ (e.kind # "HasUpdates" => updates' = updates)
      <3>1. CASE ProcessHasUpdates(e)
        BY <1>3, <3>1, EventKinds DEF ProcessHasUpdates, Events
      <3>2. CASE ProcessOnline(e) \/ ProcessRefresh(e)
        BY <3>2 DEF ProcessOnline, ProcessRefresh, shared, PumpTyped
      <3>3. QED BY <1>9, <3>1, <3>2
    <2>3. silent' \in BOOLEAN /\ (silent => silent' \/ (e = Refresh /\ IsOpen))
      BY <1>9 DEF ProcessHasUpdates, ProcessOnline, ProcessRefresh, PumpTyped
    <2>4. CASE ~IsOpen
      <3>1. view' = view
        BY <1>9, <2>4 DEF ProcessHasUpdates, ProcessOnline, ProcessRefresh, Show
      <3>2. LogsInOrder' /\ EditsLast'
        BY <1>7, <2>1, <2>4, <3>1 DEF IsOpen
      <3>3. QED BY <1>1, <1>3, <2>1, <2>2, <2>3, <2>4, <3>1, <3>2
              DEF PumpTyped, PortSet, ViewCurrent, IsOpen
    <2>5. CASE IsOpen
      <3>1. view \in Views /\ lists \in Nat /\ Port \in Nat
        BY <2>5, PumpAssumption DEF IsOpen, PumpTyped
      <3>2. /\ view' \in Views /\ view'.logs = view.logs /\ view'.editor = view.editor
            /\ view'.updates = updates'
            /\ IF e = Online THEN view'.port = Port ELSE view'.port = view.port
            /\ IF e = Refresh THEN view'.lists = lists ELSE view'.lists = view.lists
        <4>1. view.updates = updates
          BY <2>5 DEF ViewCurrent
        <4>2. CASE ProcessHasUpdates(e)
          <5>1. e.kind = "HasUpdates" /\ e # Online /\ e # Refresh
            BY <4>2, EventKinds DEF ProcessHasUpdates
          <5>2. view' = [view EXCEPT !.updates = updates']
            BY <2>2, <2>5, <4>2, Shown DEF ProcessHasUpdates
          <5>3. QED BY <2>2, <3>1, <5>1, <5>2, ViewFields
        <4>3. CASE ProcessOnline(e)
          <5>1. e = Online /\ e # Refresh
            BY <4>3, EventKinds DEF ProcessOnline
          <5>2. view' = [view EXCEPT !.port = Port] /\ updates' = updates
            BY <2>5, <3>1, <4>3, Shown DEF ProcessOnline, shared
          <5>3. QED BY <3>1, <4>1, <5>1, <5>2, ViewFields
        <4>4. CASE ProcessRefresh(e)
          <5>1. e = Refresh /\ e # Online
            BY <4>4, EventKinds DEF ProcessRefresh
          <5>2. view' = [view EXCEPT !.lists = lists] /\ updates' = updates
            BY <2>5, <3>1, <4>4, Shown DEF ProcessRefresh, shared
          <5>3. QED BY <3>1, <4>1, <5>1, <5>2, ViewFields
        <4>5. QED BY <1>9, <4>2, <4>3, <4>4
      <3>3. IsOpen'
        BY <3>2, ClosedAssumption DEF IsOpen
      <3>4. LogsInOrder' /\ EditsLast'
        BY <1>7, <2>1, <2>5, <3>2, <3>3
      <3>5. ViewCurrent'
        BY <1>1, <1>3, <2>1, <2>3, <2>5, <3>2 DEF ViewCurrent, PortSet
      <3>6. QED BY <1>1, <1>3, <2>1, <2>2, <2>3, <3>2, <3>4, <3>5 DEF PumpTyped, PortSet
    <2>6. QED BY <2>4, <2>5
  <1>10. CASE Collect(e)
    <2>1. /\ e.kind = "Log" /\ batch' = Append(batch, e.line)
          /\ UNCHANGED <<app, lists, port, updates, logs, silent, view, edits>>
      BY <1>10 DEF Collect, shared
    <2>2. e # Online /\ e # Refresh /\ e.line = n + 1
      BY <1>5, <2>1, EventKinds
    <2>3. logs \in Seq(Nat) /\ batch \in Seq(Nat) /\ e.line \in Nat
      BY <1>4, <2>2 DEF PumpTyped
    <2>4. batch' \in Seq(Nat) /\ (logs \o batch)' = Append(logs \o batch, e.line)
      BY <2>1, <2>3
    <2>5. PumpTyped' /\ PortSet' /\ EditsLast' /\ ViewCurrent'
      BY <1>1, <1>3, <2>1, <2>2, <2>4 DEF PumpTyped, PortSet, EditsLast, ViewCurrent, IsOpen
    <2>6. Consecutive(logs \o batch)
      BY <1>1 DEF LogsInOrder
    <2>7. Consecutive((logs \o batch)') /\ LastLine((logs \o batch)') = n + 1
      BY <1>4, <2>2, <2>3, <2>4, <2>6, AppendLine
    <2>8. LogsInOrder'
      BY <1>1, <1>5, <2>1, <2>7 DEF LogsInOrder, IsOpen
    <2>9. QED BY <2>5, <2>8
  <1>11. QED BY <1>1, <1>6, <1>8, <1>9, <1>10

(* The batch goes to the buffer, and with it to the window. *)
LEMMA FlushKeeps ==
  ASSUME PumpInv, FlushLogs
  PROVE  PumpInv'
  <1> USE DEF PumpInv
  <1> DEFINE kept == Newest(logs \o batch)
  <1>1. /\ app = "running" /\ logs' = kept /\ batch' = <<>>
        /\ UNCHANGED <<app, lists, port, updates, silent, queue, lines, owed, online>>
    BY DEF FlushLogs, tasks
  <1>2. logs \o batch \in Seq(Nat) /\ Consecutive(logs \o batch)
    BY <1>1 DEF PumpTyped, LogsInOrder
  <1>3. /\ kept \in Seq(Nat) /\ Len(kept) <= MaxLogs
        /\ Consecutive(kept) /\ LastLine(kept) = LastLine(logs \o batch)
    BY <1>2, NewestLines
  <1>4. CASE IsOpen
    <2>1. view \in Views /\ view.logs = logs
      BY <1>1, <1>4 DEF PumpTyped, LogsInOrder, IsOpen
    <2>2. view' = [view EXCEPT !.logs = kept] /\ edits' = Append(edits, kept)
      BY <1>4, <2>1 DEF FlushLogs
    <2> HIDE DEF kept
    <2>3. /\ view' \in Views /\ view'.lists = view.lists /\ view'.port = view.port
          /\ view'.updates = view.updates /\ view'.logs = kept
      BY <1>3, <2>1, <2>2, ViewFields
    <2>4. edits' \in Seq(Seq(Nat)) /\ edits' # <<>> /\ edits'[Len(edits')] = kept
      <3>1. edits \in Seq(Seq(Nat))
        BY DEF PumpTyped
      <3>2. /\ Len(edits) \in Nat /\ edits' \in Seq(Seq(Nat)) /\ Len(edits') = Len(edits) + 1
            /\ edits'[Len(edits) + 1] = kept
        BY <1>3, <2>2, <3>1
      <3>3. QED BY <3>2
    <2>5. view' # Closed
      BY <2>3, ClosedAssumption
    <2>6. (logs \o batch)' = kept
      BY <1>1, <1>3, EmptyAppended
    <2>7. LogsInOrder'
      BY <1>1, <1>3, <2>3, <2>4, <2>6 DEF LogsInOrder
    <2>8. PumpTyped'
      BY <1>1, <1>3, <2>3, <2>4 DEF PumpTyped
    <2>9. QED BY <1>1, <1>4, <2>3, <2>4, <2>5, <2>7, <2>8
            DEF PortSet, EditsLast, ViewCurrent, IsOpen, Queued
  <1>5. CASE ~IsOpen
    <2>1. UNCHANGED <<view, edits>>
      BY <1>5 DEF FlushLogs
    <2> HIDE DEF kept
    <2>2. (logs \o batch)' = kept
      BY <1>1, <1>3, EmptyAppended
    <2>3. LogsInOrder'
      BY <1>1, <1>3, <1>5, <2>1, <2>2 DEF LogsInOrder, IsOpen
    <2>4. PumpTyped'
      BY <1>1, <1>3, <2>1 DEF PumpTyped
    <2>5. QED BY <1>1, <1>5, <2>1, <2>3, <2>4
            DEF PortSet, EditsLast, ViewCurrent, IsOpen, Queued
  <1>6. QED BY <1>4, <1>5

LEMMA PumpInitial == PumpInit => PumpInv
  <1> SUFFICES ASSUME PumpInit PROVE PumpInv
    OBVIOUS
  <1> USE DEF PumpInit
  <1>1. PortSet /\ EditsLast /\ ViewCurrent
    BY DEF PortSet, EditsLast, ViewCurrent, IsOpen
  <1>2. PumpTyped
    <2>1. \A S : <<>> \in Seq(S)
      OBVIOUS
    <2>2. QED BY <2>1 DEF PumpTyped
  <1>3. logs \o batch = <<>>
    OBVIOUS
  <1>4. LogsInOrder
    BY <1>3, PumpAssumption DEF LogsInOrder, IsOpen, Consecutive, Follows, LastLine, LogsOf
  <1>5. QED BY <1>1, <1>2, <1>4 DEF PumpInv

LEMMA PumpInvariance == PumpSpec => []PumpInv
  <1>1. PumpInv /\ [PumpNext]_pumpVars => PumpInv'
    BY PumpNextCases, DaemonKeeps, WindowKeeps, ReceiveKeeps, FlushKeeps
  <1>2. QED BY <1>1, PumpInitial, PTL DEF PumpSpec

(* However events and windows interleave, and whatever the sizes of the      *)
(* buffers: an open window shows the port, the update flag and the lists     *)
(* once their events are handled, but for the changes that nobody announces  *)
(* (main.rs:132-188, root.rs:65-69, 124-145).                                *)
THEOREM WindowIsCurrent == PumpSpec => []ViewCurrent
  <1>1. PumpInv => ViewCurrent
    BY DEF PumpInv
  <1>2. QED BY <1>1, PumpInvariance, PTL

(* No line is lost, doubled or moved between wsrx.log and the shared buffer, *)
(* and every window has the buffer's lines (main.rs:69-93, 152-169,          *)
(* root.rs:164-186).                                                         *)
THEOREM LinesKeepTheirOrder == PumpSpec => []LogsInOrder
  <1>1. PumpInv => LogsInOrder
    BY DEF PumpInv
  <1>2. QED BY <1>1, PumpInvariance, PTL
=============================================================================
