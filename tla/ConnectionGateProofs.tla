------------------------ MODULE ConnectionGateProofs ------------------------
(***************************************************************************)
(* Theorems about ConnectionGate, for any number of requests and tunnels   *)
(* and any limits of at least one.                                         *)
(***************************************************************************)
EXTENDS ConnectionGate, FiniteSetTheorems, TLAPS

(* The parts of TypeOK that no permit operation touches. *)
LEMMA HoldersFinite ==
  /\ \A k : IsFiniteSet(TunnelHolders(k)) /\ Cardinality(TunnelHolders(k)) \in Nat
  /\ IsFiniteSet(SlotHolders) /\ Cardinality(SlotHolders) \in Nat
  <1>1. \A k : TunnelHolders(k) \in SUBSET Conns
    BY DEF TunnelHolders
  <1>2. SlotHolders \in SUBSET Conns
    BY DEF SlotHolders
  <1>3. QED BY <1>1, <1>2, ConnsAssumption, FS_Subset, FS_CardinalityType

(* A finite set that loses a member has one fewer. *)
LEMMA LosesOne ==
  ASSUME NEW S, NEW x \in S, IsFiniteSet(S)
  PROVE  Cardinality(S \ {x}) = Cardinality(S) - 1 /\ Cardinality(S) > 0
  <1>1. Cardinality(S \ {x}) = Cardinality(S) - 1
    BY FS_RemoveElement
  <1>2. Cardinality(S) # 0
    BY FS_EmptySet
  <1>3. QED BY <1>1, <1>2, FS_CardinalityType

LEMMA IInvInit == Init => IInv
  <1> SUFFICES ASSUME Init PROVE IInv
    OBVIOUS
  <1>1. TypeOK
    BY LimitAssumption DEF Init, TypeOK, Each, Results
  <1>2. Stages
    BY KeysAssumption DEF Init, Stages, Each, Running
  <1>3. \A k \in Keys : TunnelHolders(k) = {}
    BY DEF Init, Each, TunnelHolders
  <1>4. SlotHolders = {}
    BY DEF Init, Each, SlotHolders
  <1>5. PermitsExact
    BY <1>3, <1>4, FS_EmptySet, LimitAssumption DEF Init, PermitsExact, CountsExact, SlotsExact
  <1>6. WithinLimit
    BY LimitAssumption DEF Init, WithinLimit
  <1>7. QED BY <1>1, <1>2, <1>5, <1>6 DEF IInv

(* A step that changes no permit and no key of an owner keeps the accounts. *)
LEMMA AccountsKept ==
  ASSUME PermitsExact, WithinLimit, UNCHANGED <<permits, hold>>,
         \A c \in Conns : key'[c] = key[c] \/ hold[c] = {}
  PROVE  PermitsExact' /\ WithinLimit'
  <1>1. \A k \in Keys : TunnelHolders(k)' = TunnelHolders(k)
    BY DEF TunnelHolders
  <1>2. SlotHolders' = SlotHolders
    BY DEF SlotHolders
  <1>3. QED BY <1>1, <1>2 DEF PermitsExact, CountsExact, SlotsExact, WithinLimit, permits

-----------------------------------------------------------------------------
(* acquire and drop of each permit, with both accounts. *)
LEMMA AcquireTunnelKeeps ==
  ASSUME IInv, NEW c \in Conns, AcquireTunnel(c) PROVE IInv'
  <1> USE DEF IInv
  <1>1. key[c] \in Keys /\ hold[c] = {}
    BY DEF TypeOK, Stages, AcquireTunnel
  <1>2. CASE counts[key[c]] >= PerTunnel
    <2>1. TypeOK' /\ Stages'
      BY <1>1, <1>2, KeysAssumption DEF AcquireTunnel, TypeOK, Stages, Results, Running
    <2>2. UNCHANGED <<permits, hold>> /\ \A d \in Conns : key'[d] = key[d] \/ hold[d] = {}
      BY <1>1, <1>2 DEF AcquireTunnel, TypeOK, permits
    <2>3. QED BY <2>1, <2>2, AccountsKept
  <1>3. CASE ~(counts[key[c]] >= PerTunnel)
    <2>1. TypeOK' /\ Stages'
      BY <1>1, <1>3 DEF AcquireTunnel, TypeOK, Stages, Results, Running
    <2>2. /\ counts' = [counts EXCEPT ![key[c]] = @ + 1]
          /\ hold' = [hold EXCEPT ![c] = {"tunnel"}]
          /\ key' = key /\ slots' = slots
      BY <1>1, <1>3 DEF AcquireTunnel
    <2>3. TunnelHolders(key[c])' = TunnelHolders(key[c]) \cup {c} /\ c \notin TunnelHolders(key[c])
      BY <1>1, <2>2 DEF TunnelHolders, TypeOK
    <2>4. \A k \in Keys \ {key[c]} : TunnelHolders(k)' = TunnelHolders(k)
      BY <1>1, <2>2 DEF TunnelHolders, TypeOK
    <2>5. SlotHolders' = SlotHolders
      BY <1>1, <2>2 DEF SlotHolders, TypeOK
    <2>6. Cardinality(TunnelHolders(key[c])') = Cardinality(TunnelHolders(key[c])) + 1
      BY <2>3, HoldersFinite, FS_AddElement
    <2>7. CountsExact'
      BY <1>1, <2>2, <2>4, <2>6 DEF PermitsExact, CountsExact, TypeOK
    <2>8. SlotsExact' /\ WithinLimit'
      BY <1>1, <1>3, <2>2, <2>5, LimitAssumption
         DEF PermitsExact, SlotsExact, WithinLimit, TypeOK
    <2>9. QED BY <2>1, <2>7, <2>8 DEF PermitsExact
  <1>4. QED BY <1>2, <1>3

LEMMA AcquireSlotKeeps ==
  ASSUME IInv, NEW c \in Conns, AcquireSlot(c) PROVE IInv'
  <1> USE DEF IInv
  <1>1. hold[c] = {"tunnel"}
    BY DEF Stages, AcquireSlot
  <1>2. CASE slots = 0
    <2>1. /\ pc[c] = "counted" /\ pc' = [pc EXCEPT ![c] = "dropping"]
          /\ UNCHANGED <<slots, hold, registered, counts, key, moved, session, result, audit, auditor>>
      BY <1>2 DEF AcquireSlot
    <2>2. TypeOK'
      BY <2>1 DEF TypeOK, Results, Running
    <2>3. Stages'
      <3>1. /\ \A d \in Conns \ {c} : pc'[d] = pc[d]
            /\ pc[c] = "counted" /\ pc'[c] = "dropping"
            /\ UNCHANGED <<hold, key, session, result, audit>>
        BY <2>1 DEF TypeOK
      <3>2. result[c] = "none" /\ audit[c] = "none" /\ key[c] # NoKey /\ ~session[c]
        BY <3>1 DEF Stages, Running
      <3>3. QED BY <1>1, <3>1, <3>2 DEF Stages, Running
    <2>4. QED BY <2>1, <2>2, <2>3, AccountsKept DEF permits
  <1>3. CASE slots # 0
    <2>1. /\ slots' = slots - 1
          /\ hold' = [hold EXCEPT ![c] = {"tunnel", "slot"}]
          /\ key' = key /\ counts' = counts
      BY <1>1, <1>3 DEF AcquireSlot
    <2>2. TypeOK' /\ Stages'
      <3>1. TypeOK'
        BY <1>1, <1>3, <2>1, LimitAssumption DEF AcquireSlot, TypeOK, Results, Running
      <3>2. Stages'
        BY <1>1, <1>3, <2>1 DEF AcquireSlot, TypeOK, Stages, Running
      <3>3. QED BY <3>1, <3>2
    <2>3. SlotHolders' = SlotHolders \cup {c} /\ c \notin SlotHolders
      BY <1>1, <2>1 DEF SlotHolders, TypeOK
    <2>4. \A k \in Keys : TunnelHolders(k)' = TunnelHolders(k)
      BY <1>1, <2>1 DEF TunnelHolders, TypeOK
    <2>5. Cardinality(SlotHolders') = Cardinality(SlotHolders) + 1
      BY <2>3, HoldersFinite, FS_AddElement
    <2>6. SlotsExact'
      BY <2>1, <2>5, HoldersFinite, LimitAssumption DEF PermitsExact, SlotsExact, TypeOK
    <2>7. QED BY <2>1, <2>2, <2>4, <2>6 DEF PermitsExact, CountsExact, WithinLimit
  <1>4. QED BY <1>2, <1>3

(* The locals that Release of the last permit resets. *)
LEMMA ReleaseStages ==
  ASSUME IInv, NEW c \in Conns, NEW p \in {"tunnel", "slot"}, Release(c, p)
  PROVE  Stages'
  <1> USE DEF IInv
  <1>1. CASE hold[c] = {p}
    BY <1>1, KeysAssumption DEF Release, Stages, TypeOK, Running
  <1>2. CASE hold[c] # {p}
    BY <1>2 DEF Release, Stages, TypeOK, Running
  <1>3. QED BY <1>1, <1>2

LEMMA DropTunnelKeeps ==
  ASSUME IInv, NEW c \in Conns, DropTunnel(c) PROVE IInv'
  <1> USE DEF IInv
  <1>1. /\ Release(c, "tunnel") /\ slots' = slots
        /\ pc[c] = "dropping" /\ "tunnel" \in hold[c]
    BY DEF DropTunnel, Release
  <1>0. PICK k0 \in Keys : key[c] = k0
    BY <1>1 DEF Stages, TypeOK
  <1>2. Stages'
    BY <1>1, ReleaseStages
  <1>3. hold' = [hold EXCEPT ![c] = @ \ {"tunnel"}]
    BY <1>1 DEF Release
  <1>4. \A d \in Conns : key'[d] = key[d] \/ (d = c /\ hold[c] = {"tunnel"})
    BY <1>1 DEF Release, TypeOK
  <1>5. TunnelHolders(k0)' = TunnelHolders(k0) \ {c} /\ c \in TunnelHolders(k0)
    BY <1>0, <1>1, <1>3, <1>4 DEF TunnelHolders, TypeOK
  <1>6. \A k \in Keys \ {k0} : TunnelHolders(k)' = TunnelHolders(k)
    BY <1>0, <1>1, <1>3, <1>4 DEF TunnelHolders, TypeOK
  <1>7. SlotHolders' = SlotHolders
    BY <1>3 DEF SlotHolders, TypeOK
  <1>8. /\ Cardinality(TunnelHolders(k0)') = Cardinality(TunnelHolders(k0)) - 1
        /\ Cardinality(TunnelHolders(k0)) > 0
    BY <1>5, HoldersFinite, LosesOne
  <1>9. counts[k0] > 0 /\ counts' = [counts EXCEPT ![k0] = @ - 1]
    <2>1. counts[k0] = Cardinality(TunnelHolders(k0)) /\ counts[k0] \in Nat
      BY DEF PermitsExact, CountsExact, TypeOK
    <2>2. counts[k0] > 0
      BY <1>8, <2>1
    <2>3. counts' = [counts EXCEPT ![k0] = IF @ = 0 THEN 0 ELSE @ - 1]
      BY <1>0 DEF DropTunnel
    <2>4. (IF counts[k0] = 0 THEN 0 ELSE counts[k0] - 1) = counts[k0] - 1
      BY <2>1, <2>2
    <2>5. QED BY <2>2, <2>3, <2>4, Zenon
  <1>10. TypeOK'
    <2>1. counts' \in [Keys -> Nat]
      BY <1>9 DEF TypeOK
    <2>2. CASE hold[c] = {"tunnel"}
      BY <1>1, <2>1, <2>2 DEF Release, TypeOK, Results
    <2>3. CASE hold[c] # {"tunnel"}
      BY <1>1, <2>1, <2>3 DEF Release, TypeOK, Results
    <2>4. QED BY <2>2, <2>3
  <1>11. CountsExact'
    <2>1. counts'[k0] = Cardinality(TunnelHolders(k0)')
      BY <1>8, <1>9 DEF PermitsExact, CountsExact, TypeOK
    <2>2. \A k \in Keys \ {k0} : counts'[k] = Cardinality(TunnelHolders(k)')
      BY <1>6, <1>9 DEF PermitsExact, CountsExact, TypeOK
    <2>3. QED BY <2>1, <2>2 DEF CountsExact
  <1>12. SlotsExact' /\ WithinLimit'
    BY <1>1, <1>7, <1>9, LimitAssumption DEF PermitsExact, SlotsExact, WithinLimit, TypeOK
  <1>13. QED BY <1>2, <1>10, <1>11, <1>12 DEF PermitsExact

LEMMA DropSlotKeeps ==
  ASSUME IInv, NEW c \in Conns, DropSlot(c) PROVE IInv'
  <1> USE DEF IInv
  <1>1. /\ Release(c, "slot") /\ counts' = counts /\ slots' = slots + 1
        /\ pc[c] = "dropping" /\ "slot" \in hold[c] /\ key[c] \in Keys
    BY DEF DropSlot, Release, Stages, TypeOK
  <1>2. Stages'
    BY <1>1, ReleaseStages
  <1>3. hold' = [hold EXCEPT ![c] = @ \ {"slot"}]
    BY <1>1 DEF Release
  <1>4. \A d \in Conns : key'[d] = key[d] \/ (d = c /\ hold[c] = {"slot"})
    BY <1>1 DEF Release, TypeOK
  <1>5. SlotHolders' = SlotHolders \ {c} /\ c \in SlotHolders
    BY <1>1, <1>3 DEF SlotHolders, TypeOK
  <1>6. \A k \in Keys : TunnelHolders(k)' = TunnelHolders(k)
    BY <1>1, <1>3, <1>4 DEF TunnelHolders, TypeOK
  <1>7. /\ Cardinality(SlotHolders') = Cardinality(SlotHolders) - 1
        /\ Cardinality(SlotHolders) > 0
    BY <1>5, HoldersFinite, LosesOne
  <1>8. SlotsExact' /\ slots' \in 0 .. MaxConnections
    BY <1>1, <1>7, HoldersFinite, LimitAssumption DEF PermitsExact, SlotsExact, TypeOK
  <1>9. TypeOK'
    <2>1. CASE hold[c] = {"slot"}
      BY <1>1, <1>8, <2>1 DEF Release, TypeOK, Results
    <2>2. CASE hold[c] # {"slot"}
      BY <1>1, <1>8, <2>2 DEF Release, TypeOK, Results
    <2>3. QED BY <2>1, <2>2
  <1>10. CountsExact' /\ WithinLimit'
    BY <1>1, <1>6 DEF PermitsExact, CountsExact, WithinLimit
  <1>11. QED BY <1>2, <1>8, <1>9, <1>10 DEF PermitsExact

-----------------------------------------------------------------------------
(* The stages between admission and release. *)
Quiet(c) == \/ Upgraded(c) \/ Connect(c) \/ StartCapture(c) \/ Transfer(c) \/ ProxyReturns(c)
            \/ ConnectionTimeout(c) \/ FinishCapture(c) \/ Audit(c)

LEMMA QuietOwners ==
  ASSUME NEW c \in Conns, Quiet(c)
  PROVE  UNCHANGED <<registered, permits, hold, key>>
  BY DEF Quiet, Upgraded, Upgrade, UpgradeFails, Connect, TargetConnected, TargetFails,
         StartCapture, Transfer, ProxyReturns, ConnectionTimeout, StopProxy, FinishCapture,
         Audit, LockAudit, AppendAudit

LEMMA QuietKeeps == ASSUME IInv, NEW c \in Conns, Quiet(c) PROVE IInv'
  <1> USE DEF IInv
  <1>1. TypeOK /\ Stages
    OBVIOUS
  <1>2. ASSUME Upgrade(c) PROVE TypeOK' /\ Stages'
    BY <1>1, <1>2, QuietOwners DEF Upgrade, At, TypeOK, Stages, Results, Running, permits
  <1>3. ASSUME UpgradeFails(c) PROVE TypeOK' /\ Stages'
    <2>1. UNCHANGED <<registered, permits, hold, key, moved, session, result, audit, auditor>>
      BY <1>3 DEF UpgradeFails
    <2>2. pc[c] = "upgrading" /\ pc' = [pc EXCEPT ![c] = "dropping"]
      BY <1>3 DEF UpgradeFails, At
    <2>3. TypeOK'
      BY <1>1, <2>1, <2>2 DEF TypeOK, permits
    <2>4. Stages'
      <3>1. hold[c] # {} /\ key[c] # NoKey /\ result[c] = "none" /\ audit[c] = "none" /\ ~session[c]
        BY <1>1, <2>2 DEF Stages, Running
      <3>2. QED BY <1>1, <2>1, <2>2, <3>1 DEF TypeOK, Stages, Running
    <2>5. QED BY <2>3, <2>4
  <1>4. ASSUME TargetConnected(c) PROVE TypeOK' /\ Stages'
    BY <1>1, <1>4, QuietOwners DEF TargetConnected, At, TypeOK, Stages, Results, Running, permits
  <1>5. ASSUME TargetFails(c) PROVE TypeOK' /\ Stages'
    BY <1>1, <1>5, QuietOwners DEF TargetFails, At, TypeOK, Stages, Results, Running, permits
  <1>6. ASSUME StartCapture(c) PROVE TypeOK' /\ Stages'
    BY <1>1, <1>6, QuietOwners DEF StartCapture, At, TypeOK, Stages, Results, Running, permits
  <1>7. ASSUME Transfer(c) PROVE TypeOK' /\ Stages'
    BY <1>1, <1>7, QuietOwners DEF Transfer, TypeOK, Stages, Results, Running, permits
  <1>8. ASSUME ProxyReturns(c) PROVE TypeOK' /\ Stages'
    BY <1>1, <1>8, QuietOwners DEF ProxyReturns, StopProxy, Classify, At, TypeOK, Stages, Results, Running, permits
  <1>9. ASSUME ConnectionTimeout(c) PROVE TypeOK' /\ Stages'
    BY <1>1, <1>9, QuietOwners DEF ConnectionTimeout, StopProxy, At, TypeOK, Stages, Results, Running, permits
  <1>10. ASSUME FinishCapture(c) PROVE TypeOK' /\ Stages'
    BY <1>1, <1>10, QuietOwners DEF FinishCapture, At, TypeOK, Stages, Results, Running, permits
  <1>11. ASSUME LockAudit(c) PROVE TypeOK' /\ Stages'
    BY <1>1, <1>11, QuietOwners DEF LockAudit, At, TypeOK, Stages, Results, Running, permits
  <1>12. ASSUME AppendAudit(c) PROVE TypeOK' /\ Stages'
    BY <1>1, <1>12, QuietOwners DEF AppendAudit, At, TypeOK, Stages, Results, Running, permits
  <1>13. TypeOK' /\ Stages'
    BY <1>2, <1>3, <1>4, <1>5, <1>6, <1>7, <1>8, <1>9, <1>10, <1>11, <1>12 DEF Quiet, Upgraded, Connect, Audit
  <1>14. QED BY <1>13, QuietOwners, AccountsKept

LEMMA LookupKeeps ==
  ASSUME IInv, NEW c \in Conns, NEW k \in Keys, Lookup(c, k) PROVE IInv'
  <1> USE DEF IInv
  <1>1. hold[c] = {} /\ k # NoKey
    BY KeysAssumption DEF Lookup, At, Stages
  <1>2. TypeOK' /\ Stages'
    BY <1>1 DEF Lookup, At, TypeOK, Stages, Results, Running, permits
  <1>3. UNCHANGED <<permits, hold>> /\ \A d \in Conns : key'[d] = key[d] \/ hold[d] = {}
    BY <1>1 DEF Lookup, TypeOK
  <1>4. QED BY <1>2, <1>3, AccountsKept

LEMMA IInvNext == ASSUME IInv, [Next]_vars PROVE IInv'
  <1>1. ASSUME NEW k \in Keys, Open(k) \/ Close(k)
        PROVE  IInv'
    <2>1. UNCHANGED <<permits, conn, auditor>> /\ registered' \subseteq Keys
      BY <1>1 DEF Open, Close, IInv, TypeOK
    <2>2. TypeOK' /\ Stages'
      BY <2>1 DEF IInv, TypeOK, Stages, permits, conn, Results, Running
    <2>3. QED BY <2>1, <2>2, AccountsKept DEF IInv, conn
  <1>2. CASE UNCHANGED vars
    <2>1. TypeOK' /\ Stages'
      BY <1>2 DEF IInv, TypeOK, Stages, vars, permits, conn, Results, Running
    <2>2. QED BY <1>2, <2>1, AccountsKept DEF IInv, vars, conn
  <1>3. QED
    BY <1>1, <1>2, LookupKeeps, AcquireTunnelKeeps, AcquireSlotKeeps, QuietKeeps,
       DropTunnelKeeps, DropSlotKeeps DEF Next, Quiet, Admit, Drop

(* Types, for any limits: no counter goes negative, none grows past a limit. *)
THEOREM TypeCorrect == Spec => []TypeOK
  <1>1. IInv => TypeOK BY DEF IInv
  <1>2. QED BY <1>1, IInvInit, IInvNext, PTL DEF Spec

(* No path out of process_traffic leaks a permit or returns one twice. *)
THEOREM PermitsAlwaysExact == Spec => []PermitsExact
  <1>1. IInv => PermitsExact BY DEF IInv
  <1>2. QED BY <1>1, IInvInit, IInvNext, PTL DEF Spec

(* Both permits stay with an upgraded connection until its audit attempt. *)
THEOREM AlwaysAuditedBeforeRelease == Spec => []AuditedBeforeRelease
  <1>1. IInv => AuditedBeforeRelease
    BY DEF IInv, TypeOK, Stages, AuditedBeforeRelease, Running
  <1>2. QED BY <1>1, IInvInit, IInvNext, PTL DEF Spec

-----------------------------------------------------------------------------
(* Refinement: the second permit is the moment of entry, the first one       *)
(* returned the moment of leaving.                                           *)
LEMMA LiveInit == Init => Abstract!Init
  BY DEF Init, Each, Abstract!Init, liveConns

LEMMA LiveStutters ==
  ASSUME UNCHANGED hold, \A c \in Conns : key'[c] = key[c] \/ hold[c] = {}
  PROVE  liveConns' = liveConns
  BY DEF liveConns

(* The instance counts with the same operator. *)
LEMMA SameCardinality == ASSUME NEW S PROVE Abstract!Cardinality(S) = Cardinality(S)
  BY DEF Abstract!Cardinality, Cardinality

LEMMA SlotEnters ==
  ASSUME IInv, NEW c \in Conns, AcquireSlot(c)
  PROVE  Abstract!Next \/ liveConns' = liveConns
  <1> USE DEF IInv
  <1>1. CASE slots = 0
    BY <1>1, LiveStutters DEF AcquireSlot
  <1>2. CASE slots # 0
    <2>1. hold[c] = {"tunnel"} /\ key[c] # NoKey
      BY DEF AcquireSlot, Stages
    <2>2. PICK k \in Keys : key[c] = k
      BY <2>1 DEF TypeOK
    <2>3. hold' = [hold EXCEPT ![c] = {"tunnel", "slot"}] /\ key' = key
      BY <1>2, <2>1 DEF AcquireSlot
    <2>4. liveConns[c] = NoKey /\ liveConns' = [liveConns EXCEPT ![c] = k]
      BY <2>1, <2>2, <2>3 DEF liveConns, TypeOK
    <2>5. Cardinality(Abstract!LiveOn(k)) < PerTunnel
      <3>1. Abstract!LiveOn(k) \subseteq TunnelHolders(k) \ {c}
        BY <2>1, <2>2, KeysAssumption DEF Abstract!LiveOn, liveConns, TunnelHolders
      <3>2. c \in TunnelHolders(k)
        BY <2>1, <2>2 DEF TunnelHolders
      <3>3. /\ IsFiniteSet(TunnelHolders(k) \ {c})
            /\ Cardinality(TunnelHolders(k) \ {c}) = Cardinality(TunnelHolders(k)) - 1
        BY <3>2, HoldersFinite, LosesOne, FS_RemoveElement
      <3>4. Cardinality(Abstract!LiveOn(k)) <= Cardinality(TunnelHolders(k) \ {c})
        BY <3>1, <3>3, FS_Subset
      <3>5. /\ Cardinality(Abstract!LiveOn(k)) \in Nat
            /\ Cardinality(TunnelHolders(k)) \in Nat
        BY <3>1, <3>3, HoldersFinite, FS_Subset, FS_CardinalityType
      <3>6. Cardinality(TunnelHolders(k)) <= PerTunnel
        BY DEF PermitsExact, CountsExact, WithinLimit
      <3>7. QED BY <3>3, <3>4, <3>5, <3>6, LimitAssumption
    <2>6. Cardinality(Abstract!AllLive) < MaxConnections
      <3>1. Abstract!AllLive \subseteq SlotHolders
        BY DEF Abstract!AllLive, liveConns, SlotHolders
      <3>2. /\ Cardinality(Abstract!AllLive) <= Cardinality(SlotHolders)
            /\ Cardinality(Abstract!AllLive) \in Nat
        BY <3>1, HoldersFinite, FS_Subset, FS_CardinalityType
      <3>3. slots \in Nat /\ slots > 0 /\ slots + Cardinality(SlotHolders) = MaxConnections
        BY <1>2, LimitAssumption DEF PermitsExact, SlotsExact, TypeOK
      <3>4. QED BY <3>2, <3>3, HoldersFinite, LimitAssumption
    <2>7. QED BY <2>4, <2>5, <2>6, SameCardinality DEF Abstract!Next, Abstract!Enter
  <1>3. QED BY <1>1, <1>2

LEMMA DropLeaves ==
  ASSUME IInv, NEW c \in Conns, NEW p \in {"tunnel", "slot"}, Release(c, p)
  PROVE  Abstract!Next \/ liveConns' = liveConns
  <1> USE DEF IInv
  <1>1. hold' = [hold EXCEPT ![c] = @ \ {p}] /\ p \in hold[c] /\ key[c] \in Keys
    BY DEF Release, Stages, TypeOK
  <1>2. \A d \in Conns : d # c => key'[d] = key[d]
    BY DEF Release, TypeOK
  <1>3. CASE hold[c] = {"tunnel", "slot"}
    <2>1. liveConns[c] = key[c] /\ key[c] # NoKey
      BY <1>1, <1>3, KeysAssumption DEF liveConns
    <2>2. liveConns' = [liveConns EXCEPT ![c] = NoKey]
      BY <1>1, <1>2, <1>3 DEF liveConns, TypeOK
    <2>3. QED BY <2>1, <2>2 DEF Abstract!Next, Abstract!Leave
  <1>4. CASE hold[c] # {"tunnel", "slot"}
    BY <1>1, <1>2, <1>4 DEF liveConns, TypeOK
  <1>5. QED BY <1>3, <1>4

LEMMA LiveNext == ASSUME IInv, [Next]_vars PROVE [Abstract!Next]_liveConns
  <1>1. ASSUME NEW c \in Conns, NEW k \in Keys, Lookup(c, k)
        PROVE  liveConns' = liveConns
    BY <1>1, LiveStutters DEF Lookup, At, IInv, Stages, TypeOK
  <1>2. ASSUME NEW c \in Conns, AcquireTunnel(c)
        PROVE  liveConns' = liveConns
    <2>1. hold[c] = {} /\ \A d \in Conns : d # c => hold'[d] = hold[d] /\ key'[d] = key[d]
      BY <1>2 DEF AcquireTunnel, IInv, Stages, TypeOK
    <2>2. hold'[c] = {} \/ hold'[c] = {"tunnel"}
      BY <1>2, <2>1 DEF AcquireTunnel, IInv, TypeOK
    <2>3. hold[c] # {"tunnel", "slot"} /\ hold'[c] # {"tunnel", "slot"}
      BY <2>1, <2>2
    <2>4. QED BY <2>1, <2>3 DEF liveConns
  <1>3. ASSUME NEW c \in Conns, Quiet(c)
        PROVE  liveConns' = liveConns
    BY <1>3, QuietOwners, LiveStutters
  <1>4. ASSUME NEW k \in Keys, Open(k) \/ Close(k)
        PROVE  liveConns' = liveConns
    BY <1>4, LiveStutters DEF Open, Close, conn
  <1>5. CASE UNCHANGED vars
    BY <1>5, LiveStutters DEF vars, conn
  <1>6. QED
    BY <1>1, <1>2, <1>3, <1>4, <1>5, SlotEnters, DropLeaves
       DEF Next, Quiet, Admit, Drop, DropTunnel, DropSlot

(* The gateway's admission implements Admission: at most PerTunnel           *)
(* connections on a tunnel and MaxConnections in all, whatever interleaves.  *)
THEOREM GateImplementsAdmission == Spec => ImplementsAdmission
  <1>1. QED
    BY LiveInit, LiveNext, IInvInit, IInvNext, PTL DEF Spec, ImplementsAdmission, Abstract!Spec
=============================================================================
