------------------------ MODULE TunnelRegistryProofs ------------------------
(***************************************************************************)
(* Theorems about TunnelRegistry, for every number of requests, keys and   *)
(* targets and with I/O errors, abandoned requests and crashes.            *)
(***************************************************************************)
EXTENDS TunnelRegistry, TLAPS

Replies == {"none", "ok", "refused", "not_found", "gone", "failed", "lost"}

LEMMA CleanerIsTask == Cleaner \in Tasks /\ Clients \subseteq Tasks
  BY DEF Tasks

(* Dropping expired records from a registry leaves a registry. *)
LEMMA LiveIsRegistry == ASSUME NEW reg \in Registries PROVE Live(reg) \in Registries
  BY DEF Live, Registries

LEMMA EmptyIsRegistry == Empty \in Registries
  BY DEF Empty, Registries

(* Whatever load_registry finds on disk, it comes back with a registry. *)
LEMMA LoadIsRegistry == ASSUME file \in Contents PROVE Load \in Registries
  <1>1. CASE file \in {Missing} \cup Damaged
    BY <1>1, EmptyIsRegistry DEF Load
  <1>2. CASE file \in Registries
    BY <1>2, EmptyIsRegistry, LiveIsRegistry DEF Load
  <1>3. QED BY <1>1, <1>2 DEF Contents

LEMMA OverlayIsContents ==
  ASSUME NEW old, NEW new \in Registries
  PROVE  Overlay(old, new) \subseteq Contents
  BY DEF Overlay, Contents, Damaged

-----------------------------------------------------------------------------
LEMMA TypeInit == Init => TypeOK
  BY TimeAssumption, EmptyIsRegistry DEF Init, TypeOK, Each, Contents, Damaged

LEMMA BeginPersistType ==
  ASSUME TypeOK, NEW t \in Tasks, NEW o \in {"launch", "close", "sweep", "evict"},
         BeginPersist(t, o), registry' \in Registries,
         reply' \in [Tasks -> Replies]
  PROVE  TypeOK'
  BY DEF Replies, TypeOK, BeginPersist, disk, Persisting, Contents, Damaged, Tasks

LEMMA ReturnType ==
  ASSUME TypeOK, NEW t \in Tasks,
         NEW a \in Replies,
         Return(t, a), tmp' \in Contents, file' \in Contents, UNCHANGED history
  PROVE  TypeOK'
  BY EmptyIsRegistry DEF Replies, TypeOK, Return, history, Contents, Damaged, Registries, Records, Tasks

LEMMA AnswerType ==
  ASSUME TypeOK, NEW t \in Tasks,
         NEW a \in Replies,
         Answer(t, a)
  PROVE  TypeOK'
  BY DEF Replies, TypeOK, Answer, disk, history, Contents, Damaged, Registries, Records, Tasks

LEMMA PutType ==
  ASSUME TypeOK, NEW t \in Tasks, NEW a \in SUBSET Contents, NEW b \in SUBSET Contents,
         Put(t, a, b)
  PROVE  tmp' \in Contents /\ file' \in Contents
  BY DEF TypeOK, Put

LEMMA OutcomeIsReply ==
  ASSUME NEW t \in Tasks, NEW ok \in BOOLEAN PROVE Outcome(t, ok) \in Replies
  BY DEF Outcome, Replies

(* Every handler, file operation and fault keeps the types. *)
LEMMA TypeNext == ASSUME TypeOK, [Next]_vars PROVE TypeOK'
  <1> USE CleanerIsTask
  <1>1. ASSUME NEW t \in Clients, NEW k \in Keys, NEW r \in Records, LaunchTunnel(t, k, r)
        PROVE  TypeOK'
    <2>1. CASE Expired(r)
      BY <1>1, <2>1, AnswerType DEF LaunchTunnel, Replies
    <2>2. CASE ~Expired(r)
      <3>1. /\ BeginPersist(t, "launch")
            /\ registry' = [registry EXCEPT ![k] = r]
            /\ reply' = [reply EXCEPT ![t] = "none"]
        BY <1>1, <2>2 DEF LaunchTunnel
      <3>2. registry' \in Registries /\ reply' \in [Tasks -> Replies]
        BY <3>1 DEF TypeOK, Registries, Replies
      <3>3. QED BY <3>1, <3>2, BeginPersistType
    <2>3. QED BY <2>1, <2>2
  <1>2. ASSUME NEW t \in Clients, NEW k \in Keys, CloseTunnel(t, k)
        PROVE  TypeOK'
    <2>1. CASE registry[k] = NoRecord
      BY <1>2, <2>1, AnswerType DEF CloseTunnel, Replies
    <2>2. CASE registry[k] # NoRecord
      <3>1. /\ BeginPersist(t, "close")
            /\ registry' = [registry EXCEPT ![k] = NoRecord]
            /\ reply' = [reply EXCEPT ![t] = "none"]
        BY <1>2, <2>2 DEF CloseTunnel
      <3>2. registry' \in Registries /\ reply' \in [Tasks -> Replies]
        BY <3>1 DEF TypeOK, Registries, Replies
      <3>3. QED BY <3>1, <3>2, BeginPersistType
    <2>3. QED BY <2>1, <2>2
  <1>3. ASSUME NEW t \in Tasks, RemoveExpired(t)
        PROVE  TypeOK'
    <2>1. CASE Live(registry) = registry
      BY <1>3, <2>1, AnswerType DEF RemoveExpired, Replies
    <2>2. CASE Live(registry) # registry
      <3>1. /\ BeginPersist(t, "sweep")
            /\ registry' = Live(registry)
            /\ reply' = [reply EXCEPT ![t] = "none"]
        BY <1>3, <2>2 DEF RemoveExpired
      <3>2. registry' \in Registries /\ reply' \in [Tasks -> Replies]
        BY <3>1, LiveIsRegistry DEF TypeOK, Replies
      <3>3. QED BY <3>1, <3>2, BeginPersistType
    <2>3. QED BY <2>1, <2>2
  <1>4. ASSUME NEW t \in Clients, NEW k \in Keys, ActiveRecord(t, k)
        PROVE  TypeOK'
    <2>1. CASE Expired(registry[k])
      BY <1>4, <2>1 DEF ActiveRecord, TypeOK, disk, history, Contents, Damaged, Tasks
    <2>2. CASE ~Expired(registry[k])
      BY <1>4, <2>2, AnswerType DEF ActiveRecord, Replies
    <2>3. QED BY <2>1, <2>2
  <1>5. ASSUME NEW t \in Clients, Evict(t)
        PROVE  TypeOK'
    <2>1. /\ BeginPersist(t, "evict")
          /\ registry' = [registry EXCEPT ![key[t]] = NoRecord]
          /\ reply' = reply
      BY <1>5 DEF Evict
    <2>2. registry' \in Registries /\ reply' \in [Tasks -> Replies]
      BY <2>1 DEF TypeOK, Registries, Replies
    <2>3. QED BY <2>1, <2>2, BeginPersistType
  <1>6. ASSUME NEW t \in Clients, Abandon(t)
        PROVE  TypeOK'
    <2>1. UNCHANGED <<disk, history>>
      BY <1>6 DEF Abandon
    <2>2. CASE UNCHANGED <<up, now, registry, pc, op, key, snap, fd, reply>>
               /\ abandoned' = abandoned \cup {t}
      BY <2>1, <2>2 DEF TypeOK, disk, history, Contents, Damaged, Tasks
    <2>3. CASE Return(t, "lost")
      <3>1. tmp' \in Contents /\ file' \in Contents
        BY <2>1 DEF TypeOK, disk
      <3>2. QED BY <2>1, <2>3, <3>1, ReturnType DEF Replies
    <2>4. QED BY <1>6, <2>2, <2>3 DEF Abandon
  <1>7. ASSUME NEW t \in Tasks, Snapshot(t)
        PROVE  TypeOK'
    BY <1>7 DEF Snapshot, TypeOK, disk, history, Contents, Damaged, Tasks
  <1>8. ASSUME NEW t \in Tasks, Open(t)
        PROVE  TypeOK'
    BY <1>8 DEF Open, TypeOK, history, Contents, Damaged, Tasks
  <1>9. ASSUME NEW t \in Tasks, Write(t)
        PROVE  TypeOK'
    <2>1. tmp' \in Contents /\ file' \in Contents
      <3>1. snap[t] \in Registries
        BY DEF TypeOK
      <3>2. /\ Overlay(tmp, snap[t]) \in SUBSET Contents
            /\ Overlay(file, snap[t]) \in SUBSET Contents
        BY <3>1, OverlayIsContents
      <3>3. QED BY <1>9, <3>2, PutType DEF Write
    <2>2. CASE t \in abandoned
      BY <1>9, <2>1, <2>2, ReturnType DEF Write, Replies
    <2>3. CASE t \notin abandoned
      BY <1>9, <2>1, <2>3 DEF Write, TypeOK, history, Tasks
    <2>4. QED BY <2>2, <2>3
  <1>10. ASSUME NEW t \in Tasks, Rename(t)
         PROVE  TypeOK'
    <2>1. reply' \in [Tasks -> Replies]
      BY <1>10, OutcomeIsReply DEF Rename, TypeOK, Replies
    <2>2. snap' \in [Tasks -> Registries]
      BY <1>10, EmptyIsRegistry DEF Rename, TypeOK
    <2>3. fd' \in [Tasks -> {"none", "tmp", "file", "unlinked"}]
      BY <1>10 DEF Rename, TypeOK
    <2>4. /\ pc' \in [Tasks -> {"idle", "evict", "persist", "snapped", "opened", "written"}]
          /\ op' \in [Tasks -> {"none", "launch", "close", "sweep", "evict"}]
          /\ \A u \in Tasks : pc'[u] = "evict" => key'[u] \in Keys
      BY <1>10 DEF Rename, TypeOK
    <2>5. tmp' \in Contents /\ file' \in Contents /\ trust' \in {"exact", "whole", "none"}
      BY <1>10 DEF Rename, TypeOK, Contents
    <2>6. abandoned' \subseteq Clients
      BY <1>10 DEF Rename, TypeOK
    <2>7. QED BY <1>10, <2>1, <2>2, <2>3, <2>4, <2>5, <2>6 DEF Rename, TypeOK, Replies
  <1>11. ASSUME NEW t \in Tasks, RenameMissing(t)
         PROVE  TypeOK'
    BY <1>11, ReturnType, OutcomeIsReply DEF RenameMissing, disk, TypeOK
  <1>12. ASSUME NEW t \in Tasks, PersistError(t)
         PROVE  TypeOK'
    <2>1. tmp' \in Contents /\ file' \in Contents
      <3>1. {tmp, Torn} \in SUBSET Contents /\ {file, Torn} \in SUBSET Contents
        BY DEF TypeOK, Contents, Damaged
      <3>2. CASE pc[t] = "opened"
        BY <1>12, <3>1, <3>2, PutType DEF PersistError
      <3>3. CASE pc[t] # "opened"
        BY <1>12, <3>3 DEF PersistError, disk, TypeOK
      <3>4. QED BY <3>2, <3>3
    <2>2. Outcome(t, FALSE) \in Replies
      BY OutcomeIsReply
    <2>3. QED BY <1>12, <2>1, <2>2, ReturnType DEF PersistError
  <1>13. CASE Tick
    BY <1>13, TimeAssumption DEF Tick, TypeOK, memory, disk, history, Contents, Damaged
  <1>14. CASE Crash
    BY <1>14, EmptyIsRegistry DEF Crash, TypeOK, Each, disk, Contents, Damaged
  <1>15. CASE Restart
    <2>1. registry' \in Registries
      BY <1>15, LoadIsRegistry DEF Restart, TypeOK
    <2>2. QED BY <1>15, <2>1 DEF Restart, TypeOK, disk, Contents, Damaged
  <1>16. CASE UNCHANGED vars
    BY <1>16 DEF vars, memory, disk, history, TypeOK, Contents, Damaged
  <1>17. QED
    BY <1>1, <1>2, <1>3, <1>4, <1>5, <1>6, <1>7, <1>8, <1>9, <1>10, <1>11, <1>12, <1>13,
       <1>14, <1>15, <1>16 DEF Next, Request, Persist

(* Type correctness of the registry, its handlers and its files. *)
THEOREM TypeCorrect == Spec => []TypeOK
  <1>1. QED BY TypeInit, TypeNext, PTL DEF Spec

-----------------------------------------------------------------------------
(* Expiry only ever adds to what is expired: two registries with the same    *)
(* live part keep having the same live part as time passes.                  *)
LEMMA LiveLater ==
  ASSUME NEW a \in Registries, NEW b \in Registries, Live(a) = Live(b),
         now \in Nat, now' = now + 1
  PROVE  [k \in Keys |-> IF Expired(a[k])' THEN NoRecord ELSE a[k]]
           = [k \in Keys |-> IF Expired(b[k])' THEN NoRecord ELSE b[k]]
  <1>1. SUFFICES ASSUME NEW k \in Keys
                 PROVE  (IF Expired(a[k])' THEN NoRecord ELSE a[k])
                          = (IF Expired(b[k])' THEN NoRecord ELSE b[k])
    OBVIOUS
  <1>2. (IF Expired(a[k]) THEN NoRecord ELSE a[k]) = (IF Expired(b[k]) THEN NoRecord ELSE b[k])
    BY DEF Live
  <1>3. /\ a[k] \in Records \cup {NoRecord}
        /\ b[k] \in Records \cup {NoRecord}
    BY DEF Registries
  <1>4. \A r \in Records \cup {NoRecord} : Expired(r) => Expired(r)'
    BY TimeAssumption DEF Expired, Records
  <1>5. ~Expired(NoRecord) /\ ~Expired(NoRecord)'
    BY DEF Expired
  <1>6. QED BY <1>2, <1>3, <1>4, <1>5

LEMMA LiveIdempotent == ASSUME NEW reg \in Registries PROVE Live(Live(reg)) = Live(reg)
  BY DEF Live, Registries, Expired

LEMMA RegistryParses ==
  ASSUME NEW reg \in Registries PROVE reg \notin {Missing} \cup Damaged
  BY SentinelAssumption

(* A new persist keeps the invariant: it is alone, or trust is gone. *)
LEMMA BeginKeeps ==
  ASSUME IInv, NEW t \in Tasks, NEW o, up, pc[t] \in {"idle", "evict"}, BeginPersist(t, o)
  PROVE  DownIsIdle' /\ TrustedIsAlone' /\ AloneIsCurrent' /\ FileWhole' /\ DiskExact'
  <1> USE DEF IInv
  <1>1. Persisting' = Persisting \cup {t}
    BY DEF BeginPersist, Persisting, TypeOK
  <1>2. pc'[t] = "persist"
    BY DEF BeginPersist, TypeOK
  <1>3. up' /\ trust' # "exact"
    BY DEF BeginPersist
  <1>4. FileWhole'
    BY DEF FileWhole, BeginPersist, disk
  <1>5. TrustedIsAlone'
    BY <1>1 DEF TrustedIsAlone, BeginPersist
  <1>6. AloneIsCurrent'
    BY <1>1, <1>2 DEF AloneIsCurrent, BeginPersist
  <1>7. QED BY <1>3, <1>4, <1>5, <1>6 DEF DownIsIdle, DiskExact

(* A task that leaves without touching the published file keeps it. *)
LEMMA ReturnKeeps ==
  ASSUME IInv, NEW t \in Tasks, NEW a, Return(t, a), UNCHANGED history,
         pc[t] # "idle",
         file' = file \/ (t \in Persisting /\ trust = "none"),
         tmp' = tmp \/ t \in Persisting
  PROVE  DownIsIdle' /\ TrustedIsAlone' /\ AloneIsCurrent' /\ FileWhole' /\ DiskExact'
  <1> USE DEF IInv
  <1>1. Persisting' = Persisting \ {t}
    BY DEF Return, Persisting, TypeOK
  <1>2. DownIsIdle' /\ up /\ up' /\ registry' = registry
    BY DEF DownIsIdle, Return, TypeOK
  <1>3. TrustedIsAlone'
    BY <1>1 DEF TrustedIsAlone, history
  <1>4. FileWhole'
    BY DEF FileWhole, history
  <1>5. AloneIsCurrent'
    <2>1. SUFFICES ASSUME NEW u \in alone \cap (Persisting \ {t})
                   PROVE  /\ Persisting' = {u}
                          /\ pc'[u] # "persist" => snap'[u] = registry'
                          /\ pc'[u] = "opened" => fd'[u] = "tmp" /\ tmp' = Blank
                          /\ pc'[u] = "written" => tmp' = registry'
      BY <1>1 DEF AloneIsCurrent, history
    <2>2. Persisting = {u} /\ u # t /\ t \notin Persisting
      BY DEF AloneIsCurrent
    <2>3. pc'[u] = pc[u] /\ snap'[u] = snap[u] /\ fd'[u] = fd[u] /\ tmp' = tmp
      BY <2>2 DEF Return, TypeOK, Persisting
    <2>4. QED BY <1>1, <1>2, <2>2, <2>3 DEF AloneIsCurrent
  <1>6. DiskExact'
    <2>1. SUFFICES ASSUME trust' = "exact" PROVE (Load = Live(registry))'
      BY <1>2 DEF DiskExact
    <2>2. trust = "exact"
      BY <2>1 DEF history
    <2>3. file' = file /\ now' = now
      BY <2>2 DEF Return
    <2>4. QED BY <1>2, <2>2, <2>3 DEF DiskExact, Load, Live, Expired
  <1>7. QED BY <1>2, <1>3, <1>4, <1>5, <1>6

(* An answer, a lookup: nothing the invariant speaks of changes. *)
LEMMA AnswerKeeps ==
  ASSUME IInv, UNCHANGED <<up, now, registry, snap, fd, disk, history>>,
         \A t \in Tasks : pc'[t] = pc[t] \/ (up /\ pc[t] = "idle" /\ pc'[t] = "evict")
  PROVE  DownIsIdle' /\ TrustedIsAlone' /\ AloneIsCurrent' /\ FileWhole' /\ DiskExact'
  <1> USE DEF IInv, disk, history
  <1>1. Persisting' = Persisting /\ \A t \in Persisting : pc'[t] = pc[t]
    BY DEF Persisting
  <1>2. DownIsIdle'
    BY DEF DownIsIdle
  <1>3. TrustedIsAlone' /\ FileWhole'
    BY <1>1 DEF TrustedIsAlone, FileWhole
  <1>4. AloneIsCurrent'
    BY <1>1 DEF AloneIsCurrent
  <1>5. DiskExact'
    BY DEF DiskExact, Load, Live, Expired
  <1>6. QED BY <1>2, <1>3, <1>4, <1>5

LEMMA IInvInit == Init => IInv
  <1> SUFFICES ASSUME Init PROVE IInv
    OBVIOUS
  <1>1. Persisting = {}
    BY DEF Init, Each, Persisting
  <1>2. FileWhole
    BY SentinelAssumption DEF Init, FileWhole
  <1>3. DiskExact
    BY DEF Init, DiskExact, Load, Live, Expired, Empty
  <1>4. QED
    BY <1>1, <1>2, <1>3, TypeInit DEF Init, IInv, DownIsIdle, TrustedIsAlone, AloneIsCurrent

(* A file operation of task t that is not alone finds trust already gone. *)
LEMMA NotAloneNotTrusted ==
  ASSUME IInv, NEW t \in Persisting, t \notin alone PROVE trust = "none"
  BY DEF IInv, TrustedIsAlone

(* The descriptor of a trusted writer names the temporary file. *)
LEMMA TrustedWritesTmp ==
  ASSUME IInv, NEW t \in Persisting, pc[t] = "opened", trust # "none" PROVE fd[t] = "tmp"
  BY DEF IInv, TrustedIsAlone, AloneIsCurrent

LEMMA IInvNext == ASSUME IInv, [Next]_vars PROVE IInv'
  <1> DEFINE Rest == DownIsIdle /\ TrustedIsAlone /\ AloneIsCurrent /\ FileWhole /\ DiskExact
  <1> USE CleanerIsTask
  <1>0. TypeOK /\ TypeOK'
    BY TypeNext DEF IInv
  <1> SUFFICES Rest'
    BY <1>0 DEF IInv
  <1>1. ASSUME NEW t \in Clients, NEW k \in Keys, NEW r \in Records, LaunchTunnel(t, k, r)
        PROVE  Rest'
    <2>1. CASE Expired(r)
      BY <1>1, <2>1, AnswerKeeps DEF LaunchTunnel, Answer
    <2>2. CASE ~Expired(r)
      BY <1>1, <2>2, BeginKeeps DEF LaunchTunnel, Idle
    <2>3. QED BY <2>1, <2>2
  <1>2. ASSUME NEW t \in Clients, NEW k \in Keys, CloseTunnel(t, k)
        PROVE  Rest'
    <2>1. CASE registry[k] = NoRecord
      BY <1>2, <2>1, AnswerKeeps DEF CloseTunnel, Answer
    <2>2. CASE registry[k] # NoRecord
      BY <1>2, <2>2, BeginKeeps DEF CloseTunnel, Idle
    <2>3. QED BY <2>1, <2>2
  <1>3. ASSUME NEW t \in Tasks, RemoveExpired(t)
        PROVE  Rest'
    <2>1. CASE Live(registry) = registry
      BY <1>3, <2>1, AnswerKeeps DEF RemoveExpired, Answer
    <2>2. CASE Live(registry) # registry
      BY <1>3, <2>2, BeginKeeps DEF RemoveExpired, Idle
    <2>3. QED BY <2>1, <2>2
  <1>4. ASSUME NEW t \in Clients, NEW k \in Keys, ActiveRecord(t, k)
        PROVE  Rest'
    <2>1. CASE Expired(registry[k])
      <3>1. \A u \in Tasks : pc'[u] = pc[u] \/ (up /\ pc[u] = "idle" /\ pc'[u] = "evict")
        BY <1>0, <1>4, <2>1 DEF ActiveRecord, Idle, TypeOK
      <3>2. QED BY <1>4, <2>1, <3>1, AnswerKeeps DEF ActiveRecord
    <2>2. CASE ~Expired(registry[k])
      BY <1>4, <2>2, AnswerKeeps DEF ActiveRecord, Answer
    <2>3. QED BY <2>1, <2>2
  <1>5. ASSUME NEW t \in Clients, Evict(t)
        PROVE  Rest'
    BY <1>5, BeginKeeps DEF Evict
  <1>6. ASSUME NEW t \in Clients, Abandon(t)
        PROVE  Rest'
    <2>1. UNCHANGED <<disk, history>> /\ pc[t] # "idle"
      BY <1>6 DEF Abandon
    <2>2. CASE UNCHANGED <<up, now, registry, pc, op, key, snap, fd, reply>>
      BY <2>1, <2>2, AnswerKeeps
    <2>3. CASE Return(t, "lost")
      BY <2>1, <2>3, ReturnKeeps DEF disk
    <2>4. QED BY <1>6, <2>2, <2>3 DEF Abandon
  <1>7. ASSUME NEW t \in Tasks, Snapshot(t)
        PROVE  Rest'
    <2>1. Persisting' = Persisting /\ t \in Persisting /\ pc'[t] = "snapped"
      BY <1>0, <1>7 DEF Snapshot, Persisting, TypeOK
    <2>2. DownIsIdle' /\ TrustedIsAlone' /\ FileWhole'
      BY <1>0, <1>7, <2>1 DEF IInv, Snapshot, DownIsIdle, TrustedIsAlone, FileWhole,
                              TypeOK, disk, history
    <2>3. AloneIsCurrent'
      BY <1>0, <1>7, <2>1 DEF IInv, Snapshot, AloneIsCurrent, TypeOK, disk, history
    <2>4. DiskExact'
      BY <1>7 DEF IInv, Snapshot, DiskExact, Load, Live, Expired, disk, history
    <2>5. QED BY <2>2, <2>3, <2>4
  <1>8. ASSUME NEW t \in Tasks, Open(t)
        PROVE  Rest'
    <2>1. Persisting' = Persisting /\ t \in Persisting /\ pc'[t] = "opened" /\ fd'[t] = "tmp"
      BY <1>0, <1>8 DEF Open, Persisting, TypeOK
    <2>2. DownIsIdle' /\ TrustedIsAlone' /\ FileWhole'
      BY <1>0, <1>8, <2>1 DEF IInv, Open, DownIsIdle, TrustedIsAlone, FileWhole, TypeOK, history
    <2>3. AloneIsCurrent'
      BY <1>0, <1>8, <2>1 DEF IInv, Open, AloneIsCurrent, TypeOK, history
    <2>4. DiskExact'
      BY <1>8 DEF IInv, Open, DiskExact, Load, Live, Expired, history
    <2>5. QED BY <2>2, <2>3, <2>4
  <1>9. ASSUME NEW t \in Tasks, Write(t)
        PROVE  Rest'
    <2>1. t \in Persisting
      BY <1>9 DEF Write, Persisting
    <2>2. file' = file \/ trust = "none"
      BY <1>9, <2>1, TrustedWritesTmp DEF Write, Put
    <2>3. CASE t \in abandoned
      BY <1>9, <2>1, <2>2, <2>3, ReturnKeeps DEF Write
    <2>4. CASE t \notin abandoned
      <3>1. Persisting' = Persisting /\ pc'[t] = "written"
        BY <1>0, <1>9, <2>4 DEF Write, Persisting, TypeOK
      <3>2. DownIsIdle' /\ TrustedIsAlone' /\ FileWhole'
        BY <1>0, <1>9, <2>1, <2>2, <2>4, <3>1
           DEF IInv, Write, DownIsIdle, TrustedIsAlone, FileWhole, TypeOK, history
      <3>3. t \in alone => tmp' = registry
        <4>1. SUFFICES ASSUME t \in alone PROVE tmp' = registry
          OBVIOUS
        <4>2. fd[t] = "tmp" /\ tmp = Blank /\ snap[t] = registry
          BY <1>9, <2>1, <4>1 DEF IInv, AloneIsCurrent, Write
        <4>3. QED BY <1>9, <4>2 DEF Write, Put, Overlay
      <3>4. AloneIsCurrent'
        <4>1. alone' = alone /\ registry' = registry /\ snap' = snap
          BY <1>9, <2>4 DEF Write, history
        <4>2. SUFFICES ASSUME NEW u \in alone \cap Persisting
                       PROVE  u = t /\ Persisting = {t} /\ snap[t] = registry
          BY <3>1, <3>3, <4>1 DEF AloneIsCurrent
        <4>3. u = t /\ Persisting = {t}
          BY <1>0, <2>1 DEF IInv, AloneIsCurrent
        <4>4. pc[t] # "persist"
          BY <1>9 DEF Write
        <4>5. QED BY <1>0, <4>3, <4>4 DEF IInv, AloneIsCurrent
      <3>5. DiskExact'
        <4>1. up' = up /\ now' = now /\ registry' = registry /\ trust' = trust
          BY <1>9, <2>4 DEF Write, history
        <4>2. CASE trust = "none"
          BY <4>1, <4>2 DEF DiskExact
        <4>3. CASE trust # "none"
          <5>1. file' = file
            BY <2>2, <4>3
          <5>2. QED BY <1>0, <4>1, <5>1 DEF IInv, DiskExact, Load, Live, Expired
        <4>4. QED BY <4>2, <4>3
      <3>6. QED BY <3>2, <3>4, <3>5
    <2>5. QED BY <2>3, <2>4
  <1>10. ASSUME NEW t \in Tasks, Rename(t)
         PROVE  Rest'
    <2>1. t \in Persisting /\ Persisting' = Persisting \ {t}
      BY <1>0, <1>10 DEF Rename, Persisting, TypeOK
    <2>2. CASE t \in alone
      <3>1. Persisting = {t} /\ file' = registry /\ registry' = registry /\ registry \in Registries
        BY <1>0, <1>10, <2>1, <2>2 DEF IInv, AloneIsCurrent, Rename, TypeOK
      <3>2. Persisting' = {}
        BY <2>1, <3>1
      <3>3. file' \notin {Missing} \cup Damaged
        BY <3>1, RegistryParses
      <3>4. DownIsIdle' /\ TrustedIsAlone' /\ AloneIsCurrent' /\ FileWhole'
        BY <1>0, <1>10, <3>2, <3>3
           DEF IInv, Rename, DownIsIdle, TrustedIsAlone, AloneIsCurrent, FileWhole, TypeOK
      <3>5. DiskExact'
        BY <1>10, <3>1, <3>3 DEF DiskExact, Rename, Load, Live, Expired
      <3>6. QED BY <3>4, <3>5
    <2>3. CASE t \notin alone
      <3>1. trust = "none" /\ trust' = "none" /\ alone' = alone
        BY <1>10, <2>1, <2>3, NotAloneNotTrusted DEF Rename
      <3>2. alone \cap Persisting = {}
        BY <2>1, <2>3 DEF IInv, AloneIsCurrent
      <3>3. QED
        BY <1>0, <1>10, <2>1, <3>1, <3>2
           DEF IInv, Rename, DownIsIdle, TrustedIsAlone, AloneIsCurrent, FileWhole, DiskExact, TypeOK
    <2>4. QED BY <2>2, <2>3
  <1>11. ASSUME NEW t \in Tasks, RenameMissing(t)
         PROVE  Rest'
    BY <1>11, ReturnKeeps DEF RenameMissing, disk
  <1>12. ASSUME NEW t \in Tasks, PersistError(t)
         PROVE  Rest'
    <2>1. t \in Persisting /\ pc[t] # "idle"
      BY <1>12 DEF PersistError, Persisting
    <2>2. file' = file \/ trust = "none"
      BY <1>12, <2>1, TrustedWritesTmp DEF PersistError, Put, disk
    <2>3. QED BY <1>12, <2>1, <2>2, ReturnKeeps DEF PersistError
  <1>13. CASE Tick
    <2>1. Persisting' = Persisting
      BY <1>13 DEF Tick, memory, Persisting
    <2>2. DownIsIdle' /\ TrustedIsAlone' /\ AloneIsCurrent' /\ FileWhole'
      BY <1>13, <2>1 DEF IInv, Tick, memory, disk, history, DownIsIdle, TrustedIsAlone,
                         AloneIsCurrent, FileWhole
    <2>3. DiskExact'
      <3>1. SUFFICES ASSUME up, trust = "exact" PROVE (Load = Live(registry))'
        BY <1>13 DEF DiskExact, Tick, history
      <3>2. Load = Live(registry) /\ now \in Nat /\ now' = now + 1
            /\ registry \in Registries /\ file \in Contents
            /\ registry' = registry /\ file' = file
        BY <1>0, <1>13, <3>1 DEF IInv, DiskExact, Tick, memory, disk, TypeOK
      <3>3. CASE file \in {Missing} \cup Damaged
        <4>1. Live(Empty) = Empty /\ Live(Empty)' = Empty
          BY DEF Live, Empty, Expired
        <4>2. Live(Empty) = Live(registry)
          BY <3>2, <3>3, <4>1 DEF Load
        <4>3. Live(Empty)' = Live(registry)'
          BY <3>2, <4>2, EmptyIsRegistry, LiveLater DEF Live
        <4>4. QED BY <3>2, <3>3, <4>1, <4>3 DEF Load
      <3>4. CASE file \notin {Missing} \cup Damaged
        <4>1. file \in Registries /\ Live(file) = Live(registry)
          BY <3>2, <3>4 DEF Load, Contents
        <4>2. Live(file)' = Live(registry)'
          BY <3>2, <4>1, LiveLater DEF Live
        <4>3. QED BY <3>2, <3>4, <4>2 DEF Load
      <3>5. QED BY <3>3, <3>4
    <2>4. QED BY <2>2, <2>3
  <1>14. CASE Crash
    <2>1. Persisting' = {}
      BY <1>14 DEF Crash, Each, Persisting
    <2>2. QED
      BY <1>14, <2>1 DEF IInv, Crash, Each, disk, DownIsIdle, TrustedIsAlone, AloneIsCurrent,
                         FileWhole, DiskExact
  <1>15. CASE Restart
    <2>1. Persisting' = {}
      BY <1>15 DEF IInv, Restart, DownIsIdle, Persisting
    <2>2. DownIsIdle' /\ TrustedIsAlone' /\ AloneIsCurrent' /\ FileWhole'
      BY <1>15, <2>1 DEF Restart, disk, DownIsIdle, TrustedIsAlone, AloneIsCurrent, FileWhole
    <2>3. DiskExact'
      <3>1. registry' = Load /\ file' = file /\ now' = now /\ file \in Contents
        BY <1>0, <1>15 DEF Restart, disk, TypeOK
      <3>2. Load' = Load
        BY <3>1 DEF Load, Live, Expired
      <3>3. Live(Load) = Load
        <4>1. CASE file \in {Missing} \cup Damaged
          BY <4>1 DEF Load, Live, Empty, Expired
        <4>2. CASE file \in Registries
          BY <4>2, LiveIdempotent, RegistryParses DEF Load
        <4>3. QED BY <3>1, <4>1, <4>2 DEF Contents
      <3>4. Live(registry)' = Live(Load)
        BY <3>1 DEF Live, Expired
      <3>5. QED BY <3>2, <3>3, <3>4 DEF DiskExact
    <2>4. QED BY <2>2, <2>3
  <1>16. CASE UNCHANGED vars
    BY <1>16, AnswerKeeps DEF vars, memory, history, disk
  <1>17. QED
    BY <1>1, <1>2, <1>3, <1>4, <1>5, <1>6, <1>7, <1>8, <1>9, <1>10, <1>11, <1>12, <1>13,
       <1>14, <1>15, <1>16 DEF Next, Request, Persist

(* As long as no two persists overlapped since the last one that ran alone,  *)
(* the state file parses at every moment, whatever fails or crashes.         *)
THEOREM FileAlwaysWhole == Spec => []FileWhole
  <1>1. IInv => FileWhole BY DEF IInv
  <1>2. QED BY <1>1, IInvInit, IInvNext, PTL DEF Spec

(* After a persist that ran alone, and until the next change, a restart      *)
(* brings back exactly the live tunnels.                                     *)
THEOREM DiskAlwaysExact == Spec => []DiskExact
  <1>1. IInv => DiskExact BY DEF IInv
  <1>2. QED BY <1>1, IInvInit, IInvNext, PTL DEF Spec

-----------------------------------------------------------------------------
(* The action of LiveRecordKept. *)
Removed(k) ==
  /\ registry' = [registry EXCEPT ![k] = NoRecord]
  /\ \E t \in Clients : \/ op'[t] = "close" /\ pc[t] = "idle"
                        \/ pc[t] = "evict" /\ key[t] = k

Kept ==
  \A k \in Keys :
    up /\ registry[k] # NoRecord /\ ~Expired(registry[k]) /\ registry'[k] = NoRecord
    => \/ ~up'
       \/ /\ registry' = [registry EXCEPT ![k] = NoRecord]
          /\ \E t \in Clients : \/ op'[t] = "close" /\ pc[t] = "idle"
                                \/ pc[t] = "evict" /\ key[t] = k

(* A live tunnel leaves memory only by a close, a crash, or the race of      *)
(* active_record with a launch of the same key, and it leaves alone.         *)
THEOREM LiveRecordsAreKept == Spec => LiveRecordKept
  <1>1. ASSUME TypeOK, [Next]_vars, NEW k \in Keys, up, up',
               registry[k] # NoRecord, ~Expired(registry[k]), registry'[k] = NoRecord
        PROVE  Removed(k)
    <2> USE <1>1
    <2>1. ASSUME NEW t \in Clients, NEW j \in Keys, NEW r \in Records, LaunchTunnel(t, j, r)
          PROVE  FALSE
      BY <2>1, SentinelAssumption DEF LaunchTunnel, Answer, TypeOK, Registries
    <2>2. ASSUME NEW t \in Clients, NEW j \in Keys, CloseTunnel(t, j)
          PROVE  Removed(k)
      <3>1. registry' = [registry EXCEPT ![j] = NoRecord]
        BY <2>2 DEF CloseTunnel, Answer
      <3>2. op'[t] = "close" /\ pc[t] = "idle"
        BY <2>2, CleanerIsTask DEF CloseTunnel, Answer, BeginPersist, Idle, TypeOK
      <3>3. j = k
        BY <3>1 DEF TypeOK, Registries
      <3>4. QED BY <3>1, <3>2, <3>3 DEF Removed
    <2>3. ASSUME NEW t \in Tasks, RemoveExpired(t)
          PROVE  FALSE
      BY <2>3 DEF RemoveExpired, Answer, Live
    <2>4. ASSUME NEW t \in Clients, NEW j \in Keys, ActiveRecord(t, j)
          PROVE  FALSE
      BY <2>4 DEF ActiveRecord, Answer
    <2>5. ASSUME NEW t \in Clients, Evict(t)
          PROVE  Removed(k)
      <3>1. pc[t] = "evict" /\ registry' = [registry EXCEPT ![key[t]] = NoRecord]
        BY <2>5 DEF Evict
      <3>2. key[t] = k
        BY <3>1 DEF TypeOK, Registries
      <3>3. QED BY <3>1, <3>2 DEF Removed
    <2>6. ASSUME NEW t \in Clients, Abandon(t)
          PROVE  FALSE
      BY <2>6 DEF Abandon, Return
    <2>7. ASSUME NEW t \in Tasks, Persist(t) \/ PersistError(t)
          PROVE  FALSE
      BY <2>7 DEF Persist, Snapshot, Open, Write, Rename, RenameMissing, PersistError, Return
    <2>8. CASE Tick \/ Crash \/ Restart \/ UNCHANGED vars
      BY <2>8 DEF Tick, Crash, Restart, vars, memory
    <2>9. QED
      BY <2>1, <2>2, <2>3, <2>4, <2>5, <2>6, <2>7, <2>8, CleanerIsTask DEF Next, Request
  <1>2. TypeOK /\ [Next]_vars => Kept
    BY <1>1 DEF Kept, Removed
  <1>3. QED BY <1>2, TypeInit, TypeNext, PTL DEF Spec, LiveRecordKept, Kept
=============================================================================
