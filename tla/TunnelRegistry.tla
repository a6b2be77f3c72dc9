--------------------------- MODULE TunnelRegistry ---------------------------
(***************************************************************************)
(* The tunnel registry of the platform gateway (cli/serve.rs): the map     *)
(* key -> record behind an async RwLock, the requests that change it, the  *)
(* expiry of its records, and its copy on disk.                            *)
(*                                                                         *)
(* Every handler is split where the code awaits.  A mutation takes the     *)
(* write lock for one step; persist_registry then runs without it: it      *)
(* creates the directory, takes a snapshot under the read lock, and        *)
(* creates, writes and renames one temporary file that ALL handlers share. *)
(***************************************************************************)
EXTENDS Naturals, FiniteSets

CONSTANTS Keys,       \* tunnel keys
          Targets,    \* target addresses that passed validate_target
          Clients,    \* slots of concurrent HTTP requests
          Cleaner,    \* the task of spawn_expiry_cleanup
          MaxTime,    \* bound on the clock
          Faults,     \* tasks that meet I/O errors and are abandoned
          NoRecord, Never, NoKey,
          Missing, Blank, Torn

ASSUME CleanerAssumption == Cleaner \notin Clients
ASSUME TimeAssumption    == MaxTime \in Nat /\ Never \notin Nat

Tasks      == Clients \cup {Cleaner}
Records    == [target : Targets, expires : (1 .. MaxTime) \cup {Never}]
Registries == [Keys -> Records \cup {NoRecord}]
Empty      == [k \in Keys |-> NoRecord]
Damaged    == {Blank, Torn}              \* contents serde_json rejects

ASSUME FaultsAssumption == Faults \subseteq Tasks

ASSUME SentinelAssumption ==
  /\ NoRecord \notin Records /\ NoKey \notin Keys
  /\ Missing \notin Damaged /\ Blank # Torn
  /\ Registries \cap ({Missing} \cup Damaged) = {}

VARIABLES up,         \* the gateway process runs
          now,        \* unix_timestamp()
          registry,   \* GlobalState.connections
          pc,         \* per task: the await it is at
          op,         \* per task: the operation that called persist_registry
          key,        \* per task: the key an expired lookup is about to remove
          snap,       \* per task: `data`, the serialised snapshot
          fd,         \* per task: the file its open descriptor refers to
          reply,      \* per task: how its last request was answered
          abandoned,  \* requests dropped while their write or rename still runs
          tmp, file,  \* contents of <state_file>.tmp and of <state_file>
          alone,      \* history: the persist in progress that met no other
          trust       \* history: what the file owes to persists that ran alone

memory  == <<registry, pc, op, key, snap, fd, reply, abandoned>>
disk    == <<tmp, file>>
history == <<alone, trust>>
vars    == <<up, now, memory, disk, history>>

-----------------------------------------------------------------------------
Expired(r) == r # NoRecord /\ r.expires # Never /\ r.expires <= now

Live_Unfiltered(reg) == reg   \* plausible bug: retain forgets the expiry

(* What the retain of load_registry and of remove_expired keeps. *)
Live(reg) == [k \in Keys |-> IF Expired(reg[k]) THEN NoRecord ELSE reg[k]]

(* load_registry: a missing, empty or unparsable file is an empty registry. *)
Load == IF file \in {Missing} \cup Damaged THEN Empty ELSE Live(file)

Size(reg) == Cardinality({k \in Keys : reg[k] # NoRecord})

(* What a write of `new` at offset 0 of a file holding `old` can leave: a    *)
(* longer old text keeps its tail; with as many records either is longer.    *)
Overlay(old, new) ==
  IF old \in {Blank, new} THEN {new}
  ELSE IF old = Torn THEN {new, Torn}
  ELSE IF Size(old) > Size(new) THEN {Torn}
  ELSE IF Size(old) = Size(new) THEN {new, Torn} ELSE {new}

Persisting == {t \in Tasks : pc[t] \in {"persist", "snapped", "opened", "written"}}

-----------------------------------------------------------------------------
Each(value) == [t \in Tasks |-> value]

Init == /\ pc = Each("idle") /\ op = Each("none") /\ key = Each(NoKey)
        /\ snap = Each(Empty) /\ fd = Each("none") /\ reply = Each("none")
        /\ abandoned = {}
        /\ up = TRUE
        /\ now = 0
        /\ registry = Empty
        /\ tmp = Missing /\ file = Missing
        /\ alone = {}
        /\ trust = "exact"

Idle(t) == up /\ pc[t] = "idle"

(* The first await of persist_registry is next.  History: a persist that     *)
(* meets another one costs both the right to call the file whole.            *)
BeginPersist(t, operation) ==
  /\ pc' = [pc EXCEPT ![t] = "persist"]
  /\ op' = [op EXCEPT ![t] = operation]
  /\ key' = [key EXCEPT ![t] = NoKey]
  /\ alone' = IF Persisting = {} THEN {t} ELSE {}
  /\ trust' = IF Persisting = {} /\ trust # "none" THEN "whole" ELSE "none"
  /\ UNCHANGED <<up, now, snap, fd, abandoned, disk>>

(* The handler is over: its locals are gone and its slot is free again. *)
Return(t, answer) ==
  /\ pc' = [pc EXCEPT ![t] = "idle"]
  /\ op' = [op EXCEPT ![t] = "none"]
  /\ key' = [key EXCEPT ![t] = NoKey]
  /\ snap' = [snap EXCEPT ![t] = Empty]
  /\ fd' = [fd EXCEPT ![t] = "none"]
  /\ reply' = [reply EXCEPT ![t] = answer]
  /\ abandoned' = abandoned \ {t}
  /\ UNCHANGED <<up, now, registry>>

Answer(t, answer) ==
  /\ reply' = [reply EXCEPT ![t] = answer]
  /\ UNCHANGED <<up, now, registry, pc, op, key, snap, fd, abandoned, disk, history>>

(* launch_tunnel: an expiry that is not in the future is refused; a record   *)
(* under a key in use is replaced.  Here the write lock comes in the second  *)
(* of that look; later it would insert a record for RemoveExpired at once.   *)
LaunchTunnel(t, k, r) ==
  /\ Idle(t)
  /\ IF Expired(r)
     THEN Answer(t, "refused")
     ELSE /\ registry' = [registry EXCEPT ![k] = r]
          /\ reply' = [reply EXCEPT ![t] = "none"]
          /\ BeginPersist(t, "launch")

CloseTunnel_Unsaved(t, k) ==   \* plausible bug: no persist after the removal
  /\ Idle(t)
  /\ registry[k] # NoRecord
  /\ registry' = [registry EXCEPT ![k] = NoRecord]
  /\ UNCHANGED <<up, now, pc, op, key, snap, fd, reply, abandoned, disk, history>>

CloseTunnel(t, k) ==
  /\ Idle(t)
  /\ IF registry[k] = NoRecord
     THEN Answer(t, "not_found")
     ELSE /\ registry' = [registry EXCEPT ![k] = NoRecord]
          /\ reply' = [reply EXCEPT ![t] = "none"]
          /\ BeginPersist(t, "close")

RemoveExpired_Inverted(t) ==   \* plausible bug: retain keeps the expired ones
  /\ Idle(t)
  /\ Live(registry) # Empty
  /\ registry' = [k \in Keys |-> IF Expired(registry[k]) THEN registry[k] ELSE NoRecord]
  /\ reply' = [reply EXCEPT ![t] = "none"]
  /\ BeginPersist(t, "sweep")

(* remove_expired, called by get_tunnels and by every tick of the cleaner. *)
RemoveExpired(t) ==
  /\ Idle(t)
  /\ IF Live(registry) = registry
     THEN Answer(t, "ok")
     ELSE /\ registry' = Live(registry)
          /\ reply' = [reply EXCEPT ![t] = "none"]
          /\ BeginPersist(t, "sweep")

(* active_record, the lookup: an expired record sends the request for the    *)
(* write lock, and what it read may be stale when it gets it.                *)
ActiveRecord(t, k) ==
  /\ Idle(t)
  /\ IF Expired(registry[k])
     THEN /\ pc' = [pc EXCEPT ![t] = "evict"]
          /\ key' = [key EXCEPT ![t] = k]
          /\ reply' = [reply EXCEPT ![t] = "none"]
          /\ UNCHANGED <<up, now, registry, op, snap, fd, abandoned, disk, history>>
     ELSE Answer(t, IF registry[k] = NoRecord THEN "not_found" ELSE "ok")

(* active_record, the removal: by key, whatever record is there by now. *)
Evict(t) ==
  /\ up /\ pc[t] = "evict"
  /\ registry' = [registry EXCEPT ![key[t]] = NoRecord]
  /\ BeginPersist(t, "evict")
  /\ UNCHANGED reply

-----------------------------------------------------------------------------
(* persist_registry. *)
Snapshot(t) ==
  /\ pc[t] = "persist"
  /\ pc' = [pc EXCEPT ![t] = "snapped"]
  /\ snap' = [snap EXCEPT ![t] = registry]
  /\ UNCHANGED <<up, now, registry, op, key, fd, reply, abandoned, disk, history>>

Open_InPlace(t) ==   \* plausible bug: no temporary file
  /\ pc[t] = "snapped"
  /\ pc' = [pc EXCEPT ![t] = "opened"]
  /\ fd' = [fd EXCEPT ![t] = "file"]
  /\ file' = Blank
  /\ UNCHANGED <<up, now, registry, op, key, snap, reply, abandoned, tmp, history>>

(* fs::write, its create: O_TRUNC empties a temporary file in use. *)
Open(t) ==
  /\ pc[t] = "snapped"
  /\ pc' = [pc EXCEPT ![t] = "opened"]
  /\ fd' = [fd EXCEPT ![t] = "tmp"]
  /\ tmp' = Blank
  /\ UNCHANGED <<up, now, registry, op, key, snap, reply, abandoned, file, history>>

(* The descriptor of t may by now name the published file, or no file.  *)
Put(t, onTmp, onFile) ==
  /\ tmp' \in IF fd[t] = "tmp" THEN onTmp ELSE {tmp}
  /\ file' \in IF fd[t] = "file" THEN onFile ELSE {file}

(* fs::write, its write_all.  It ends even when the request was dropped;     *)
(* then nobody is left to rename the file.                                   *)
Write(t) ==
  /\ pc[t] = "opened"
  /\ Put(t, Overlay(tmp, snap[t]), Overlay(file, snap[t]))
  /\ UNCHANGED history
  /\ IF t \in abandoned
     THEN Return(t, "lost")
     ELSE /\ pc' = [pc EXCEPT ![t] = "written"]
          /\ UNCHANGED <<up, now, registry, op, key, snap, fd, reply, abandoned>>

(* Only launch and close report a failed persist; the sweep and the expired  *)
(* lookup log it.  The change in memory stays in either case.                *)
Outcome(t, ok) == CASE t \in abandoned -> "lost"
                    [] op[t] = "evict" -> "gone"
                    [] op[t] = "sweep" -> "ok"
                    [] OTHER -> IF ok THEN "ok" ELSE "failed"

(* tokio::fs::rename, in the blocking pool like the write: a rename that has *)
(* been handed over takes place even when its request was dropped meanwhile, *)
(* and publishes whatever the shared temporary file holds by then.           *)
Rename(t) ==
  /\ pc[t] = "written"
  /\ tmp # Missing
  /\ tmp' = Missing
  /\ file' = tmp
  /\ LET moved == [u \in Tasks |-> CASE fd[u] = "tmp"  -> "file"
                                     [] fd[u] = "file" -> "unlinked"
                                     [] OTHER -> fd[u]]
     IN fd' = [moved EXCEPT ![t] = "none"]
  /\ pc' = [pc EXCEPT ![t] = "idle"]
  /\ op' = [op EXCEPT ![t] = "none"]
  /\ snap' = [snap EXCEPT ![t] = Empty]
  /\ reply' = [reply EXCEPT ![t] = Outcome(t, TRUE)]
  /\ trust' = IF t \in alone THEN "exact" ELSE trust
  /\ abandoned' = abandoned \ {t}
  /\ UNCHANGED <<up, now, registry, key, alone>>

(* Another handler renamed the shared temporary file first. *)
RenameMissing(t) ==
  /\ pc[t] = "written"
  /\ tmp = Missing
  /\ Return(t, Outcome(t, FALSE))
  /\ UNCHANGED <<disk, history>>

-----------------------------------------------------------------------------
(* The environment. *)

(* An I/O error in persist_registry; a write that fails may be partial. *)
PersistError(t) ==
  /\ t \in Faults \cap Persisting
  /\ IF pc[t] = "opened" THEN Put(t, {tmp, Torn}, {file, Torn}) ELSE UNCHANGED disk
  /\ Return(t, Outcome(t, FALSE))
  /\ UNCHANGED history

(* The client hangs up and the server drops the handler at its await.  A     *)
(* write or rename handed to the blocking pool is not stopped by that; where *)
(* the write has just ended the rename may not have been handed over yet.    *)
Abandon(t) ==
  /\ t \in (Clients \cap Faults) \ abandoned
  /\ \/ /\ pc[t] \in {"snapped", "opened", "written"}
        /\ abandoned' = abandoned \cup {t}
        /\ UNCHANGED <<up, now, registry, pc, op, key, snap, fd, reply>>
     \/ /\ pc[t] \in {"evict", "persist", "written"}
        /\ Return(t, "lost")
  /\ UNCHANGED <<disk, history>>

Tick == /\ now < MaxTime
        /\ now' = now + 1
        /\ UNCHANGED <<up, memory, disk, history>>

(* The process is killed: memory is gone, both files stay as they are. *)
Crash == /\ up
         /\ up' = FALSE
         /\ registry' = Empty
         /\ pc' = Each("idle") /\ op' = Each("none") /\ key' = Each(NoKey)
         /\ snap' = Each(Empty) /\ fd' = Each("none") /\ reply' = Each("none")
         /\ abandoned' = {}
         /\ alone' = {}
         /\ UNCHANGED <<now, disk, trust>>

(* launch: load_registry, then the server and the cleaner. *)
Restart == /\ ~up
           /\ up' = TRUE
           /\ registry' = Load
           /\ trust' = IF file \in Damaged THEN "none" ELSE "exact"
           /\ UNCHANGED <<now, pc, op, key, snap, fd, reply, abandoned, disk, alone>>

Persist(t) == Snapshot(t) \/ Open(t) \/ Write(t) \/ Rename(t) \/ RenameMissing(t)

Request(t) ==
  \/ \E k \in Keys : \/ \E r \in Records : LaunchTunnel(t, k, r)
                     \/ CloseTunnel(t, k)
                     \/ ActiveRecord(t, k)
  \/ RemoveExpired(t)

Next == \/ \E t \in Clients : Request(t) \/ Evict(t) \/ Abandon(t)
        \/ RemoveExpired(Cleaner)
        \/ \E t \in Tasks : Persist(t) \/ PersistError(t)
        \/ Tick \/ Crash \/ Restart

Spec == Init /\ [][Next]_vars

(* The runtime polls every ready task, and the interval of the cleaner ticks *)
(* every 30 seconds.  Nothing is assumed of clients, errors and crashes.     *)
Fairness == /\ \A t \in Tasks : WF_vars(Persist(t) \/ Evict(t))
            /\ WF_vars(RemoveExpired(Cleaner))

FairSpec == Spec /\ Fairness

-----------------------------------------------------------------------------
(* Properties. *)

Contents == Registries \cup {Missing} \cup Damaged

(* Types, and what each await point implies about the locals of its handler  *)
(* (every function of GlobalState and of persist_registry).                  *)
TypeOK ==
  /\ up \in BOOLEAN /\ now \in 0 .. MaxTime
  /\ registry \in Registries
  /\ pc \in [Tasks -> {"idle", "evict", "persist", "snapped", "opened", "written"}]
  /\ op \in [Tasks -> {"none", "launch", "close", "sweep", "evict"}]
  /\ key \in [Tasks -> Keys \cup {NoKey}]
  /\ \A t \in Tasks : pc[t] = "evict" => key[t] \in Keys
  /\ snap \in [Tasks -> Registries]
  /\ fd \in [Tasks -> {"none", "tmp", "file", "unlinked"}]
  /\ reply \in [Tasks -> {"none", "ok", "refused", "not_found", "gone", "failed", "lost"}]
  /\ abandoned \subseteq Clients
  /\ tmp \in Contents /\ file \in Contents
  /\ alone \subseteq Tasks
  /\ trust \in {"exact", "whole", "none"}

(* The point of writing a temporary file and renaming it: as long as no two  *)
(* persists overlapped since the last one that ran alone, the published file *)
(* parses at every moment, so a crash at any await loses no older registry.  *)
FileWhole == trust # "none" => file \notin Damaged

(* After a persist that ran alone and reported success, until the next       *)
(* change, a restart would bring back exactly the live tunnels in memory;    *)
(* earlier failures, crashes and damaged files are healed by it.             *)
DiskExact == up /\ trust = "exact" => Load = Live(registry)

(* A live tunnel leaves memory only because it was closed, because the       *)
(* process died, or in the one race of active_record: the request had seen   *)
(* an expired record under the key that was launched anew meanwhile.         *)
LiveRecordKept ==
  [][\A k \in Keys :
       up /\ registry[k] # NoRecord /\ ~Expired(registry[k]) /\ registry'[k] = NoRecord
       => \/ ~up'
          \/ /\ registry' = [registry EXCEPT ![k] = NoRecord]
             /\ \E t \in Clients : \/ op'[t] = "close" /\ pc[t] = "idle"
                                   \/ pc[t] = "evict" /\ key[t] = k]_vars

(* An expired tunnel does not stay registered: the cleaner (or a lookup)     *)
(* removes it, however persists fail.                                        *)
ExpiredLeaves == \A k \in Keys : Expired(registry[k]) ~> ~Expired(registry[k])

(* The invariant that carries FileWhole and DiskExact: while the file is     *)
(* trusted, a persist in progress is the only one, and one that is alone has *)
(* the registry itself in its snapshot and in the temporary file.            *)
DownIsIdle == ~up => \A t \in Tasks : pc[t] = "idle"

TrustedIsAlone == \A t \in Persisting : trust # "none" => t \in alone /\ trust = "whole"

AloneIsCurrent ==
  \A t \in alone \cap Persisting :
    /\ Persisting = {t}
    /\ pc[t] # "persist" => snap[t] = registry
    /\ pc[t] = "opened" => fd[t] = "tmp" /\ tmp = Blank
    /\ pc[t] = "written" => tmp = registry

IInv == /\ TypeOK /\ DownIsIdle /\ TrustedIsAlone /\ AloneIsCurrent
        /\ FileWhole /\ DiskExact
=============================================================================
