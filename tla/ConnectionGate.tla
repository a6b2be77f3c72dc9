--------------------------- MODULE ConnectionGate ---------------------------
(***************************************************************************)
(* A tunnelled connection through the gateway (process_traffic in          *)
(* cli/serve.rs): lookup of the tunnel, the two permits, the WebSocket     *)
(* upgrade, the connection to the target, the capture, the proxying with   *)
(* its time limit, the audit line, and the release of the permits.         *)
(*                                                                         *)
(* Requests run on a thread pool, so two of them interleave at every lock  *)
(* and every await.  The registry is the set of keys an active_record call *)
(* would accept; TunnelRegistry has its detail.                            *)
(***************************************************************************)
EXTENDS Naturals, FiniteSets

CONSTANTS Conns,           \* requests the server handles at one time
          Keys,            \* tunnel keys
          CaptureKeys,     \* the tunnels launched with capture = true
          MaxConnections,  \* --max-connections
          PerTunnel,       \* --max-connections-per-tunnel
          NoKey, Nobody

ASSUME LimitAssumption ==     \* launch takes the max of each limit and 1
  /\ MaxConnections \in Nat \ {0}
  /\ PerTunnel \in Nat \ {0}
ASSUME ConnsAssumption == IsFiniteSet(Conns) /\ Nobody \notin Conns
ASSUME KeysAssumption  == NoKey \notin Keys /\ CaptureKeys \subseteq Keys

VARIABLES registered,  \* keys of the live tunnels
          counts,      \* per_tunnel_connections; an absent entry is 0
          slots,       \* permits left in connection_slots
          pc,          \* per connection: where its handler is
          key,         \* per connection: the key of the record it cloned
          hold,        \* per connection: the permits it owns
          moved,       \* per connection: whether its observer counted a byte
          session,     \* per connection: whether a CaptureSession is open
          result,      \* per connection: `result`, the outcome so far
          audit,       \* per connection: the audit lines written for it
          auditor      \* who holds audit_lock

conn    == <<pc, key, hold, moved, session, result, audit>>
permits == <<counts, slots>>
vars    == <<registered, permits, conn, auditor>>

Each(value) == [c \in Conns |-> value]

Init == /\ registered = {}
        /\ counts = [k \in Keys |-> 0]
        /\ slots = MaxConnections
        /\ pc = Each("idle") /\ key = Each(NoKey) /\ hold = Each({})
        /\ moved = Each(FALSE) /\ session = Each(FALSE)
        /\ result = Each("none") /\ audit = Each("none")
        /\ auditor = Nobody

At(c, from, to) == pc[c] = from /\ pc' = [pc EXCEPT ![c] = to]

-----------------------------------------------------------------------------
(* Admission. *)

(* active_record found a live tunnel; the record is cloned, and what happens *)
(* to the tunnel afterwards does not reach this connection.                  *)
Lookup(c, k) ==
  /\ k \in registered
  /\ At(c, "idle", "resolved")
  /\ key' = [key EXCEPT ![c] = k]
  /\ UNCHANGED <<registered, permits, hold, moved, session, result, audit, auditor>>

AcquireTunnel_OffByOne(c) ==   \* plausible bug: > for >=
  /\ pc[c] = "resolved"
  /\ counts[key[c]] <= PerTunnel
  /\ counts' = [counts EXCEPT ![key[c]] = @ + 1]
  /\ hold' = [hold EXCEPT ![c] = @ \cup {"tunnel"}]
  /\ pc' = [pc EXCEPT ![c] = "counted"]
  /\ UNCHANGED <<registered, slots, key, moved, session, result, audit, auditor>>

AcquireTunnel_CountFirst(c) ==   \* plausible bug: the refused one is counted, too
  /\ pc[c] = "resolved"
  /\ counts' = [counts EXCEPT ![key[c]] = @ + 1]
  /\ IF counts[key[c]] >= PerTunnel
     THEN /\ pc' = [pc EXCEPT ![c] = "idle"]
          /\ key' = [key EXCEPT ![c] = NoKey]
          /\ UNCHANGED hold
     ELSE /\ hold' = [hold EXCEPT ![c] = @ \cup {"tunnel"}]
          /\ pc' = [pc EXCEPT ![c] = "counted"]
          /\ UNCHANGED key
  /\ UNCHANGED <<registered, slots, moved, session, result, audit, auditor>>

(* TunnelConnectionPermit::acquire; at the limit the answer is 429. *)
AcquireTunnel(c) ==
  /\ pc[c] = "resolved"
  /\ IF counts[key[c]] >= PerTunnel
     THEN /\ pc' = [pc EXCEPT ![c] = "idle"]
          /\ key' = [key EXCEPT ![c] = NoKey]
          /\ UNCHANGED <<counts, hold>>
     ELSE /\ counts' = [counts EXCEPT ![key[c]] = @ + 1]
          /\ hold' = [hold EXCEPT ![c] = @ \cup {"tunnel"}]
          /\ pc' = [pc EXCEPT ![c] = "counted"]
          /\ UNCHANGED key
  /\ UNCHANGED <<registered, slots, moved, session, result, audit, auditor>>

(* try_acquire_owned; without a free slot the answer is 503 and the early    *)
(* return drops the tunnel permit.                                           *)
AcquireSlot(c) ==
  /\ pc[c] = "counted"
  /\ IF slots = 0
     THEN /\ pc' = [pc EXCEPT ![c] = "dropping"]
          /\ UNCHANGED <<slots, hold>>
     ELSE /\ slots' = slots - 1
          /\ hold' = [hold EXCEPT ![c] = @ \cup {"slot"}]
          /\ pc' = [pc EXCEPT ![c] = "upgrading"]
  /\ UNCHANGED <<registered, counts, key, moved, session, result, audit, auditor>>

(* The 101 answer is out and the task of on_upgrade starts. *)
Upgrade(c) ==
  /\ At(c, "upgrading", "connecting")
  /\ result' = [result EXCEPT ![c] = "completed"]
  /\ UNCHANGED <<registered, permits, key, hold, moved, session, audit, auditor>>

(* The client is gone before the upgrade: the closure is dropped unrun. *)
UpgradeFails(c) ==
  /\ At(c, "upgrading", "dropping")
  /\ UNCHANGED <<registered, permits, key, hold, moved, session, result, audit, auditor>>

-----------------------------------------------------------------------------
(* The upgraded connection. *)

TargetConnected(c) ==
  /\ At(c, "connecting", IF key[c] \in CaptureKeys THEN "starting" ELSE "proxying")
  /\ UNCHANGED <<registered, permits, key, hold, moved, session, result, audit, auditor>>

TargetFails_Unaudited(c) ==   \* plausible bug: an early return without audit
  /\ At(c, "connecting", "dropping")
  /\ result' = [result EXCEPT ![c] = "target_connect_failed"]
  /\ UNCHANGED <<registered, permits, key, hold, moved, session, audit, auditor>>

(* The target refused, or CONNECT_TIMEOUT passed. *)
TargetFails(c) ==
  /\ At(c, "connecting", "auditing")
  /\ \E r \in {"target_connect_failed", "target_connect_timeout"} :
       result' = [result EXCEPT ![c] = r]
  /\ UNCHANGED <<registered, permits, key, hold, moved, session, audit, auditor>>

(* CaptureSession::start; when it fails the traffic flows uncaptured. *)
StartCapture(c) ==
  /\ At(c, "starting", "proxying")
  /\ \E started \in BOOLEAN : session' = [session EXCEPT ![c] = started]
  /\ UNCHANGED <<registered, permits, key, hold, moved, result, audit, auditor>>

(* ConnectionObserver counts a chunk, in either direction. *)
Transfer(c) ==
  /\ pc[c] = "proxying"
  /\ ~moved[c]
  /\ moved' = [moved EXCEPT ![c] = TRUE]
  /\ UNCHANGED <<registered, permits, pc, key, hold, session, result, audit, auditor>>

(* classify_proxy_error: a reset after some traffic is no failure. *)
Classify(c, error) ==
  IF error = "reset" /\ moved[c] THEN "completed_ungraceful_close" ELSE "proxy_error"

(* proxy_observed returned, or connection_timeout dropped it. *)
StopProxy(c, outcome) ==
  /\ At(c, "proxying", IF session[c] THEN "finishing" ELSE "auditing")
  /\ result' = [result EXCEPT ![c] = outcome]
  /\ UNCHANGED <<registered, permits, key, hold, moved, session, audit, auditor>>

ProxyReturns(c) ==
  \/ StopProxy(c, "completed")
  \/ \E error \in {"reset", "other"} : StopProxy(c, Classify(c, error))

ConnectionTimeout_None(c) == pc[c] = "proxying" /\ UNCHANGED vars   \* plausible bug

ConnectionTimeout(c) == StopProxy(c, "connection_timeout")

FinishCapture(c) ==
  /\ At(c, "finishing", "auditing")
  /\ session' = [session EXCEPT ![c] = FALSE]
  /\ UNCHANGED <<registered, permits, key, hold, moved, result, audit, auditor>>

(* write_audit: append_audit holds audit_lock over its file operations. *)
LockAudit(c) ==
  /\ auditor = Nobody
  /\ At(c, "auditing", "appending")
  /\ auditor' = c
  /\ UNCHANGED <<registered, permits, key, hold, moved, session, result, audit>>

(* A failed append is logged and the line is lost. *)
AppendAudit(c) ==
  /\ At(c, "appending", "dropping")
  /\ auditor' = Nobody
  /\ \E line \in {result[c], "lost"} : audit' = [audit EXCEPT ![c] = line]
  /\ UNCHANGED <<registered, permits, key, hold, moved, session, result>>

-----------------------------------------------------------------------------
(* The permits go back one at a time; which is first depends on whether the  *)
(* task had run, and both orders are allowed here.                           *)
Release(c, permit) ==
  /\ pc[c] = "dropping"
  /\ permit \in hold[c]
  /\ hold' = [hold EXCEPT ![c] = @ \ {permit}]
  /\ IF hold[c] = {permit}
     THEN /\ pc' = [pc EXCEPT ![c] = "idle"]
          /\ key' = [key EXCEPT ![c] = NoKey]
          /\ moved' = [moved EXCEPT ![c] = FALSE]
          /\ result' = [result EXCEPT ![c] = "none"]
          /\ audit' = [audit EXCEPT ![c] = "none"]
     ELSE UNCHANGED <<pc, key, moved, result, audit>>
  /\ UNCHANGED <<registered, session, auditor>>

(* Drop of TunnelConnectionPermit, with its saturating_sub. *)
DropTunnel(c) ==
  /\ Release(c, "tunnel")
  /\ counts' = [counts EXCEPT ![key[c]] = IF @ = 0 THEN 0 ELSE @ - 1]
  /\ UNCHANGED slots

DropSlot(c) ==
  /\ Release(c, "slot")
  /\ slots' = slots + 1
  /\ UNCHANGED counts

(* The registry around the connections: a launch, or a close or an expiry. *)
Open(k)  == /\ registered' = registered \cup {k}
            /\ UNCHANGED <<permits, conn, auditor>>
Close(k) == /\ registered' = registered \ {k}
            /\ UNCHANGED <<permits, conn, auditor>>

Admit(c)    == AcquireTunnel(c) \/ AcquireSlot(c)
Drop(c)     == DropTunnel(c) \/ DropSlot(c)
Upgraded(c) == Upgrade(c) \/ UpgradeFails(c)
Connect(c)  == TargetConnected(c) \/ TargetFails(c)
Audit(c)    == LockAudit(c) \/ AppendAudit(c)

Next ==
  \/ \E c \in Conns :
       \/ \E k \in Keys : Lookup(c, k)
       \/ Admit(c) \/ Upgraded(c) \/ Connect(c) \/ StartCapture(c)
       \/ Transfer(c) \/ ProxyReturns(c) \/ ConnectionTimeout(c)
       \/ FinishCapture(c) \/ Audit(c) \/ Drop(c)
  \/ \E k \in Keys : Open(k) \/ Close(k)

Spec == Init /\ [][Next]_vars

(* Ready tasks are polled, the two timers fire, file operations end.  The    *)
(* audit lock is a fair queue, hence the strong fairness of taking it.       *)
(* Nothing makes a client arrive or a peer end its stream.                   *)
Fairness == \A c \in Conns :
  /\ WF_vars(Admit(c)) /\ WF_vars(Upgraded(c)) /\ WF_vars(Connect(c))
  /\ WF_vars(StartCapture(c)) /\ WF_vars(ConnectionTimeout(c))
  /\ WF_vars(FinishCapture(c)) /\ WF_vars(AppendAudit(c)) /\ WF_vars(Drop(c))
  /\ SF_vars(LockAudit(c))

FairSpec == Spec /\ Fairness

-----------------------------------------------------------------------------
(* Properties. *)

Results == {"none", "completed", "target_connect_failed", "target_connect_timeout",
            "proxy_error", "completed_ungraceful_close", "connection_timeout"}

(* Types of the shared counters and of the locals of process_traffic. *)
TypeOK ==
  /\ registered \subseteq Keys
  /\ counts \in [Keys -> Nat]
  /\ slots \in 0 .. MaxConnections
  /\ pc \in [Conns -> {"idle", "resolved", "counted", "upgrading", "connecting", "starting",
                       "proxying", "finishing", "auditing", "appending", "dropping"}]
  /\ key \in [Conns -> Keys \cup {NoKey}]
  /\ hold \in [Conns -> SUBSET {"tunnel", "slot"}]
  /\ moved \in [Conns -> BOOLEAN] /\ session \in [Conns -> BOOLEAN]
  /\ result \in [Conns -> Results]
  /\ audit \in [Conns -> Results \cup {"lost"}]
  /\ auditor \in Conns \cup {Nobody}

TunnelHolders(k) == {c \in Conns : key[c] = k /\ "tunnel" \in hold[c]}
SlotHolders      == {c \in Conns : "slot" \in hold[c]}

(* No permit leaks and none is returned twice, on any path out of            *)
(* process_traffic: the counter of a tunnel is the number of connections     *)
(* that own its permit, and the semaphore lacks one permit per owner.        *)
CountsExact == \A k \in Keys : counts[k] = Cardinality(TunnelHolders(k))
SlotsExact  == slots + Cardinality(SlotHolders) = MaxConnections
PermitsExact == CountsExact /\ SlotsExact

(* An upgraded connection counts against both limits until its capture is    *)
(* closed and its audit line was attempted; no outcome skips the audit.      *)
AuditedBeforeRelease ==
  \A c \in Conns :
    /\ result[c] # "none" /\ audit[c] = "none" => hold[c] = {"tunnel", "slot"}
    /\ audit[c] # "none" => ~session[c] /\ audit[c] \in {result[c], "lost"}

(* The invariant behind them: what each stage of process_traffic owns and    *)
(* has recorded, and the limit that acquire keeps.                           *)
Running == {"connecting", "starting", "proxying", "finishing", "auditing", "appending"}

Stages ==
  \A c \in Conns :
    /\ key[c] = NoKey <=> pc[c] = "idle"
    /\ pc[c] \in {"idle", "resolved"} => hold[c] = {}
    /\ pc[c] = "counted" => hold[c] = {"tunnel"}
    /\ pc[c] \in Running \cup {"upgrading"} => hold[c] = {"tunnel", "slot"}
    /\ pc[c] = "dropping" => hold[c] # {}
    /\ pc[c] \notin Running \cup {"dropping"} => result[c] = "none"
    /\ pc[c] \in Running => result[c] # "none"
    /\ IF pc[c] = "dropping" /\ result[c] # "none"
       THEN audit[c] \in {result[c], "lost"} ELSE audit[c] = "none"
    /\ session[c] => pc[c] \in {"proxying", "finishing"}

WithinLimit == \A k \in Keys : counts[k] <= PerTunnel

IInv == TypeOK /\ Stages /\ PermitsExact /\ WithinLimit

(* The connections the two limits are about. *)
liveConns == [c \in Conns |-> IF hold[c] = {"tunnel", "slot"} THEN key[c] ELSE NoKey]

Abstract == INSTANCE Admission WITH live <- liveConns

(* However requests interleave between the two permits, a connection enters  *)
(* only while both limits leave room for it (process_traffic's 429 and 503). *)
ImplementsAdmission == Abstract!Spec

(* Closing a tunnel does not cut its connections, but the time limits of     *)
(* process_traffic do: unless it is launched again, it is empty in the end.  *)
ClosedDrains ==
  \A k \in Keys : k \notin registered ~> k \in registered \/ \A c \in Conns : key[c] # k
=============================================================================
