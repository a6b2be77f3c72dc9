----------------------------- MODULE Controller -----------------------------
(***************************************************************************)
(* What the CLI daemon (wsrx/src/cli/daemon.rs) keeps besides its tunnels: *)
(* the origins that may call it and those that asked to, behind two std    *)
(* RwLocks, and the heartbeat of its owner, which a watchdog compares with *)
(* the clock.  Handlers run on several threads and block on the locks.     *)
(***************************************************************************)
EXTENDS Integers, Sequences

CONSTANTS Origins, Tasks,
          Interval,   \* --heartbeat, in seconds
          Ticks,      \* ticks of the clock in a second
          Slack,      \* ticks by which a sleep may be late
          None, Done

ASSUME TimeAssumption == Interval \in Nat \ {0} /\ Ticks \in Nat \ {0} /\ Slack \in Nat

Reads  == {"status"}                  \* get_cors_status, get_origins
Writes == {"allow", "revoke"}         \* add_ and remove_allowed_origin
Ops    == Reads \cup Writes \cup {"ask", "cors"}   \* add_pending_origin; the CORS predicate
Locks  == {"allowed", "pending"}
Requests == [op : Ops, origin : Origins]

ASSUME SentinelAssumption == None \notin Requests /\ Done \notin Requests /\ None # Done
                             /\ None \notin Nat

VARIABLES allowed, pending,  \* how often an origin is in the vector
          request,   \* per task: its request
          held,      \* per task: how many of its locks it holds
          alive,     \* the daemon runs
          quiet,     \* HEARTBEAT_TIME, in ticks ago; None before it is first looked at
          wait,      \* ticks until the watchdog wakes up
          since      \* history: ticks since the owner last beat, or launched the daemon

vars    == <<allowed, pending, request, held, alive, quiet, wait, since>>
origins == <<allowed, pending>>
clock   == <<alive, quiet, wait, since>>

Init == /\ allowed = [o \in Origins |-> 0] /\ pending = [o \in Origins |-> 0]
        /\ request = [t \in Tasks |-> None] /\ held = [t \in Tasks |-> 0]
        /\ alive = TRUE
        /\ quiet = None /\ wait = Interval * Ticks /\ since = 0

-----------------------------------------------------------------------------
(* Locks.  Every handler takes ALLOWED_ORIGINS first, and keeps it. *)

Order_AskReversed(op) ==   \* plausible bug: add_pending_origin looks at the waitlist first
  IF op = "cors" THEN <<"allowed">>
  ELSE IF op = "ask" THEN <<"pending", "allowed">> ELSE <<"allowed", "pending">>

Order(op) == IF op = "cors" THEN <<"allowed">> ELSE <<"allowed", "pending">>

Writing(op, l) == op \in Writes \/ (op = "ask" /\ l = "pending")

Holds_Dropped(t, l) ==   \* plausible bug: add_pending_origin drops its first guard early
  /\ request[t] \in Requests
  /\ request[t].op = "ask" => l = "pending"
  /\ \E n \in 1..held[t] : Order(request[t].op)[n] = l

Holds(t, l) ==
  /\ request[t] \in Requests
  /\ \E n \in 1..held[t] : Order(request[t].op)[n] = l

Free(t, l) ==
  \A u \in Tasks \ {t} :
    Holds(u, l) => ~Writing(request[t].op, l) /\ ~Writing(request[u].op, l)

Receive(t, op, o) ==
  /\ alive /\ request[t] = None
  /\ request' = [request EXCEPT ![t] = [op |-> op, origin |-> o]]
  /\ UNCHANGED <<origins, held, clock>>

(* The response; the guards are dropped. *)
Answer(t) == /\ request' = [request EXCEPT ![t] = Done]
             /\ held' = [held EXCEPT ![t] = 0]

(* add_pending_origin answers ACCEPTED at once when the origin is allowed. *)
Lock(t) ==
  /\ alive /\ request[t] \in Requests
  /\ LET op == request[t].op
         o  == request[t].origin
     IN /\ held[t] < Len(Order(op))
        /\ LET l == Order(op)[held[t] + 1]
           IN /\ Free(t, l)
              /\ IF op = "ask" /\ l = "allowed" /\ allowed[o] > 0
                 THEN Answer(t)
                 ELSE held' = [held EXCEPT ![t] = @ + 1] /\ UNCHANGED request
  /\ UNCHANGED <<origins, clock>>

(* With all its locks a handler does its work and answers. *)
Ready(t, ops) == /\ alive /\ request[t] \in Requests /\ request[t].op \in ops
                 /\ held[t] = Len(Order(request[t].op))

Look(t) == /\ Ready(t, Reads \cup {"cors"})
           /\ Answer(t)
           /\ UNCHANGED <<origins, clock>>

AddPending(t) ==
  /\ Ready(t, {"ask"})
  /\ LET o == request[t].origin
     IN pending' = IF pending[o] > 0 THEN pending ELSE [pending EXCEPT ![o] = @ + 1]
  /\ Answer(t)
  /\ UNCHANGED <<allowed, clock>>

(* The origin leaves the waitlist and is pushed, whether allowed already or not. *)
AddAllowed(t) ==
  /\ Ready(t, {"allow"})
  /\ LET o == request[t].origin
     IN /\ pending' = [pending EXCEPT ![o] = 0]
        /\ allowed' = [allowed EXCEPT ![o] = @ + 1]
  /\ Answer(t)
  /\ UNCHANGED clock

RemoveAllowed_First(t) ==   \* plausible bug: removes one occurrence
  /\ Ready(t, {"revoke"})
  /\ LET o == request[t].origin
     IN /\ pending' = [pending EXCEPT ![o] = 0]
        /\ allowed' = [allowed EXCEPT ![o] = IF @ = 0 THEN 0 ELSE @ - 1]
  /\ Answer(t)
  /\ UNCHANGED clock

RemoveAllowed(t) ==
  /\ Ready(t, {"revoke"})
  /\ LET o == request[t].origin
     IN /\ pending' = [pending EXCEPT ![o] = 0]
        /\ allowed' = [allowed EXCEPT ![o] = 0]
  /\ Answer(t)
  /\ UNCHANGED clock

-----------------------------------------------------------------------------
(* The heartbeat. *)

UpdateHeartbeat == /\ alive /\ since > 0
                   /\ quiet' = 0 /\ since' = 0
                   /\ UNCHANGED <<origins, request, held, alive, wait>>

(* A sleep ends when its time has come, or somewhat later. *)
Tick == /\ alive /\ wait > -Slack
        /\ wait' = wait - 1
        /\ quiet' = IF quiet = None THEN None ELSE quiet + 1
        /\ since' = since + 1
        /\ UNCHANGED <<origins, request, held, alive>>

Seconds(ticks) == ticks \div Ticks   \* num_seconds truncates

Expired_AtInterval == quiet # None /\ Seconds(quiet) >= Interval   \* plausible bug: >= for >

Expired == quiet # None /\ Seconds(quiet) > Interval

CheckPasses_Beats ==   \* plausible bug: a check counts as a sign of life
  /\ alive /\ wait <= 0 /\ ~Expired
  /\ quiet' = 0 /\ wait' = Interval * Ticks
  /\ UNCHANGED <<origins, request, held, alive, since>>

(* heartbeat_watchdog: the first look at HEARTBEAT_TIME sets it. *)
CheckPasses ==
  /\ alive /\ wait <= 0 /\ ~Expired
  /\ quiet' = IF quiet = None THEN 0 ELSE quiet
  /\ wait' = Interval * Ticks
  /\ UNCHANGED <<origins, request, held, alive, since>>

Exit == /\ alive /\ wait <= 0 /\ Expired
        /\ alive' = FALSE
        /\ UNCHANGED <<origins, request, held, quiet, wait, since>>

Handle(t) == Lock(t) \/ Look(t) \/ AddPending(t) \/ AddAllowed(t) \/ RemoveAllowed(t)

Watchdog == CheckPasses \/ Exit

Next == \/ \E t \in Tasks : Handle(t) \/ \E op \in Ops, o \in Origins : Receive(t, op, o)
        \/ UpdateHeartbeat \/ Tick \/ Watchdog

Spec == Init /\ [][Next]_vars

(* Threads that can go on do. *)
FairSpec == Spec /\ \A t \in Tasks : WF_vars(Handle(t))

-----------------------------------------------------------------------------
(* Properties. *)

TypeOK ==
  /\ allowed \in [Origins -> Nat] /\ pending \in [Origins -> Nat]
  /\ request \in [Tasks -> Requests \cup {None, Done}]
  /\ held \in [Tasks -> 0..2]
  /\ \A t \in Tasks : held[t] <= (IF request[t] \in Requests THEN Len(Order(request[t].op)) ELSE 0)
  /\ alive \in BOOLEAN
  /\ quiet \in Nat \cup {None} /\ wait \in Int /\ since \in Nat

(* daemon.rs:252-346.  However requests overlap, no origin both waits and is *)
(* allowed, and none waits twice.                                            *)
OriginsConsistent ==
  \A o \in Origins : pending[o] <= 1 /\ (pending[o] = 0 \/ allowed[o] = 0)

(* daemon.rs:276-298.  A revocation lets nothing of its origin remain, though *)
(* it may have been allowed more than once.                                   *)
Revoked ==
  [][\A t \in Tasks : request[t] \in Requests /\ request'[t] = Done =>
       (request[t].op = "revoke" => allowed'[request[t].origin] + pending'[request[t].origin] = 0)]_vars

(* daemon.rs:242-346.  No two handlers wait for each other's lock. *)
HandlersReturn == \A t \in Tasks : request[t] \in Requests ~> request[t] = Done \/ ~alive

(* daemon.rs:80-99.  The daemon never leaves an owner that beats at least    *)
(* once in an interval, and a second more.                                   *)
OwnerKept == [][~alive' => since >= (Interval + 1) * Ticks]_vars

(* daemon.rs:77-99.  An owner that is gone is noticed: within two intervals  *)
(* and a second of its last beat, within three of the launch if it never did *)
(* beat, give or take the lateness of the sleeps.                            *)
LeftBehindEnds ==
  alive => /\ since <= 3 * (Interval * Ticks + Slack)
           /\ quiet = since => since < (2 * Interval + 1) * Ticks + Slack

(* daemon.rs:242-346.  What HandlersReturn rests on: whoever waits, somebody  *)
(* has all the locks of its request or may take the next one.                 *)
GoesOn(t) ==
  /\ request[t] \in Requests
  /\ LET order == Order(request[t].op)
     IN held[t] = Len(order) \/ Free(t, order[held[t] + 1])

NobodyStuck == \A t \in Tasks : request[t] \in Requests => \E u \in Tasks : GoesOn(u)

(* What makes them inductive: the locks exclude each other, who holds the     *)
(* first lock of add_pending_origin found the origin not allowed, and the     *)
(* heartbeat clock starts no earlier than the owner was last there.           *)
Exclusive ==
  \A l \in Locks : \A t, u \in Tasks :
    t # u /\ Holds(t, l) /\ Holds(u, l) => ~Writing(request[t].op, l) /\ ~Writing(request[u].op, l)

AskChecked ==
  \A t \in Tasks : request[t] \in Requests /\ request[t].op = "ask" /\ held[t] > 0
                     => allowed[request[t].origin] = 0

QuietSince == quiet # None => quiet <= since

(* The time of the next look.  Until the first one the clock of the owner and *)
(* the sleep make up one interval.  After it, an owner that beat has passed   *)
(* at most one look with a whole interval of silence, and one that never did  *)
(* is at its second look, or at the third, which it cannot pass.              *)
Period == Interval * Ticks

NextLook ==
  /\ -Slack <= wait /\ wait <= Period
  /\ \/ quiet = None /\ since + wait = Period
     \/ quiet = since /\ quiet + wait < 2 * Period + Ticks
     \/ /\ quiet \in Nat /\ quiet < since /\ since <= quiet + Period + Slack
        /\ \/ quiet + wait = Period
           \/ 2 * Period <= quiet + wait /\ quiet + wait <= 2 * Period + Slack

IInv == TypeOK /\ Exclusive /\ AskChecked /\ OriginsConsistent /\ QuietSince /\ NextLook
=============================================================================
