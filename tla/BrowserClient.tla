---------------------------- MODULE BrowserClient ----------------------------
(***************************************************************************)
(* The browser client (packages/client/src/index.ts) of one page, and what *)
(* it sees of the desktop application: whether the page's site is in       *)
(* control, and the site's instances.  Every method awaits answers, and    *)
(* the timer starts a new poll every three seconds whether or not the last *)
(* one has returned, so answers are applied in the order of their arrival. *)
(***************************************************************************)
EXTENDS Naturals, SequencesExt

CONSTANTS Remotes,
          MaxCalls,   \* calls in flight at the same time
          SyncEvery,  \* polls between two syncs (5)
          Retries,    \* ky's retries of a GET or DELETE (2)
          MaxEvents,  \* bound on calls of the page and changes at the application
          MaxLost,    \* bound on requests or answers that get lost
          Absent, Failed

ASSUME ClientAssumption ==
  /\ MaxCalls \in Nat \ {0} /\ SyncEvery \in Nat \ {0} /\ MaxEvents \in Nat
  /\ Absent # Failed /\ "ok" \notin {Absent, Failed}

(* The two are no answers of the application. *)
ASSUME AnswerAssumption ==
  \A m \in Remotes, l \in 0..MaxEvents : [remote |-> m, local |-> l] \notin {Absent, Failed}

Slots    == 1..MaxCalls
DataOps  == {"sync", "add", "delete"}
StateOf(answer) ==
  IF answer = Failed THEN "invalid"
  ELSE [accepted |-> "usable", created |-> "pending", forbidden |-> "invalid"][answer]

VARIABLES control,    \* application: what GET /connect answers to this site
          pool,       \* application: the site's instances
          state,      \* client: state
          instances,  \* client: instances
          ticking,    \* client: the timer of interval is set
          counter,    \* client: tickCounter
          calls,      \* per slot: a request in flight, with its answer once given, or Idle
          events, lost,  \* how often MaxEvents and MaxLost were used
          exact,      \* history: the cache owes the application's list
          crossed     \* history: a poll said invalid while another was under way

clientVars == <<control, pool, state, instances, ticking, counter, calls, events, lost, exact, crossed>>
client == <<state, instances, ticking, counter>>

(* via: who awaits the answer; alone: no other data call or change met it. *)
Request(op, via, arg, alone) ==
  [op |-> op, via |-> via, arg |-> arg, answer |-> Absent, alone |-> alone,
   tries |-> IF op = "delete" \/ op = "check" THEN Retries ELSE 0]

Idle == Request("none", "nobody", Absent, FALSE)

ClientInit == /\ control = "forbidden" /\ pool = <<>>
              /\ state = "invalid" /\ instances = <<>> /\ ticking = FALSE /\ counter = 0
              /\ calls = [c \in Slots |-> Idle]
              /\ events = 0 /\ lost = 0
              /\ exact = TRUE /\ crossed = FALSE

Busy    == {c \in Slots : calls[c].op # "none"}
Data    == {c \in Slots : calls[c].op \in DataOps}
Polls   == {c \in Slots : calls[c].op = "check" /\ calls[c].via = "poll"}
Answered(c, op) == calls[c].op = op /\ calls[c].answer # Absent

Disturbed == [c \in Slots |-> IF c \in Data THEN [calls[c] EXCEPT !.alone = FALSE] ELSE calls[c]]

Send(c, op, via, arg) ==
  calls' = [(IF op \in DataOps THEN Disturbed ELSE calls) EXCEPT
              ![c] = Request(op, via, arg, Data = {})]

Return(c) == calls' = [calls EXCEPT ![c] = Idle]

(* A free slot; which one makes no difference. *)
Begin(op, via, arg) ==
  \E c \in Slots \ Busy : (\A d \in Slots \ Busy : c <= d) /\ Send(c, op, via, arg)

-----------------------------------------------------------------------------
(* The page. *)

Connect == /\ events < MaxEvents /\ events' = events + 1
           /\ Begin("version", "connect", Absent)
           /\ UNCHANGED <<control, pool, client, lost, exact, crossed>>

Sync == /\ events < MaxEvents /\ events' = events + 1
        /\ Begin("sync", "page", Absent)
        /\ UNCHANGED <<control, pool, client, lost, exact, crossed>>

(* A remote that the cache has already is not sent. *)
Add(m) == /\ events < MaxEvents /\ events' = events + 1
          /\ \A i \in Range(instances) : i.remote # m
          /\ Begin("add", "page", m)
          /\ UNCHANGED <<control, pool, client, lost, exact, crossed>>

Delete(i) == /\ events < MaxEvents /\ events' = events + 1
             /\ Begin("delete", "page", i.local)
             /\ UNCHANGED <<control, pool, client, lost, exact, crossed>>

(* The timer does not wait for its last callback. *)
Fire == /\ ticking
        /\ Begin("check", "poll", Absent)
        /\ UNCHANGED <<control, pool, client, events, lost, exact, crossed>>

-----------------------------------------------------------------------------
(* The application, as far as the client sees it: desktop/src/daemon/api.rs. *)

Reply(c, answer) == calls' = [calls EXCEPT ![c].answer = answer]
Pending(c, ops) == calls[c].op \in ops /\ calls[c].answer = Absent

(* GET /version answers a JSON string, whose .version is undefined and      *)
(* compares as not lower than anything.                                     *)
ServeVersion(c) == /\ Pending(c, {"version"})
                   /\ Reply(c, "ok")
                   /\ UNCHANGED <<control, pool, client, events, lost, exact, crossed>>

ServeCheck(c) == /\ Pending(c, {"check"})
                 /\ Reply(c, control)
                 /\ UNCHANGED <<control, pool, client, events, lost, exact, crossed>>

ServeRequest(c) == /\ Pending(c, {"request"})
                   /\ control' = IF control = "forbidden" THEN "created" ELSE control
                   /\ Reply(c, "ok")
                   /\ UNCHANGED <<pool, client, events, lost, exact, crossed>>

(* CORS: the browser keeps data from, or does not ask for, an unknown site. *)
ServeRefused(c) == /\ Pending(c, DataOps) /\ control = "forbidden"
                   /\ Reply(c, Failed)
                   /\ UNCHANGED <<control, pool, client, events, lost, exact, crossed>>

ServeSync(c) == /\ Pending(c, {"sync"}) /\ control # "forbidden"
                /\ Reply(c, pool)
                /\ UNCHANGED <<control, pool, client, events, lost, exact, crossed>>

Known(m) == {i \in Range(pool) : i.remote = m}

ServeAdd(c) ==
  /\ Pending(c, {"add"}) /\ control # "forbidden"
  /\ LET m == calls[c].arg
         new == [remote |-> m, local |-> events]
     IN \/ \E i \in Known(m) : Reply(c, i) /\ UNCHANGED pool
        \/ Known(m) = {} /\ pool' = Append(pool, new) /\ Reply(c, new)
  /\ UNCHANGED <<control, client, events, lost, exact, crossed>>

Without(list, l) == SelectSeq(list, LAMBDA i : i.local # l)

ServeDelete(c) ==
  /\ Pending(c, {"delete"}) /\ control # "forbidden"
  /\ pool' = Without(pool, calls[c].arg)
  /\ Reply(c, IF pool' = pool THEN Failed ELSE "ok")
  /\ UNCHANGED <<control, client, events, lost, exact, crossed>>

(* The user accepts or removes the site, or an instance goes by itself. *)
UserAllows == /\ events < MaxEvents /\ events' = events + 1
              /\ control = "created" /\ control' = "accepted"
              /\ UNCHANGED <<pool, client, calls, lost, exact, crossed>>

UserRemoves == /\ events < MaxEvents /\ events' = events + 1
               /\ control # "forbidden" /\ control' = "forbidden"
               /\ pool' = <<>>
               /\ calls' = Disturbed /\ exact' = FALSE
               /\ UNCHANGED <<client, lost, crossed>>

InstanceGoes(i) == /\ events < MaxEvents /\ events' = events + 1
                   /\ pool' = Without(pool, i.local)
                   /\ calls' = Disturbed /\ exact' = FALSE
                   /\ UNCHANGED <<control, client, lost, crossed>>

(* A request or an answer is lost: ky sends a GET or DELETE again, except   *)
(* after a timeout, also one that was carried out.                          *)
Lose(c) == /\ lost < MaxLost /\ lost' = lost + 1
           /\ c \in Busy /\ calls[c].answer # Failed
           /\ \/ /\ calls[c].tries > 0
                 /\ calls' = [calls EXCEPT ![c].answer = Absent, ![c].tries = @ - 1]
              \/ Reply(c, Failed)
           /\ exact' = (exact /\ calls[c].op \notin {"add", "delete"})
           /\ UNCHANGED <<control, pool, client, events, crossed>>

-----------------------------------------------------------------------------
(* Back in the client: what follows each await. *)

ArriveVersion(c) ==
  /\ Answered(c, "version")
  /\ IF calls[c].answer = Failed THEN Return(c) ELSE Send(c, "check", "connect", Absent)
  /\ UNCHANGED <<control, pool, client, events, lost, exact, crossed>>

Advance == counter' = (counter + 1) % SyncEvery

ArrivePoll_NoCount(c) ==   \* plausible bug: only a poll that syncs is counted
  /\ Answered(c, "check") /\ calls[c].via = "poll"
  /\ state' = StateOf(calls[c].answer)
  /\ ticking' = (ticking /\ state' # "invalid")
  /\ crossed' = (crossed \/ (state' = "invalid" /\ Polls # {c}))
  /\ IF state' = "usable" /\ counter = 0 THEN Send(c, "sync", "poll", Absent) ELSE Return(c)
  /\ UNCHANGED <<control, pool, instances, counter, events, lost, exact>>

(* check, then the rest of the timer's callback. *)
ArrivePoll(c) ==
  /\ Answered(c, "check") /\ calls[c].via = "poll"
  /\ state' = StateOf(calls[c].answer)
  /\ ticking' = (ticking /\ state' # "invalid")
  /\ crossed' = (crossed \/ (state' = "invalid" /\ Polls # {c}))
  /\ IF state' = "usable" /\ counter = 0
     THEN Send(c, "sync", "poll", Absent) /\ UNCHANGED counter
     ELSE Return(c) /\ IF state' = "usable" THEN Advance ELSE UNCHANGED counter
  /\ UNCHANGED <<control, pool, instances, events, lost, exact>>

ArriveCheck_NoTick(c) ==   \* plausible bug: a site that was known is not polled
  /\ Answered(c, "check") /\ calls[c].via # "poll"
  /\ state' = StateOf(calls[c].answer)
  /\ IF calls[c].via = "connect"
     THEN /\ IF state' = "invalid" THEN Send(c, "request", "connect", Absent) ELSE Return(c)
          /\ UNCHANGED <<ticking, crossed>>
     ELSE Return(c) /\ ticking' = TRUE /\ crossed' = FALSE
  /\ UNCHANGED <<control, pool, instances, counter, events, lost, exact>>

(* check, then the rest of connect: POST, or tick(). *)
ArriveCheck(c) ==
  /\ Answered(c, "check") /\ calls[c].via # "poll"
  /\ state' = StateOf(calls[c].answer)
  /\ IF state' = "invalid" /\ calls[c].via = "connect"
     THEN Send(c, "request", "connect", Absent) /\ UNCHANGED <<ticking, crossed>>
     ELSE Return(c) /\ ticking' = TRUE /\ crossed' = FALSE
  /\ UNCHANGED <<control, pool, instances, counter, events, lost, exact>>

ArriveRequest(c) ==
  /\ Answered(c, "request")
  /\ IF calls[c].answer = Failed
     THEN state' = "invalid" /\ Return(c)
     ELSE Send(c, "check", "request", Absent) /\ UNCHANGED state
  /\ UNCHANGED <<control, pool, instances, ticking, counter, events, lost, exact, crossed>>

(* The whole list is replaced by what the application had when it answered. *)
ArriveSync(c) ==
  /\ Answered(c, "sync")
  /\ IF calls[c].answer = Failed
     THEN UNCHANGED <<instances, exact>>
     ELSE instances' = calls[c].answer /\ exact' = calls[c].alone
  /\ IF calls[c].via = "poll" THEN Advance ELSE UNCHANGED counter
  /\ Return(c)
  /\ UNCHANGED <<control, pool, state, ticking, events, lost, crossed>>

ArriveAdd(c) ==
  /\ Answered(c, "add")
  /\ IF calls[c].answer = Failed
     THEN UNCHANGED <<instances, exact>>
     ELSE /\ instances' = Append(instances, calls[c].answer)
          /\ exact' = (exact /\ calls[c].alone)
  /\ Return(c)
  /\ UNCHANGED <<control, pool, state, ticking, counter, events, lost, crossed>>

ArriveDelete_Keeps(c) ==   \* plausible bug: the cache is left to the next sync
  Answered(c, "delete") /\ Return(c) /\ UNCHANGED <<control, pool, client, events, lost, exact, crossed>>

ArriveDelete(c) ==
  /\ Answered(c, "delete")
  /\ IF calls[c].answer = Failed
     THEN UNCHANGED <<instances, exact>>
     ELSE /\ instances' = Without(instances, calls[c].arg)
          /\ exact' = (exact /\ calls[c].alone)
  /\ Return(c)
  /\ UNCHANGED <<control, pool, state, ticking, counter, events, lost, crossed>>

Page == \/ Connect \/ Sync
        \/ \E m \in Remotes : Add(m)
        \/ \E i \in Range(instances) : Delete(i)

Serve(c) == \/ ServeVersion(c) \/ ServeCheck(c) \/ ServeRequest(c) \/ ServeRefused(c)
            \/ ServeSync(c) \/ ServeAdd(c) \/ ServeDelete(c)

Arrive(c) == \/ ArriveVersion(c) \/ ArrivePoll(c) \/ ArriveCheck(c) \/ ArriveRequest(c)
             \/ ArriveSync(c) \/ ArriveAdd(c) \/ ArriveDelete(c)

ClientNext == \/ Page \/ Fire
              \/ \E c \in Slots : Serve(c) \/ Arrive(c) \/ Lose(c)
              \/ UserAllows \/ UserRemoves
              \/ \E i \in Range(pool) : InstanceGoes(i)

ClientSpec == ClientInit /\ [][ClientNext]_clientVars

(* Timers fire, and a call that is not lost is answered and its answer seen. *)
FairClientSpec ==
  /\ ClientSpec
  /\ WF_clientVars(Fire)
  /\ \A c \in Slots : WF_clientVars(Serve(c)) /\ WF_clientVars(Arrive(c))

-----------------------------------------------------------------------------
(* Properties. *)

(* index.ts:117-136, 249-311.  Once a sync met nothing else, the cache is    *)
(* the application's list, and adding and deleting one at a time keep it so. *)
CacheExact == exact /\ Data = {} => instances = pool

(* index.ts:89-105, 226-239.  However polls overlap and get lost: a site     *)
(* that stays in control is seen as usable for good, and its list becomes    *)
(* the application's, as long as the timer is set.                           *)
Settles ==
  <>[](control = "accepted" /\ ticking) => <>[](state = "usable" /\ instances = pool)

(* index.ts:89-105, 146-178.  A client that waits for the user or is usable  *)
(* is being polled, unless the poll that stopped the timer was overtaken by  *)
(* an answer of another one: then nobody looks any more.                     *)
PolledUnlessCrossed == state # "invalid" => ticking \/ crossed

(* What makes them inductive.  A client that nobody polls, and that no answer *)
(* was overtaken in, has no poll under way.                                   *)
NoPollLeft == ticking \/ crossed \/ (state = "invalid" /\ Polls = {})

CallsTyped ==
  /\ events \in 0..MaxEvents
  /\ DOMAIN calls = Slots
  /\ \A c \in Slots : /\ DOMAIN calls[c] = {"op", "via", "arg", "answer", "alone", "tries"}
                      /\ calls[c].alone \in BOOLEAN
                      /\ calls[c].op = "add" => calls[c].arg \in Remotes

(* Calls that changed the application's list and did not say so yet. *)
Carried == {c \in Data : calls[c].op # "sync" /\ calls[c].answer \notin {Absent, Failed}}

(* The cache is behind by the calls that are carried out; the one call that  *)
(* is alone knows by what.                                                   *)
Alone(c) == c \in Data /\ calls[c].alone

CacheKnown ==
  /\ \A c \in Slots : Alone(c) => Data = {c}
  /\ \A c \in Slots : Alone(c) /\ calls[c].op = "sync" =>
       calls[c].answer \in {Absent, Failed, pool}
  /\ \A c \in Slots : Alone(c) /\ calls[c].op = "add" =>
       \A i \in Range(instances) : i.remote # calls[c].arg
  /\ exact /\ Carried = {} => instances = pool
  /\ \A c \in Carried : exact /\ calls[c].alone =>
       pool = IF calls[c].op = "add" THEN Append(instances, calls[c].answer)
                                     ELSE Without(instances, calls[c].arg)

ClientInv == NoPollLeft /\ CallsTyped /\ CacheKnown
=============================================================================
