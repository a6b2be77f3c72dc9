-------------------------- MODULE ControllerProofs --------------------------
(***************************************************************************)
(* Proofs about Controller, for any number of origins and of requests that *)
(* overlap, and any interval of the watchdog; and about BrowserClient, for *)
(* any number of calls in flight, remotes and retries.                     *)
(***************************************************************************)
EXTENDS Controller, BrowserClient, TLAPS

USE SentinelAssumption

LEMMA NextCases ==
  ASSUME [Next]_vars
  PROVE  \/ \E t \in Tasks, op \in Ops, o \in Origins : Receive(t, op, o)
         \/ \E t \in Tasks : \/ Lock(t) \/ Look(t) \/ AddPending(t)
                             \/ AddAllowed(t) \/ RemoveAllowed(t)
         \/ UpdateHeartbeat \/ Tick \/ CheckPasses \/ Exit
         \/ UNCHANGED vars
  BY DEF Next, Handle, Watchdog

(* Each handler takes the lock of the allowed origins, and all but the CORS  *)
(* predicate the lock of the waitlist after it.                              *)
LEMMA OrderOfLocks ==
  ASSUME NEW op \in Ops
  PROVE  /\ Len(Order(op)) \in {1, 2}
         /\ Order(op)[1] = "allowed"
         /\ Len(Order(op)) = 2 => Order(op)[2] = "pending"
         /\ Len(Order(op)) = 1 <=> op = "cors"
  BY DEF Order

LEMMA HoldsWhat ==
  ASSUME TypeOK, NEW t \in Tasks, NEW l
  PROVE  Holds(t, l) <=> /\ request[t] \in Requests
                         /\ \/ l = "allowed" /\ held[t] >= 1
                            \/ l = "pending" /\ held[t] >= 2
<1>1. CASE request[t] \notin Requests
  BY <1>1 DEF Holds
<1>2. CASE request[t] \in Requests
  <2>1. request[t].op \in Ops
    BY <1>2 DEF Requests
  <2>2. held[t] \in 0..2 /\ held[t] <= Len(Order(request[t].op))
    BY <1>2 DEF TypeOK
  <2>3. QED BY <1>2, <2>1, <2>2, OrderOfLocks DEF Holds
<1>3. QED BY <1>1, <1>2

-----------------------------------------------------------------------------
LEMMA TypeInit == Init => TypeOK
  BY TimeAssumption DEF Init, TypeOK

(* A task without a request holds nothing; with one, no more than its locks. *)
LEMMA IdleHolds ==
  ASSUME TypeOK, NEW t \in Tasks
  PROVE  /\ held[t] \in 0..2
         /\ request[t] \notin Requests => held[t] = 0
         /\ request[t] \in Requests => held[t] <= Len(Order(request[t].op))
<1>1. held[t] \in 0..2
  BY DEF TypeOK
<1>2. held[t] <= (IF request[t] \in Requests THEN Len(Order(request[t].op)) ELSE 0)
  BY DEF TypeOK
<1>3. CASE request[t] \in Requests
  BY <1>1, <1>2, <1>3
<1>4. CASE request[t] \notin Requests
  BY <1>1, <1>2, <1>4
<1>5. QED BY <1>3, <1>4

(* A task that answers is done and holds nothing. *)
LEMMA AnswerType ==
  ASSUME TypeOK, NEW t \in Tasks, Answer(t),
         allowed' \in [Origins -> Nat], pending' \in [Origins -> Nat], UNCHANGED clock
  PROVE  TypeOK'
<1>1. request' \in [Tasks -> Requests \cup {None, Done}] /\ held' \in [Tasks -> 0..2]
  BY DEF TypeOK, Answer
<1>2. \A u \in Tasks : held'[u] <= (IF request'[u] \in Requests
                                    THEN Len(Order(request'[u].op)) ELSE 0)
  BY DEF TypeOK, Answer
<1>3. QED BY <1>1, <1>2 DEF TypeOK, clock

LEMMA TypeStep ==
  ASSUME TypeOK, [Next]_vars
  PROVE  TypeOK'
<1> USE DEF TypeOK, origins, clock
<1>1. ASSUME NEW t \in Tasks, NEW op \in Ops, NEW o \in Origins, Receive(t, op, o)
      PROVE  TypeOK'
  <2>1. request' \in [Tasks -> Requests \cup {None, Done}] /\ held' = held
    BY <1>1 DEF Receive, Requests
  <2>2. held[t] = 0
    BY <1>1, IdleHolds DEF Receive
  <2>3. request'[t] = [op |-> op, origin |-> o]
    BY <1>1 DEF Receive
  <2>4. 0 <= Len(Order(op))
    BY OrderOfLocks
  <2>5. \A u \in Tasks : held'[u] <= (IF request'[u] \in Requests
                                      THEN Len(Order(request'[u].op)) ELSE 0)
    <3>1. TAKE u \in Tasks
    <3>2. CASE u = t
      BY <2>1, <2>2, <2>3, <2>4, <3>2
    <3>3. CASE u # t
      BY <1>1, <2>1, <3>3 DEF Receive
    <3>4. QED BY <3>2, <3>3
  <2>6. QED BY <1>1, <2>1, <2>5 DEF Receive
<1>2. ASSUME NEW t \in Tasks, Lock(t)
      PROVE  TypeOK'
  <2>1. CASE Answer(t)
    BY <1>2, <2>1, AnswerType DEF Lock
  <2>2. CASE held' = [held EXCEPT ![t] = @ + 1] /\ UNCHANGED request
    <3>1. held[t] < Len(Order(request[t].op)) /\ request[t] \in Requests /\ request[t].op \in Ops
      BY <1>2 DEF Lock, Requests
    <3>2. held[t] + 1 \in 0..2 /\ held[t] + 1 <= Len(Order(request[t].op))
      <4>1. Len(Order(request[t].op)) \in {1, 2}
        BY <3>1, OrderOfLocks
      <4>2. held[t] \in 0..2
        OBVIOUS
      <4>3. \A h \in 0..2, n \in {1, 2} : h < n => h + 1 \in 0..2 /\ h + 1 <= n
        OBVIOUS
      <4>4. QED BY <3>1, <4>1, <4>2, <4>3, Zenon
    <3>3. QED BY <1>2, <2>2, <3>1, <3>2 DEF Lock
  <2>3. QED BY <1>2, <2>1, <2>2 DEF Lock
<1>3. ASSUME NEW t \in Tasks, Look(t)
      PROVE  TypeOK'
  BY <1>3, AnswerType DEF Look
<1>4. ASSUME NEW t \in Tasks, AddPending(t)
      PROVE  TypeOK'
  <2>1. request[t].origin \in Origins
    BY <1>4 DEF AddPending, Ready, Requests
  <2>2. pending' \in [Origins -> Nat] /\ allowed' = allowed
    BY <1>4, <2>1 DEF AddPending
  <2>3. QED BY <1>4, <2>2, AnswerType DEF AddPending
<1>5. ASSUME NEW t \in Tasks, AddAllowed(t)
      PROVE  TypeOK'
  <2>1. request[t].origin \in Origins
    BY <1>5 DEF AddAllowed, Ready, Requests
  <2>2. pending' \in [Origins -> Nat] /\ allowed' \in [Origins -> Nat]
    BY <1>5, <2>1 DEF AddAllowed
  <2>3. QED BY <1>5, <2>2, AnswerType DEF AddAllowed
<1>6. ASSUME NEW t \in Tasks, RemoveAllowed(t)
      PROVE  TypeOK'
  <2>1. pending' \in [Origins -> Nat] /\ allowed' \in [Origins -> Nat]
    BY <1>6 DEF RemoveAllowed
  <2>2. QED BY <1>6, <2>1, AnswerType DEF RemoveAllowed
<1>7. CASE UpdateHeartbeat
  BY <1>7 DEF UpdateHeartbeat
<1>8. CASE Tick
  BY <1>8 DEF Tick
<1>9. CASE CheckPasses
  BY <1>9, TimeAssumption DEF CheckPasses
<1>10. CASE Exit
  BY <1>10 DEF Exit
<1>11. CASE UNCHANGED vars
  BY <1>11 DEF vars
<1>12. QED
  BY <1>1, <1>2, <1>3, <1>4, <1>5, <1>6, <1>7, <1>8, <1>9, <1>10, <1>11, NextCases

-----------------------------------------------------------------------------
(* A task that only lets go of locks leaves the others as they are. *)
LEMMA AnswerExclusive ==
  ASSUME TypeOK, TypeOK', Exclusive, NEW t \in Tasks, Answer(t)
  PROVE  Exclusive'
<1>1. ~Holds(t, "allowed")' /\ ~Holds(t, "pending")'
  BY DEF Holds, Answer, TypeOK
<1>2. \A u \in Tasks \ {t}, l \in Locks : Holds(u, l)' = Holds(u, l) /\ request'[u] = request[u]
  BY DEF Holds, Answer, TypeOK
<1>3. QED BY <1>1, <1>2 DEF Exclusive, Locks

(* A lock is only taken when it is free. *)
LEMMA ExclusiveStep ==
  ASSUME TypeOK, TypeOK', Exclusive, [Next]_vars
  PROVE  Exclusive'
<1>1. ASSUME NEW t \in Tasks, NEW op \in Ops, NEW o \in Origins, Receive(t, op, o)
      PROVE  Exclusive'
  <2>1. held'[t] = 0
    BY <1>1, IdleHolds DEF Receive
  <2>2. ~Holds(t, "allowed")' /\ ~Holds(t, "pending")'
    BY <2>1 DEF Holds
  <2>3. \A u \in Tasks \ {t}, l \in Locks : Holds(u, l)' = Holds(u, l) /\ request'[u] = request[u]
    BY <1>1 DEF Receive, Holds, TypeOK
  <2>4. QED BY <2>2, <2>3 DEF Exclusive, Locks
<1>2. ASSUME NEW t \in Tasks, Lock(t)
      PROVE  Exclusive'
  <2>1. CASE Answer(t)
    BY <2>1, AnswerExclusive
  <2>2. CASE held' = [held EXCEPT ![t] = @ + 1] /\ UNCHANGED request
    <3> DEFINE next == Order(request[t].op)[held[t] + 1]
    <3>1. Free(t, next) /\ request[t] \in Requests
      BY <1>2 DEF Lock
    <3>2. \A u \in Tasks \ {t}, l \in Locks : Holds(u, l)' = Holds(u, l)
      BY <2>2 DEF Holds, TypeOK
    <3>3. \A l \in Locks : Holds(t, l)' => Holds(t, l) \/ l = next
      <4>1. held'[t] = held[t] + 1 /\ held[t] \in 0..2 /\ request' = request
        BY <2>2 DEF TypeOK
      <4>2. \A n \in 1..(held[t] + 1) : n \in 1..held[t] \/ n = held[t] + 1
        BY <4>1
      <4>3. QED BY <3>1, <4>1, <4>2 DEF Holds
    <3>4. \A l \in Locks, u \in Tasks \ {t} :
            Holds(t, l)' /\ Holds(u, l)' => ~Writing(request[t].op, l) /\ ~Writing(request[u].op, l)
      BY <3>1, <3>2, <3>3 DEF Free, Exclusive
    <3>5. QED BY <2>2, <3>2, <3>4 DEF Exclusive
  <2>3. QED BY <1>2, <2>1, <2>2 DEF Lock
<1>3. ASSUME NEW t \in Tasks, Look(t) \/ AddPending(t) \/ AddAllowed(t) \/ RemoveAllowed(t)
      PROVE  Exclusive'
  BY <1>3, AnswerExclusive DEF Look, AddPending, AddAllowed, RemoveAllowed
<1>4. CASE UNCHANGED <<request, held>>
  BY <1>4 DEF Exclusive, Holds
<1>5. QED
  BY <1>1, <1>2, <1>3, <1>4, NextCases DEF UpdateHeartbeat, Tick, CheckPasses, Exit, vars

-----------------------------------------------------------------------------
(* Who writes ALLOWED_ORIGINS is alone with it. *)
LEMMA WriterAlone ==
  ASSUME TypeOK, Exclusive, NEW t \in Tasks, NEW op \in Writes, Ready(t, {op})
  PROVE  \A u \in Tasks \ {t} : request[u] \in Requests => held[u] = 0
<1>1. request[t] \in Requests /\ request[t].op = op /\ op \in Ops /\ op # "cors"
  BY DEF Ready, Ops, Writes
<1>2. Holds(t, "allowed") /\ Writing(request[t].op, "allowed")
  BY <1>1, HoldsWhat, OrderOfLocks DEF Ready, Writing
<1>3. SUFFICES ASSUME NEW u \in Tasks \ {t}, request[u] \in Requests, held[u] # 0
               PROVE  FALSE
  OBVIOUS
<1>4. Holds(u, "allowed")
  <2>1. held[u] \in Nat
    BY DEF TypeOK
  <2>2. held[u] >= 1
    BY <1>3, <2>1
  <2>3. QED BY <1>3, <2>2, HoldsWhat
<1>5. QED BY <1>2, <1>4 DEF Exclusive, Locks

LEMMA AskStep ==
  ASSUME TypeOK, Exclusive, AskChecked, [Next]_vars
  PROVE  AskChecked'
<1> USE DEF TypeOK, AskChecked, origins
<1>1. ASSUME NEW t \in Tasks, NEW op \in Ops, NEW o \in Origins, Receive(t, op, o)
      PROVE  AskChecked'
  <2>1. held' = held /\ held[t] = 0 /\ allowed' = allowed
    BY <1>1, IdleHolds DEF Receive
  <2>2. \A u \in Tasks \ {t} : request'[u] = request[u]
    BY <1>1 DEF Receive
  <2>3. QED BY <2>1, <2>2
<1>2. ASSUME NEW t \in Tasks, Lock(t)
      PROVE  AskChecked'
  <2>1. CASE Answer(t)
    BY <1>2, <2>1 DEF Lock, Answer
  <2>2. CASE held' = [held EXCEPT ![t] = @ + 1] /\ UNCHANGED request /\ ~Answer(t)
    <3>1. ASSUME request[t].op = "ask"
          PROVE  allowed[request[t].origin] = 0
      <4>1. request[t] \in Requests /\ request[t].origin \in Origins /\ request[t].op \in Ops
        BY <1>2 DEF Lock, Requests
      <4>2. CASE held[t] = 0
        BY <1>2, <2>2, <3>1, <4>1, <4>2, OrderOfLocks DEF Lock
      <4>3. CASE held[t] > 0
        BY <3>1, <4>1, <4>3
      <4>4. QED BY <4>2, <4>3
    <3>2. QED BY <1>2, <2>2, <3>1 DEF Lock
  <2>3. QED BY <1>2, <2>1, <2>2 DEF Lock
<1>3. ASSUME NEW t \in Tasks, Look(t) \/ AddPending(t)
      PROVE  AskChecked'
  BY <1>3 DEF Look, AddPending, Answer
<1>4. ASSUME NEW t \in Tasks, AddAllowed(t) \/ RemoveAllowed(t)
      PROVE  AskChecked'
  <2>1. \A u \in Tasks \ {t} : request[u] \in Requests => held[u] = 0
    <3>1. CASE AddAllowed(t)
      BY <3>1, WriterAlone DEF AddAllowed, Writes
    <3>2. CASE RemoveAllowed(t)
      BY <3>2, WriterAlone DEF RemoveAllowed, Writes
    <3>3. QED BY <1>4, <3>1, <3>2
  <2>2. Answer(t)
    BY <1>4 DEF AddAllowed, RemoveAllowed
  <2>3. \A u \in Tasks : request'[u] \in Requests => u # t /\ request'[u] = request[u]
                                                      /\ held'[u] = held[u]
    BY <2>2 DEF Answer
  <2>4. QED BY <2>1, <2>3
<1>5. CASE UNCHANGED <<allowed, request, held>>
  BY <1>5
<1>6. QED
  BY <1>1, <1>2, <1>3, <1>4, <1>5, NextCases DEF UpdateHeartbeat, Tick, CheckPasses, Exit, vars

(* The waitlist gets an origin only while the look at the allowed ones holds. *)
LEMMA OriginsStep ==
  ASSUME TypeOK, AskChecked, OriginsConsistent, [Next]_vars
  PROVE  OriginsConsistent'
<1> USE DEF TypeOK, OriginsConsistent
<1>1. ASSUME NEW t \in Tasks, AddPending(t)
      PROVE  OriginsConsistent'
  <2>1. request[t] \in Requests /\ request[t].op = "ask" /\ held[t] = Len(Order("ask"))
    BY <1>1 DEF AddPending, Ready
  <2>2. held[t] > 0
    BY <2>1, OrderOfLocks DEF Ops
  <2>3. request[t].origin \in Origins /\ allowed[request[t].origin] = 0
    BY <2>1, <2>2 DEF AskChecked, Requests
  <2>4. QED BY <1>1, <2>3 DEF AddPending
<1>2. ASSUME NEW t \in Tasks, AddAllowed(t) \/ RemoveAllowed(t)
      PROVE  OriginsConsistent'
  BY <1>2 DEF AddAllowed, RemoveAllowed
<1>3. CASE UNCHANGED origins
  BY <1>3 DEF origins
<1>4. QED
  BY <1>1, <1>2, <1>3, NextCases
     DEF Receive, Lock, Look, UpdateHeartbeat, Tick, CheckPasses, Exit, vars, origins

LEMMA QuietStep ==
  ASSUME TypeOK, QuietSince, [Next]_vars
  PROVE  QuietSince'
<1> USE DEF TypeOK, QuietSince, clock
<1>1. CASE UpdateHeartbeat \/ Tick \/ CheckPasses \/ Exit
  BY <1>1 DEF UpdateHeartbeat, Tick, CheckPasses, Exit
<1>2. CASE UNCHANGED clock
  BY <1>2
<1>3. QED
  BY <1>1, <1>2, NextCases
     DEF Receive, Lock, Look, AddPending, AddAllowed, RemoveAllowed, vars

(* What num_seconds truncates: more than an interval of seconds is at least   *)
(* one more second, and no more than an interval is less than that.           *)
LEMMA SecondsOf ==
  ASSUME NEW ticks \in Nat, Seconds(ticks) > Interval
  PROVE  ticks >= (Interval + 1) * Ticks
<1> DEFINE q == ticks \div Ticks
<1>1. q \in Int /\ ticks >= q * Ticks /\ q >= Interval + 1
  BY TimeAssumption DEF Seconds
<1>2. \A a, b, c \in Int : a >= b /\ c > 0 => a * c >= b * c
  OBVIOUS
<1>3. q * Ticks >= (Interval + 1) * Ticks
  BY <1>1, <1>2, TimeAssumption
<1>4. QED BY <1>1, <1>3, TimeAssumption

LEMMA NotExpiredBelow ==
  ASSUME NEW ticks \in Nat, ~(Seconds(ticks) > Interval)
  PROVE  ticks < (Interval + 1) * Ticks
<1> DEFINE q == ticks \div Ticks
<1>1. q \in Int /\ ticks < (q + 1) * Ticks /\ q + 1 <= Interval + 1
  BY TimeAssumption DEF Seconds
<1>2. \A a, b, c \in Int : a <= b /\ c > 0 => a * c <= b * c
  OBVIOUS
<1>3. (q + 1) * Ticks <= (Interval + 1) * Ticks
  BY <1>1, <1>2, TimeAssumption
<1>4. QED BY <1>1, <1>3, TimeAssumption

(* An interval is at least a second. *)
LEMMA PeriodOf ==
  /\ Period \in Nat /\ Ticks \in Nat /\ Slack \in Nat
  /\ 0 < Ticks /\ Ticks <= Period
  /\ (Interval + 1) * Ticks = Period + Ticks
  /\ (2 * Interval + 1) * Ticks = 2 * Period + Ticks
<1>1. \A a, b \in Nat \ {0} : /\ a * b \in Nat /\ b <= a * b
                             /\ (a + 1) * b = a * b + b
                             /\ (2 * a + 1) * b = 2 * (a * b) + b
  OBVIOUS
<1>2. QED BY <1>1, TimeAssumption DEF Period

LEMMA LookStep ==
  ASSUME TypeOK, NextLook, [Next]_vars
  PROVE  NextLook'
<1> USE DEF NextLook
<1> DEFINE P == Period
<1>0. /\ P \in Nat /\ Ticks \in Nat /\ Slack \in Nat /\ 0 < Ticks /\ Ticks <= P
      /\ wait \in Int /\ since \in Nat /\ quiet \in Nat \cup {None} /\ None \notin Nat
  BY PeriodOf DEF TypeOK
<1>1. CASE UpdateHeartbeat
  <2>1. quiet' = 0 /\ since' = 0 /\ wait' = wait
    BY <1>1 DEF UpdateHeartbeat
  <2>2. QED BY <1>0, <2>1
<1>2. CASE Tick
  <2>1. /\ wait > -Slack /\ wait' = wait - 1 /\ since' = since + 1
        /\ quiet' = IF quiet = None THEN None ELSE quiet + 1
    BY <1>2 DEF Tick
  <2>2. -Slack <= wait' /\ wait' <= P
    BY <1>0, <2>1
  <2>3. QED BY <1>0, <2>1, <2>2
<1>3. CASE CheckPasses
  <2>1. /\ wait <= 0 /\ wait' = P /\ since' = since
        /\ quiet' = IF quiet = None THEN 0 ELSE quiet
    BY <1>3 DEF CheckPasses, Period
  <2>2. quiet # None => quiet < P + Ticks
    BY <1>0, <1>3, NotExpiredBelow, PeriodOf DEF CheckPasses, Expired
  <2>3. CASE quiet = None
    BY <1>0, <2>1, <2>3
  <2>4. CASE quiet # None
    <3>1. CASE quiet = since
      BY <1>0, <2>1, <2>2, <2>4, <3>1
    <3>2. CASE quiet # since
      BY <1>0, <2>1, <2>2, <2>4, <3>2
    <3>3. QED BY <3>1, <3>2
  <2>5. QED BY <2>3, <2>4
<1>4. CASE UNCHANGED <<quiet, wait, since>>
  BY <1>4 DEF Period
<1>5. QED
  BY <1>1, <1>2, <1>3, <1>4, NextCases
     DEF Receive, Lock, Look, AddPending, AddAllowed, RemoveAllowed, Exit, vars, clock

-----------------------------------------------------------------------------
LEMMA InvInit == Init => IInv
<1>1. Init => QuietSince /\ AskChecked /\ OriginsConsistent
  BY DEF Init, QuietSince, AskChecked, OriginsConsistent
<1>2. Init => Exclusive
  BY DEF Init, Exclusive, Holds
<1>3. Init => NextLook
  BY PeriodOf DEF Init, NextLook, Period
<1>4. QED BY <1>1, <1>2, <1>3, TypeInit DEF IInv

LEMMA InvStep == IInv /\ [Next]_vars => IInv'
  BY TypeStep, ExclusiveStep, AskStep, OriginsStep, QuietStep, LookStep DEF IInv

LEMMA Inductive == Spec => []IInv
  BY InvInit, InvStep, PTL DEF Spec

(* The lists, the handlers and the clock are well typed (daemon.rs:71-99).  *)
THEOREM TypeCorrect == Spec => []TypeOK
<1>1. IInv => TypeOK
  BY DEF IInv
<1>2. QED BY <1>1, Inductive, PTL

(* No origin waits and is allowed at once, or waits twice, however many     *)
(* requests overlap (daemon.rs:252-346).                                    *)
THEOREM OriginsAlwaysConsistent == Spec => []OriginsConsistent
<1>1. IInv => OriginsConsistent
  BY DEF IInv
<1>2. QED BY <1>1, Inductive, PTL

(* A revocation answers with nothing of its origin left, however often it   *)
(* was allowed (daemon.rs:276-298).                                         *)
THEOREM RevocationsHold == Spec => Revoked
<1> DEFINE A == \A t \in Tasks : request[t] \in Requests /\ request'[t] = Done =>
       (request[t].op = "revoke" => allowed'[request[t].origin] + pending'[request[t].origin] = 0)
<1>1. TypeOK /\ [Next]_vars => [A]_vars
  <2>1. SUFFICES ASSUME TypeOK, Next, NEW t \in Tasks,
                        request[t] \in Requests, request'[t] = Done, request[t].op = "revoke"
                 PROVE  allowed'[request[t].origin] + pending'[request[t].origin] = 0
    BY DEF A
  <2>2. request[t].origin \in Origins
    BY <2>1 DEF Requests
  <2>3. ASSUME NEW u \in Tasks, Answer(u)
        PROVE  u = t
    BY <2>1, <2>3 DEF Answer, TypeOK
  <2>4. CASE RemoveAllowed(t)
    <3>1. /\ allowed' = [allowed EXCEPT ![request[t].origin] = 0]
          /\ pending' = [pending EXCEPT ![request[t].origin] = 0]
      BY <2>4, Zenon DEF RemoveAllowed
    <3>2. allowed \in [Origins -> Nat] /\ pending \in [Origins -> Nat]
      BY <2>1 DEF TypeOK
    <3>3. QED BY <2>2, <3>1, <3>2
  <2>5. CASE Look(t) \/ AddPending(t) \/ AddAllowed(t)
    BY <2>1, <2>5 DEF Look, AddPending, AddAllowed, Ready, Reads
  <2>6. CASE Lock(t)
    BY <2>1, <2>6 DEF Lock, TypeOK
  <2>7. ASSUME NEW u \in Tasks, Lock(u), ~Answer(u)
        PROVE  FALSE
    BY <2>1, <2>7 DEF Lock
  <2>8. ASSUME NEW u \in Tasks, NEW op \in Ops, NEW o \in Origins, Receive(u, op, o)
        PROVE  FALSE
    BY <2>1, <2>8 DEF Receive, TypeOK, Requests
  <2>9. CASE UpdateHeartbeat \/ Tick \/ Watchdog
    BY <2>1, <2>9 DEF UpdateHeartbeat, Tick, Watchdog, CheckPasses, Exit
  <2>10. QED
    BY <2>1, <2>3, <2>4, <2>5, <2>6, <2>7, <2>8, <2>9
       DEF Next, Handle, Look, AddPending, AddAllowed, RemoveAllowed
<1>2. QED BY <1>1, TypeCorrect, PTL DEF Spec, Revoked

(* The watchdog ends no daemon whose owner beat within the interval, for    *)
(* every interval and resolution of the clock (daemon.rs:80-99).            *)
THEOREM OwnersKept == Spec => OwnerKept
<1> DEFINE A == ~alive' => since >= (Interval + 1) * Ticks
<1>1. TypeOK /\ QuietSince /\ [Next]_vars => [A]_vars
  <2>1. SUFFICES ASSUME TypeOK, QuietSince, Next, ~alive'
                 PROVE  since >= (Interval + 1) * Ticks
    BY DEF A
  <2>2. Exit
    BY <2>1
       DEF Next, Handle, Watchdog, Receive, Lock, Look, AddPending, AddAllowed, RemoveAllowed,
           Ready, UpdateHeartbeat, Tick, CheckPasses, clock
  <2>3. quiet \in Nat /\ quiet <= since /\ Seconds(quiet) > Interval /\ since \in Nat
    BY <2>1, <2>2 DEF Exit, Expired, TypeOK, QuietSince
  <2>4. quiet >= (Interval + 1) * Ticks /\ (Interval + 1) * Ticks \in Int
    BY <2>3, SecondsOf, TimeAssumption
  <2>5. QED BY <2>3, <2>4
<1>2. IInv => TypeOK /\ QuietSince
  BY DEF IInv
<1>3. QED BY <1>1, <1>2, Inductive, PTL DEF Spec, OwnerKept

(* An owner that is gone is noticed: within two intervals and a second of its *)
(* last beat, within three intervals of the launch if it never did beat, give *)
(* or take the lateness of the sleeps (daemon.rs:77-99).                      *)
THEOREM OwnersGoneAreNoticed == Spec => []LeftBehindEnds
<1>1. IInv => LeftBehindEnds
  <2>1. SUFFICES ASSUME TypeOK, NextLook
                 PROVE  /\ since <= 3 * (Period + Slack)
                        /\ quiet = since => since < (2 * Interval + 1) * Ticks + Slack
    BY DEF IInv, LeftBehindEnds, Period
  <2>2. /\ wait \in Int /\ since \in Nat /\ quiet \in Nat \cup {None} /\ None \notin Nat
    BY <2>1 DEF TypeOK
  <2>3. since <= 3 * (Period + Slack)
    BY <2>1, <2>2, PeriodOf DEF NextLook
  <2>4. ASSUME quiet = since PROVE since < 2 * Period + Ticks + Slack
    BY <2>1, <2>2, <2>4, PeriodOf DEF NextLook
  <2>5. QED BY <2>3, <2>4, PeriodOf
<1>2. QED BY <1>1, Inductive, PTL
(* daemon.rs:242-346.  However many threads take the two locks, somebody can  *)
(* always go on: who holds both, or else who holds the first, or else anyone. *)
THEOREM SomebodyGoesOn == Spec => []NobodyStuck
  <1>1. IInv => NobodyStuck
    <2> SUFFICES ASSUME TypeOK, NEW t \in Tasks, request[t] \in Requests
                 PROVE  \E u \in Tasks : GoesOn(u)
      BY DEF IInv, NobodyStuck
    <2> DEFINE Has(u) == request[u] \in Requests /\ held[u] = Len(Order(request[u].op))
               First(u) == request[u] \in Requests /\ held[u] = 1
    <2>1. \A u \in Tasks : /\ held[u] \in 0..2
                           /\ request[u] \in Requests => held[u] <= Len(Order(request[u].op))
                           /\ request[u] \notin Requests => held[u] = 0
      BY DEF TypeOK
    <2>2. \A u \in Tasks : request[u] \in Requests => request[u].op \in Ops
      BY DEF Requests
    <2>3. \A u \in Tasks : request[u] \in Requests =>
            /\ Len(Order(request[u].op)) \in {1, 2} /\ Order(request[u].op)[1] = "allowed"
            /\ Len(Order(request[u].op)) = 2 => Order(request[u].op)[2] = "pending"
      BY <2>2, OrderOfLocks
    <2>4. CASE \E u \in Tasks : Has(u)
      BY <2>4 DEF GoesOn
    <2>5. CASE (\A u \in Tasks : ~Has(u)) /\ (\E u \in Tasks : First(u))
      <3>1. PICK u \in Tasks : First(u)
        BY <2>5
      <3>2. Order(request[u].op)[held[u] + 1] = "pending"
        <4>1. Len(Order(request[u].op)) = 2
          BY <2>3, <2>5, <3>1
        <4>2. QED BY <2>3, <3>1, <4>1
      <3>3. \A v \in Tasks : ~Holds(v, "pending")
        <4>1. SUFFICES ASSUME NEW v \in Tasks, Holds(v, "pending") PROVE FALSE
          OBVIOUS
        <4>2. request[v] \in Requests /\ held[v] = 2
          <5>1. request[v] \in Requests /\ held[v] >= 2
            BY <4>1, HoldsWhat
          <5>2. QED BY <2>1, <5>1
        <4>3. Len(Order(request[v].op)) = 2
          <5> DEFINE n == Len(Order(request[v].op))
          <5>1. n \in {1, 2} /\ held[v] = 2 /\ held[v] <= n
            BY <2>1, <2>3, <4>2
          <5> HIDE DEF n
          <5>2. n = 2
            BY <5>1
          <5>3. QED BY <5>2 DEF n
        <4>4. QED BY <2>5, <4>2, <4>3
      <3>4. Free(u, "pending")
        BY <3>3 DEF Free
      <3>5. QED BY <3>1, <3>2, <3>4 DEF GoesOn
    <2>6. CASE \A u \in Tasks : ~Has(u) /\ ~First(u)
      <3>1. \A u \in Tasks : held[u] = 0
        <4>1. SUFFICES ASSUME NEW u \in Tasks, request[u] \in Requests PROVE held[u] = 0
          BY <2>1
        <4> DEFINE n == Len(Order(request[u].op))
        <4>2. held[u] # 1 /\ held[u] # n /\ held[u] <= n /\ held[u] \in 0..2
          BY <2>1, <2>6, <4>1
        <4>3. n \in {1, 2}
          BY <2>3, <4>1
        <4> HIDE DEF n
        <4>4. QED BY <4>2, <4>3
      <3>2. Order(request[t].op)[held[t] + 1] = "allowed"
        BY <2>3, <3>1
      <3>3. Free(t, "allowed")
        BY <3>1 DEF Free, Holds
      <3>4. QED BY <3>2, <3>3 DEF GoesOn
    <2>7. QED BY <2>4, <2>5, <2>6
  <1>2. QED BY <1>1, Inductive, PTL

-----------------------------------------------------------------------------
(* The browser client.  First, what a step does to the calls in flight. *)
LEMMA DisturbedFields ==
  ASSUME CallsTyped, NEW d \in Slots
  PROVE  LET r == [calls[d] EXCEPT !.alone = FALSE]
         IN /\ DOMAIN r = DOMAIN calls[d] /\ r.alone = FALSE
            /\ r.op = calls[d].op /\ r.via = calls[d].via /\ r.arg = calls[d].arg
            /\ r.answer = calls[d].answer /\ r.tries = calls[d].tries
  BY DEF CallsTyped

LEMMA RequestFields ==
  ASSUME NEW op, NEW via, NEW arg, NEW alone
  PROVE  LET r == Request(op, via, arg, alone)
         IN /\ DOMAIN r = {"op", "via", "arg", "answer", "alone", "tries"}
            /\ r.op = op /\ r.via = via /\ r.arg = arg /\ r.alone = alone /\ r.answer = Absent
  BY DEF Request

(* Every call but c: a data call that is sent disturbs those under way. *)
LEMMA SendFrame ==
  ASSUME CallsTyped, NEW c \in Slots \ Data, NEW op, NEW via, NEW arg, Send(c, op, via, arg)
  PROVE  /\ DOMAIN calls' = Slots
         /\ calls'[c] = Request(op, via, arg, Data = {})
         /\ \A d \in Slots \ {c} :
              calls'[d] = IF op \in DataOps /\ d \in Data
                          THEN [calls[d] EXCEPT !.alone = FALSE] ELSE calls[d]
  BY DEF Send, Disturbed, CallsTyped

(* A new call, from a slot that holds no data call, keeps what is known. *)
LEMMA SendKeeps ==
  ASSUME CallsTyped, CacheKnown, NEW c \in Slots \ Data, NEW op, NEW via, NEW arg,
         Send(c, op, via, arg), UNCHANGED <<pool, instances, exact>>,
         events' \in 0..MaxEvents,
         op = "add" => arg \in Remotes /\ \A i \in Range(instances) : i.remote # arg
  PROVE  CallsTyped' /\ CacheKnown'
  <1> DEFINE r == Request(op, via, arg, Data = {})
  <1>1. /\ DOMAIN calls' = Slots /\ calls'[c] = r
        /\ \A d \in Slots \ {c} :
             calls'[d] = IF op \in DataOps /\ d \in Data
                         THEN [calls[d] EXCEPT !.alone = FALSE] ELSE calls[d]
    BY SendFrame
  <1>2. /\ DOMAIN r = {"op", "via", "arg", "answer", "alone", "tries"}
        /\ r.op = op /\ r.via = via /\ r.arg = arg /\ r.alone = (Data = {}) /\ r.answer = Absent
    BY RequestFields
  <1> HIDE DEF r
  <1>3. \A d \in Slots \ {c} : /\ DOMAIN calls'[d] = DOMAIN calls[d]
                               /\ calls'[d].op = calls[d].op /\ calls'[d].arg = calls[d].arg
                               /\ calls'[d].answer = calls[d].answer
                               /\ calls'[d].alone \in BOOLEAN
                               /\ calls'[d].alone => calls[d].alone
                               /\ d \in Data /\ op \in DataOps => ~calls'[d].alone
    <2> TAKE d \in Slots \ {c}
    <2>1. CASE op \in DataOps /\ d \in Data
      <3>1. calls'[d] = [calls[d] EXCEPT !.alone = FALSE]
        BY <1>1, <2>1
      <3>2. DOMAIN calls[d] = {"op", "via", "arg", "answer", "alone", "tries"}
        BY DEF CallsTyped
      <3>3. QED BY <3>1, <3>2
    <2>2. CASE ~(op \in DataOps /\ d \in Data)
      <3>1. calls'[d] = calls[d] /\ calls[d].alone \in BOOLEAN
        BY <1>1, <2>2 DEF CallsTyped
      <3>2. QED BY <2>2, <3>1
    <2>3. QED BY <2>1, <2>2
  <1>4. CallsTyped'
    BY <1>1, <1>2, <1>3 DEF CallsTyped
  <1>5. Data' = Data \cup (IF op \in DataOps THEN {c} ELSE {})
    <2>1. \A d \in Slots \ {c} : d \in Data' <=> d \in Data
      BY <1>3 DEF Data
    <2>2. c \in Data' <=> op \in DataOps
      BY <1>1, <1>2 DEF Data
    <2>3. Data' \subseteq Slots /\ Data \subseteq Slots /\ c \notin Data
      BY DEF Data
    <2>4. QED BY <2>1, <2>2, <2>3
  <1>6. Carried' = Carried
    <2>1. c \notin Carried /\ c \notin Carried'
      BY <1>1, <1>2 DEF Carried
    <2>2. \A d \in Slots \ {c} : d \in Carried' <=> d \in Carried
      BY <1>3, <1>5 DEF Carried
    <2>3. QED BY <2>1, <2>2 DEF Carried, Data
  <1>7. \A d \in Slots : Alone(d)' => \/ d = c /\ Data = {} /\ op \in DataOps
                                      \/ d # c /\ Alone(d) /\ op \notin DataOps
    BY <1>1, <1>2, <1>3, <1>5 DEF Alone
  <1>8. \A d \in Carried : calls'[d].op = calls[d].op /\ calls'[d].arg = calls[d].arg
                           /\ calls'[d].answer = calls[d].answer
                           /\ (calls'[d].alone => calls[d].alone)
    BY <1>3 DEF Carried, Data
  <1>9. CacheKnown'
    <2>1. ASSUME NEW d \in Slots, Alone(d)'
          PROVE  /\ Data' = {d}
                 /\ calls'[d].op = "sync" => calls'[d].answer \in {Absent, Failed, pool}
                 /\ calls'[d].op = "add" => \A i \in Range(instances) : i.remote # calls'[d].arg
      <3>1. CASE d = c
        BY <1>1, <1>2, <1>5, <1>7, <2>1, <3>1
      <3>2. CASE d # c
        BY <1>3, <1>5, <1>7, <2>1, <3>2 DEF CacheKnown
      <3>3. QED BY <3>1, <3>2
    <2>2. exact /\ Carried = {} => instances = pool
      BY DEF CacheKnown
    <2>3. \A d \in Carried : exact /\ calls'[d].alone =>
            pool = IF calls'[d].op = "add" THEN Append(instances, calls'[d].answer)
                                           ELSE Without(instances, calls'[d].arg)
      BY <1>8 DEF CacheKnown
    <2>4. QED BY <1>6, <2>1, <2>2, <2>3 DEF CacheKnown
  <1>10. QED BY <1>4, <1>9

(* So does a call that begins in a free slot. *)
LEMMA BeginKeeps ==
  ASSUME CallsTyped, CacheKnown, NEW op, NEW via, NEW arg,
         Begin(op, via, arg), UNCHANGED <<pool, instances, exact>>,
         events' \in 0..MaxEvents,
         op = "add" => arg \in Remotes /\ \A i \in Range(instances) : i.remote # arg
  PROVE  CallsTyped' /\ CacheKnown'
  <1>1. PICK c \in Slots \ Busy : Send(c, op, via, arg)
    BY DEF Begin
  <1>2. c \in Slots \ Data
    BY <1>1 DEF Busy, Data, DataOps
  <1>3. QED BY <1>1, <1>2, SendKeeps

(* A call that is no data call is answered, sent again, or over. *)
LEMMA OtherKeeps ==
  ASSUME CallsTyped, CacheKnown, NEW c \in Slots \ Data, NEW r,
         DOMAIN r = {"op", "via", "arg", "answer", "alone", "tries"},
         r.alone \in BOOLEAN, r.op \notin DataOps,
         calls' = [calls EXCEPT ![c] = r],
         UNCHANGED <<pool, instances, exact>>, events' = events
  PROVE  CallsTyped' /\ CacheKnown'
  <1>1. DOMAIN calls' = Slots /\ calls'[c] = r /\ \A d \in Slots \ {c} : calls'[d] = calls[d]
    BY DEF CallsTyped
  <1>2. CallsTyped'
    BY <1>1 DEF CallsTyped, DataOps
  <1>3. Data' = Data /\ Carried' = Carried
    BY <1>1 DEF Data, Carried
  <1>4. \A d \in Slots : (Alone(d)' <=> Alone(d)) /\ (d \in Data => calls'[d] = calls[d])
    BY <1>1, <1>3 DEF Alone
  <1>5. CacheKnown'
    BY <1>1, <1>3, <1>4 DEF CacheKnown, Alone, Carried
  <1>6. QED BY <1>2, <1>5

(* The application answers a data call. *)
LEMMA ReplyFrame ==
  ASSUME CallsTyped, NEW c \in Slots, NEW a, Reply(c, a)
  PROVE  /\ DOMAIN calls' = Slots /\ calls'[c].answer = a
         /\ DOMAIN calls'[c] = DOMAIN calls[c]
         /\ calls'[c].op = calls[c].op /\ calls'[c].via = calls[c].via
         /\ calls'[c].arg = calls[c].arg /\ calls'[c].alone = calls[c].alone
         /\ \A d \in Slots \ {c} : calls'[d] = calls[d]
         /\ events' = events => CallsTyped'
         /\ Data' = Data /\ \A d \in Slots : Alone(d)' <=> Alone(d)
  <1>1. /\ DOMAIN calls' = Slots /\ calls'[c].answer = a
        /\ DOMAIN calls'[c] = DOMAIN calls[c]
        /\ calls'[c].op = calls[c].op /\ calls'[c].via = calls[c].via
        /\ calls'[c].arg = calls[c].arg /\ calls'[c].alone = calls[c].alone
        /\ \A d \in Slots \ {c} : calls'[d] = calls[d]
    BY DEF Reply, CallsTyped
  <1>2. events' = events => CallsTyped'
    BY <1>1 DEF CallsTyped
  <1>3. Data' = Data
    BY <1>1 DEF Data
  <1>4. \A d \in Slots : Alone(d)' <=> Alone(d)
    BY <1>1, <1>3 DEF Alone
  <1>5. QED BY <1>1, <1>2, <1>3, <1>4

(* Refused, served to a sync, or lost: the application's list stays. *)
LEMMA RefusedKeeps ==
  ASSUME CallsTyped, CacheKnown, NEW c \in Data, NEW a \in {Absent, Failed, pool}, Reply(c, a),
         a \in {Absent, Failed} \/ calls[c].op = "sync",
         calls[c].answer = Absent \/ calls[c].op = "sync",
         UNCHANGED <<pool, instances, exact, events>>
  PROVE  CallsTyped' /\ CacheKnown'
  <1>1. c \in Slots
    BY DEF Data
  <1>2. /\ calls'[c].answer = a /\ calls'[c].op = calls[c].op /\ calls'[c].arg = calls[c].arg
        /\ calls'[c].alone = calls[c].alone
        /\ \A d \in Slots \ {c} : calls'[d] = calls[d]
        /\ CallsTyped' /\ Data' = Data /\ \A d \in Slots : Alone(d)' <=> Alone(d)
    BY <1>1, ReplyFrame
  <1>3. c \notin Carried /\ c \notin Carried'
    BY <1>2 DEF Carried
  <1>4. Carried' = Carried
    <2>1. \A d \in Slots \ {c} : d \in Carried' <=> d \in Carried
      BY <1>2 DEF Carried
    <2>2. QED BY <1>3, <2>1 DEF Carried, Data
  <1>5. CacheKnown'
    <2>1. ASSUME NEW d \in Slots, Alone(d)'
          PROVE  /\ Data' = {d}
                 /\ calls'[d].op = "sync" => calls'[d].answer \in {Absent, Failed, pool}
                 /\ calls'[d].op = "add" => \A i \in Range(instances) : i.remote # calls'[d].arg
      BY <1>2, <2>1 DEF CacheKnown
    <2>2. \A d \in Carried : calls'[d] = calls[d] /\ d \in Slots
      BY <1>2, <1>3 DEF Carried, Data
    <2>3. \A d \in Carried : exact /\ calls'[d].alone =>
            pool = IF calls'[d].op = "add" THEN Append(instances, calls'[d].answer)
                                           ELSE Without(instances, calls'[d].arg)
      BY <2>2 DEF CacheKnown
    <2>4. exact /\ Carried = {} => instances = pool
      BY DEF CacheKnown
    <2>5. QED BY <1>4, <2>1, <2>3, <2>4 DEF CacheKnown
  <1>6. QED BY <1>2, <1>5

(* Carried out: the list has changed, and the cache owes it this call. *)
LEMMA CarriedOutKeeps ==
  ASSUME CallsTyped, CacheKnown, NEW c \in Data, NEW a, Reply(c, a), a \notin {Absent, Failed},
         calls[c].op # "sync", calls[c].answer = Absent,
         UNCHANGED <<instances, exact, events>>,
         Alone(c) /\ exact /\ instances = pool =>
           pool' = IF calls[c].op = "add" THEN Append(instances, a)
                                          ELSE Without(instances, calls[c].arg)
  PROVE  CallsTyped' /\ CacheKnown'
  <1>1. c \in Slots
    BY DEF Data
  <1>2. /\ calls'[c].answer = a /\ calls'[c].op = calls[c].op /\ calls'[c].arg = calls[c].arg
        /\ calls'[c].alone = calls[c].alone
        /\ \A d \in Slots \ {c} : calls'[d] = calls[d]
        /\ CallsTyped' /\ Data' = Data /\ \A d \in Slots : Alone(d)' <=> Alone(d)
    BY <1>1, ReplyFrame
  <1>3. c \in Carried' /\ c \notin Carried /\ Carried \subseteq Data
    BY <1>1, <1>2 DEF Carried
  <1>4. \A d \in Slots : Alone(d) => d = c /\ Data = {c} /\ Carried = {}
    <2>1. SUFFICES ASSUME NEW d \in Slots, Alone(d) PROVE d = c /\ Data = {c} /\ Carried = {}
      OBVIOUS
    <2>2. Data = {d}
      BY <2>1 DEF CacheKnown
    <2>3. QED BY <1>3, <2>2
  <1>5. Alone(c) /\ exact => pool' = IF calls[c].op = "add" THEN Append(instances, a)
                                     ELSE Without(instances, calls[c].arg)
    BY <1>1, <1>4 DEF CacheKnown
  <1>6. CacheKnown'
    <2>1. ASSUME NEW d \in Slots, Alone(d)'
          PROVE  /\ Data' = {d} /\ calls'[d].op # "sync"
                 /\ calls'[d].op = "add" => \A i \in Range(instances) : i.remote # calls'[d].arg
      BY <1>2, <1>4, <2>1 DEF CacheKnown
    <2>2. ASSUME NEW d \in Carried', exact, calls'[d].alone
          PROVE  pool' = IF calls'[d].op = "add" THEN Append(instances, calls'[d].answer)
                                                 ELSE Without(instances, calls'[d].arg)
      <3>1. d \in Slots /\ Alone(d)'
        BY <2>2 DEF Carried, Alone, Data
      <3>2. d = c /\ Alone(c)
        BY <1>2, <1>4, <3>1
      <3>3. QED BY <1>2, <1>5, <2>2, <3>2
    <2>3. QED BY <1>3, <2>1, <2>2 DEF CacheKnown
  <1>7. QED BY <1>2, <1>6

LEMMA ServeAddKeeps ==
  ASSUME CallsTyped, CacheKnown, NEW c \in Slots, ServeAdd(c)
  PROVE  CallsTyped' /\ CacheKnown'
  <1> DEFINE m == calls[c].arg
             new == [remote |-> m, local |-> events]
  <1>1. /\ calls[c].op = "add" /\ calls[c].answer = Absent
        /\ UNCHANGED <<instances, exact, events>>
        /\ \/ \E i \in Known(m) : Reply(c, i) /\ pool' = pool
           \/ Known(m) = {} /\ pool' = Append(pool, new) /\ Reply(c, new)
    BY DEF ServeAdd, Pending, client
  <1>2. c \in Data
    BY <1>1 DEF Data, DataOps
  <1>3. new \notin {Absent, Failed}
    BY <1>1, AnswerAssumption DEF CallsTyped
  <1>4. CASE Known(m) = {} /\ pool' = Append(pool, new) /\ Reply(c, new)
    <2> HIDE DEF new
    <2>1. QED BY <1>1, <1>2, <1>3, <1>4, CarriedOutKeeps
  <1>5. CASE \E i \in Known(m) : Reply(c, i) /\ pool' = pool
    <2>1. PICK i \in Known(m) : Reply(c, i) /\ pool' = pool
      BY <1>5
    <2>2. ~(Alone(c) /\ exact /\ instances = pool)
      <3>1. i \in Range(pool) /\ i.remote = m
        BY DEF Known
      <3>2. QED BY <1>1, <3>1 DEF CacheKnown
    <2>3. CASE i \notin {Absent, Failed}
      BY <1>1, <1>2, <2>1, <2>2, <2>3, CarriedOutKeeps
    <2>4. CASE i \in {Absent, Failed}
      BY <1>1, <1>2, <2>1, <2>4, RefusedKeeps
    <2>5. QED BY <2>3, <2>4
  <1>6. QED BY <1>1, <1>4, <1>5

LEMMA ServeDeleteKeeps ==
  ASSUME CallsTyped, CacheKnown, NEW c \in Slots, ServeDelete(c)
  PROVE  CallsTyped' /\ CacheKnown'
  <1>1. /\ calls[c].op = "delete" /\ calls[c].answer = Absent
        /\ pool' = Without(pool, calls[c].arg)
        /\ Reply(c, IF pool' = pool THEN Failed ELSE "ok")
        /\ UNCHANGED <<instances, exact, events>>
    BY DEF ServeDelete, Pending, client
  <1>2. c \in Data
    BY <1>1 DEF Data, DataOps
  <1>3. CASE pool' = pool
    BY <1>1, <1>2, <1>3, RefusedKeeps
  <1>4. CASE pool' # pool
    BY <1>1, <1>2, <1>4, CarriedOutKeeps, ClientAssumption
  <1>5. QED BY <1>3, <1>4

(* An answer is lost.  A change that was carried out is then owed for good. *)
LEMMA LoseKeeps ==
  ASSUME CallsTyped, CacheKnown, NEW c \in Slots, Lose(c)
  PROVE  CallsTyped' /\ CacheKnown'
  <1>1. /\ exact' = (exact /\ calls[c].op \notin {"add", "delete"})
        /\ UNCHANGED <<pool, instances, events>>
        /\ \/ calls' = [calls EXCEPT ![c].answer = Absent, ![c].tries = @ - 1]
           \/ calls' = [calls EXCEPT ![c].answer = Failed]
    BY DEF Lose, client, Reply
  <1>2. /\ DOMAIN calls' = Slots /\ calls'[c].answer \in {Absent, Failed}
        /\ DOMAIN calls'[c] = DOMAIN calls[c]
        /\ calls'[c].op = calls[c].op
        /\ calls'[c].arg = calls[c].arg /\ calls'[c].alone = calls[c].alone
        /\ \A d \in Slots \ {c} : calls'[d] = calls[d]
    BY <1>1 DEF CallsTyped
  <1>3. CallsTyped'
    BY <1>1, <1>2 DEF CallsTyped
  <1>4. Data' = Data
    BY <1>2 DEF Data
  <1>5. \A d \in Slots : Alone(d)' <=> Alone(d)
    BY <1>2, <1>4 DEF Alone
  <1>6. Carried' = Carried \ {c}
    <2>1. c \notin Carried'
      BY <1>2 DEF Carried
    <2>2. \A d \in Slots \ {c} : d \in Carried' <=> d \in Carried
      BY <1>2 DEF Carried, Data
    <2>3. QED BY <2>1, <2>2 DEF Carried, Data
  <1>7. CacheKnown'
    <2>1. ASSUME NEW d \in Slots, Alone(d)'
          PROVE  /\ Data' = {d}
                 /\ calls'[d].op = "sync" => calls'[d].answer \in {Absent, Failed, pool}
                 /\ calls'[d].op = "add" => \A i \in Range(instances) : i.remote # calls'[d].arg
      BY <1>2, <1>4, <1>5, <2>1 DEF CacheKnown
    <2>2. exact' /\ Carried' = {} => instances = pool
      <3>1. exact' => exact /\ c \notin Carried
        BY <1>1 DEF Carried, Data, DataOps
      <3>2. QED BY <1>6, <3>1 DEF CacheKnown
    <2>3. \A d \in Carried' : exact' /\ calls'[d].alone =>
            pool = IF calls'[d].op = "add" THEN Append(instances, calls'[d].answer)
                                           ELSE Without(instances, calls'[d].arg)
      <3>1. \A d \in Carried' : calls'[d] = calls[d]
        BY <1>2, <1>6 DEF Carried, Data
      <3>2. QED BY <1>1, <1>6, <3>1 DEF CacheKnown
    <2>4. QED BY <1>1, <2>1, <2>2, <2>3 DEF CacheKnown
  <1>8. QED BY <1>3, <1>7

(* The call of c is over: none that is left is alone. *)
LEMMA ReturnKeeps ==
  ASSUME CallsTyped, CacheKnown, NEW c \in Data, Return(c), events' = events,
         exact' /\ Carried \ {c} = {} => instances' = pool'
  PROVE  CallsTyped' /\ CacheKnown'
  <1>1. c \in Slots
    BY DEF Data
  <1>2. /\ DOMAIN Idle = {"op", "via", "arg", "answer", "alone", "tries"}
        /\ Idle.op = "none" /\ Idle.alone = FALSE
    BY DEF Idle, Request
  <1>3. DOMAIN calls' = Slots /\ calls'[c] = Idle /\ \A d \in Slots \ {c} : calls'[d] = calls[d]
    BY <1>1 DEF Return, CallsTyped
  <1>4. CallsTyped'
    BY <1>2, <1>3 DEF CallsTyped
  <1>5. Data' = Data \ {c}
    BY <1>2, <1>3 DEF Data, DataOps
  <1>6. Carried' = Carried \ {c}
    BY <1>3, <1>5 DEF Carried, Data
  <1>7. \A d \in Slots : ~Alone(d)'
    <2>1. SUFFICES ASSUME NEW d \in Slots, Alone(d)' PROVE FALSE
      OBVIOUS
    <2>2. d \in Data /\ d # c /\ Alone(d)
      BY <1>3, <1>5, <2>1 DEF Alone
    <2>3. QED BY <2>2 DEF CacheKnown
  <1>8. CacheKnown'
    <2>1. \A d \in Carried' : ~calls'[d].alone
      BY <1>4, <1>7 DEF Carried, Alone, Data
    <2>2. QED BY <1>6, <1>7, <2>1 DEF CacheKnown
  <1>9. QED BY <1>4, <1>8

(* A call that is no data call returns. *)
LEMMA QuietReturn ==
  ASSUME CallsTyped, CacheKnown, NEW c \in Slots \ Data, Return(c),
         UNCHANGED <<pool, instances, exact, events>>
  PROVE  CallsTyped' /\ CacheKnown'
  <1>1. /\ DOMAIN Idle = {"op", "via", "arg", "answer", "alone", "tries"}
        /\ Idle.op \notin DataOps /\ Idle.alone = FALSE
    BY DEF Idle, Request, DataOps
  <1> HIDE DEF Idle
  <1>2. QED BY <1>1, OtherKeeps DEF Return

LEMMA ArriveDataKeeps ==
  ASSUME CallsTyped, CacheKnown, NEW c \in Slots,
         ArriveSync(c) \/ ArriveAdd(c) \/ ArriveDelete(c)
  PROVE  CallsTyped' /\ CacheKnown'
  <1>1. Return(c) /\ UNCHANGED <<pool, events>> /\ calls[c].answer # Absent
    BY DEF ArriveSync, ArriveAdd, ArriveDelete, Answered
  <1>2. c \in Data
    BY DEF ArriveSync, ArriveAdd, ArriveDelete, Answered, Data, DataOps
  <1>3. exact /\ Carried = {} => instances = pool
    BY DEF CacheKnown
  <1>4. calls[c].alone => Data = {c}
    BY <1>2 DEF CacheKnown, Alone
  <1>5. exact' /\ Carried \ {c} = {} => instances' = pool'
    <2>1. CASE ArriveSync(c)
      <3>1. c \notin Carried
        BY <2>1 DEF ArriveSync, Answered, Carried
      <3>2. CASE calls[c].answer = Failed
        BY <1>1, <1>3, <2>1, <3>1, <3>2 DEF ArriveSync
      <3>3. CASE calls[c].answer # Failed
        <4>1. instances' = calls[c].answer /\ exact' = calls[c].alone
          BY <2>1, <3>3 DEF ArriveSync
        <4>2. calls[c].alone => calls[c].answer = pool
          BY <1>1, <1>2, <2>1, <3>3 DEF ArriveSync, Answered, CacheKnown, Alone
        <4>3. QED BY <1>1, <4>1, <4>2
      <3>4. QED BY <3>2, <3>3
    <2>2. CASE ArriveAdd(c) \/ ArriveDelete(c)
      <3>1. CASE calls[c].answer = Failed
        <4>1. c \notin Carried /\ UNCHANGED <<instances, exact>>
          BY <2>2, <3>1 DEF ArriveAdd, ArriveDelete, Carried
        <4>2. QED BY <1>1, <1>3, <4>1
      <3>2. CASE calls[c].answer # Failed
        <4>1. /\ exact' = (exact /\ calls[c].alone)
              /\ instances' = IF calls[c].op = "add" THEN Append(instances, calls[c].answer)
                                                     ELSE Without(instances, calls[c].arg)
          BY <2>2, <3>2 DEF ArriveAdd, ArriveDelete, Answered
        <4>2. c \in Carried
          BY <1>1, <1>2, <2>2, <3>2 DEF ArriveAdd, ArriveDelete, Answered, Carried
        <4>3. QED BY <1>1, <4>1, <4>2 DEF CacheKnown
      <3>3. QED BY <3>1, <3>2
    <2>3. QED BY <2>1, <2>2
  <1>6. QED BY <1>1, <1>2, <1>5, ReturnKeeps

(* The site is removed or an instance goes: no call is alone any more. *)
LEMMA DisturbKeeps ==
  ASSUME CallsTyped, CacheKnown, calls' = Disturbed, exact' = FALSE, events' \in 0..MaxEvents
  PROVE  CallsTyped' /\ CacheKnown'
  <1>1. /\ DOMAIN calls' = Slots
        /\ \A d \in Slots : /\ DOMAIN calls'[d] = DOMAIN calls[d]
                            /\ calls'[d].op = calls[d].op /\ calls'[d].arg = calls[d].arg
                            /\ calls'[d].alone \in BOOLEAN
                            /\ d \in Data => ~calls'[d].alone
    BY DisturbedFields DEF Disturbed, CallsTyped
  <1>2. CallsTyped'
    BY <1>1 DEF CallsTyped
  <1>3. Data' = Data
    BY <1>1 DEF Data
  <1>4. \A d \in Slots : ~Alone(d)'
    BY <1>1, <1>3 DEF Alone
  <1>5. QED BY <1>2, <1>4 DEF CacheKnown

LEMMA PageKeeps ==
  ASSUME CallsTyped, CacheKnown, Page \/ Fire
  PROVE  CallsTyped' /\ CacheKnown'
  <1>1. UNCHANGED <<pool, instances, exact>>
    BY DEF Page, Connect, Sync, Add, Delete, Fire, client
  <1>2. events' \in 0..MaxEvents
    BY ClientAssumption DEF Page, Connect, Sync, Add, Delete, Fire, CallsTyped
  <1>3. CASE Connect
    BY <1>1, <1>2, <1>3, BeginKeeps DEF Connect
  <1>4. CASE Sync
    BY <1>1, <1>2, <1>4, BeginKeeps DEF Sync
  <1>5. ASSUME NEW m \in Remotes, Add(m) PROVE CallsTyped' /\ CacheKnown'
    BY <1>1, <1>2, <1>5, BeginKeeps DEF Add
  <1>6. ASSUME NEW i, Delete(i) PROVE CallsTyped' /\ CacheKnown'
    BY <1>1, <1>2, <1>6, BeginKeeps DEF Delete
  <1>7. CASE Fire
    BY <1>1, <1>2, <1>7, BeginKeeps DEF Fire
  <1>8. QED BY <1>3, <1>4, <1>5, <1>6, <1>7 DEF Page

LEMMA ServeKeeps ==
  ASSUME CallsTyped, CacheKnown, NEW c \in Slots, Serve(c)
  PROVE  CallsTyped' /\ CacheKnown'
  <1>1. CASE ServeVersion(c) \/ ServeCheck(c) \/ ServeRequest(c)
    <2>1. PICK a : Reply(c, a)
      BY <1>1 DEF ServeVersion, ServeCheck, ServeRequest
    <2>2. c \notin Data /\ UNCHANGED <<pool, instances, exact, events>>
      BY <1>1 DEF ServeVersion, ServeCheck, ServeRequest, Pending, Data, DataOps, client
    <2> DEFINE r == [calls[c] EXCEPT !.answer = a]
    <2>3. /\ DOMAIN r = {"op", "via", "arg", "answer", "alone", "tries"}
          /\ r.alone \in BOOLEAN /\ r.op = calls[c].op
      BY DEF CallsTyped
    <2>4. calls' = [calls EXCEPT ![c] = r] /\ r.op \notin DataOps
      BY <2>1, <2>2, <2>3 DEF Reply, Data
    <2> HIDE DEF r
    <2>5. QED BY <2>2, <2>3, <2>4, OtherKeeps
  <1>2. CASE ServeRefused(c)
    <2>1. c \in Data /\ calls[c].answer = Absent /\ Reply(c, Failed)
          /\ UNCHANGED <<pool, instances, exact, events>>
      BY <1>2 DEF ServeRefused, Pending, Data, client
    <2>2. QED BY <2>1, RefusedKeeps
  <1>3. CASE ServeSync(c)
    <2>1. c \in Data /\ calls[c].op = "sync" /\ Reply(c, pool)
          /\ UNCHANGED <<pool, instances, exact, events>>
      BY <1>3 DEF ServeSync, Pending, Data, DataOps, client
    <2>2. QED BY <2>1, RefusedKeeps
  <1>4. QED BY <1>1, <1>2, <1>3, ServeAddKeeps, ServeDeleteKeeps DEF Serve

LEMMA ArriveKeeps ==
  ASSUME CallsTyped, CacheKnown, NEW c \in Slots, Arrive(c)
  PROVE  CallsTyped' /\ CacheKnown'
  <1>1. CASE ArriveVersion(c) \/ ArrivePoll(c) \/ ArriveCheck(c) \/ ArriveRequest(c)
    <2>1. c \notin Data /\ UNCHANGED <<pool, instances, exact, events>>
      BY <1>1 DEF ArriveVersion, ArrivePoll, ArriveCheck, ArriveRequest, Answered, Data, DataOps,
                  client
    <2>2. \/ Return(c)
          \/ \E op \in {"check", "sync", "request"} : \E via : Send(c, op, via, Absent)
      BY <1>1 DEF ArriveVersion, ArrivePoll, ArriveCheck, ArriveRequest
    <2>3. events \in 0..MaxEvents
      BY DEF CallsTyped
    <2>4. CASE Return(c)
      BY <2>1, <2>4, QuietReturn
    <2>5. ASSUME NEW op \in {"check", "sync", "request"}, NEW via, Send(c, op, via, Absent)
          PROVE  CallsTyped' /\ CacheKnown'
      BY <2>1, <2>3, <2>5, SendKeeps
    <2>6. QED BY <2>2, <2>4, <2>5
  <1>2. QED BY <1>1, ArriveDataKeeps DEF Arrive

LEMMA CacheNext == CallsTyped /\ CacheKnown /\ [ClientNext]_clientVars => CallsTyped' /\ CacheKnown'
  <1> SUFFICES ASSUME CallsTyped, CacheKnown, [ClientNext]_clientVars
               PROVE  CallsTyped' /\ CacheKnown'
    OBVIOUS
  <1>1. CASE UNCHANGED clientVars
    BY <1>1 DEF clientVars, CallsTyped, CacheKnown, Carried, Alone, Data
  <1>2. CASE UserAllows
    <2>1. events' \in 0..MaxEvents
      BY <1>2, ClientAssumption DEF UserAllows, CallsTyped
    <2>2. UNCHANGED <<pool, instances, exact, calls>>
      BY <1>2 DEF UserAllows, client
    <2>3. QED BY <2>1, <2>2 DEF CallsTyped, CacheKnown, Carried, Alone, Data
  <1>3. ASSUME UserRemoves \/ \E i \in Range(pool) : InstanceGoes(i)
        PROVE  CallsTyped' /\ CacheKnown'
    <2>1. events' \in 0..MaxEvents /\ calls' = Disturbed /\ exact' = FALSE
      BY <1>3, ClientAssumption DEF UserRemoves, InstanceGoes, CallsTyped
    <2>2. QED BY <2>1, DisturbKeeps
  <1>4. QED BY <1>1, <1>2, <1>3, PageKeeps, ServeKeeps, ArriveKeeps, LoseKeeps DEF ClientNext

-----------------------------------------------------------------------------
(* Who still polls. *)
(* What a call that is sent leaves of the polls. *)
LEMMA SendPolls ==
  ASSUME CallsTyped, NEW c \in Slots \ Data, NEW op, NEW via, NEW arg, Send(c, op, via, arg),
         op # "check" \/ via # "poll"
  PROVE  Polls' = Polls \ {c}
  <1>1. calls'[c].op = op /\ calls'[c].via = via
    <2>1. calls'[c] = Request(op, via, arg, Data = {})
      BY SendFrame
    <2>2. QED BY <2>1, RequestFields
  <1>2. \A d \in Slots \ {c} : calls'[d].op = calls[d].op /\ calls'[d].via = calls[d].via
    <2>1. SUFFICES ASSUME NEW d \in Slots \ {c}
                   PROVE  calls'[d].op = calls[d].op /\ calls'[d].via = calls[d].via
      OBVIOUS
    <2>2. calls'[d] = IF op \in DataOps /\ d \in Data
                      THEN [calls[d] EXCEPT !.alone = FALSE] ELSE calls[d]
      BY SendFrame
    <2>3. QED BY <2>2, DisturbedFields
  <1>3. QED BY <1>1, <1>2 DEF Polls

LEMMA PollsKept ==
  ASSUME CallsTyped, NoPollLeft,
         \/ Page \/ Fire \/ UserAllows \/ UserRemoves \/ UNCHANGED clientVars
         \/ \E i \in Range(pool) : InstanceGoes(i)
         \/ \E c \in Slots : Serve(c) \/ Lose(c)
  PROVE  NoPollLeft'
  <1>1. UNCHANGED <<state, ticking, crossed>>
    BY DEF Page, Connect, Sync, Add, Delete, Fire, UserAllows, UserRemoves, InstanceGoes, clientVars,
           Lose, Serve, ServeVersion, ServeCheck, ServeRequest, ServeRefused, ServeSync, ServeAdd,
           ServeDelete, client
  <1>2. CASE Fire
    BY <1>1, <1>2 DEF Fire, NoPollLeft
  <1>3. CASE Page
    <2>1. PICK op \in {"version", "sync", "add", "delete"} : \E via, arg : Begin(op, via, arg)
      BY <1>3 DEF Page, Connect, Sync, Add, Delete
    <2>2. PICK via, arg : \E c \in Slots \ Busy : Send(c, op, via, arg)
      BY <2>1 DEF Begin
    <2>3. PICK c \in Slots \ Busy : Send(c, op, via, arg)
      BY <2>2
    <2>4. c \in Slots \ Data
      BY <2>3 DEF Busy, Data, DataOps
    <2>5. Polls' \subseteq Polls
      BY <2>1, <2>3, <2>4, SendPolls
    <2>6. QED BY <1>1, <2>5 DEF NoPollLeft
  <1>4. ASSUME NEW c \in Slots, Serve(c) \/ Lose(c) PROVE NoPollLeft'
    <2>1. \/ \E a : Reply(c, a)
          \/ calls' = [calls EXCEPT ![c].answer = Absent, ![c].tries = @ - 1]
      BY <1>4 DEF Serve, ServeVersion, ServeCheck, ServeRequest, ServeRefused, ServeSync, ServeAdd,
                  ServeDelete, Lose
    <2>2. \A d \in Slots : calls'[d].op = calls[d].op /\ calls'[d].via = calls[d].via
      BY <2>1 DEF Reply, CallsTyped
    <2>3. QED BY <1>1, <2>2 DEF NoPollLeft, Polls
  <1>5. ASSUME UserRemoves \/ \E i \in Range(pool) : InstanceGoes(i) PROVE NoPollLeft'
    <2>1. calls' = Disturbed
      BY <1>5 DEF UserRemoves, InstanceGoes
    <2>2. \A d \in Slots : calls'[d].op = calls[d].op /\ calls'[d].via = calls[d].via
      BY <2>1, DisturbedFields DEF Disturbed
    <2>3. QED BY <1>1, <2>2 DEF NoPollLeft, Polls
  <1>6. CASE UserAllows \/ UNCHANGED clientVars
    BY <1>1, <1>6 DEF UserAllows, clientVars, NoPollLeft, Polls
  <1>7. QED BY <1>2, <1>3, <1>4, <1>5, <1>6

LEMMA PollsAfter ==
  ASSUME CallsTyped, NoPollLeft, NEW c \in Slots, Arrive(c)
  PROVE  NoPollLeft'
  <1>1. ASSUME Return(c) \/ \E op, via, arg : c \notin Data /\ via # "poll" /\ Send(c, op, via, arg)
        PROVE  Polls' = Polls \ {c}
    <2>1. CASE Return(c)
      <3>1. Idle.op = "none"
        BY DEF Idle, Request
      <3>2. calls'[c] = Idle /\ \A d \in Slots \ {c} : calls'[d] = calls[d]
        BY <2>1 DEF Return, CallsTyped
      <3>3. QED BY <3>1, <3>2 DEF Polls
    <2>2. ASSUME NEW op, NEW via, NEW arg, c \notin Data, via # "poll", Send(c, op, via, arg)
          PROVE  Polls' = Polls \ {c}
      BY <2>2, SendPolls
    <2>3. QED BY <1>1, <2>1, <2>2
  <1>2. CASE ArriveVersion(c) \/ ArriveSync(c) \/ ArriveAdd(c) \/ ArriveDelete(c)
    <2>1. UNCHANGED <<state, ticking, crossed>>
      BY <1>2 DEF ArriveVersion, ArriveSync, ArriveAdd, ArriveDelete, client
    <2>2. Return(c) \/ (c \notin Data /\ Send(c, "check", "connect", Absent))
      BY <1>2 DEF ArriveVersion, ArriveSync, ArriveAdd, ArriveDelete, Answered, Data, DataOps
    <2>3. QED BY <1>1, <2>1, <2>2 DEF NoPollLeft
  <1>3. CASE ArriveRequest(c)
    <2>1. UNCHANGED <<ticking, crossed>> /\ (state' = "invalid" \/ state' = state)
      BY <1>3 DEF ArriveRequest
    <2>2. Return(c) \/ (c \notin Data /\ Send(c, "check", "request", Absent))
      BY <1>3 DEF ArriveRequest, Answered, Data, DataOps
    <2>3. QED BY <1>1, <2>1, <2>2 DEF NoPollLeft
  <1>4. CASE ArriveCheck(c)
    <2>1. CASE state' = "invalid" /\ calls[c].via = "connect"
      <3>1. UNCHANGED <<ticking, crossed>> /\ c \notin Data /\ Send(c, "request", "connect", Absent)
        BY <1>4, <2>1 DEF ArriveCheck, Answered, Data, DataOps
      <3>2. QED BY <1>1, <2>1, <3>1 DEF NoPollLeft
    <2>2. CASE ~(state' = "invalid" /\ calls[c].via = "connect")
      BY <1>4, <2>2 DEF ArriveCheck, NoPollLeft
    <2>3. QED BY <2>1, <2>2
  <1>5. CASE ArrivePoll(c)
    <2>1. /\ ticking' = (ticking /\ state' # "invalid")
          /\ crossed' = (crossed \/ (state' = "invalid" /\ Polls # {c}))
          /\ c \in Polls
      BY <1>5 DEF ArrivePoll, Answered, Polls
    <2>2. CASE state' = "invalid"
      <3>1. Return(c)
        BY <1>5, <2>2 DEF ArrivePoll
      <3>2. QED BY <1>1, <2>1, <2>2, <3>1 DEF NoPollLeft
    <2>3. CASE state' # "invalid"
      BY <2>1, <2>3 DEF NoPollLeft
    <2>4. QED BY <2>2, <2>3
  <1>6. QED BY <1>2, <1>3, <1>4, <1>5 DEF Arrive

LEMMA ClientInitial == ClientInit => ClientInv
  <1> SUFFICES ASSUME ClientInit PROVE ClientInv
    OBVIOUS
  <1>1. /\ DOMAIN Idle = {"op", "via", "arg", "answer", "alone", "tries"}
        /\ Idle.op = "none" /\ Idle.alone = FALSE
    BY DEF Idle, Request
  <1>2. DOMAIN calls = Slots /\ \A c \in Slots : calls[c] = Idle
    BY DEF ClientInit
  <1>3. Data = {} /\ Polls = {}
    BY <1>1, <1>2 DEF Data, Polls, DataOps
  <1>4. CallsTyped
    <2>1. events \in 0..MaxEvents
      BY ClientAssumption DEF ClientInit
    <2>2. \A c \in Slots : /\ DOMAIN calls[c] = {"op", "via", "arg", "answer", "alone", "tries"}
                          /\ calls[c].alone \in BOOLEAN
                          /\ calls[c].op # "add"
      BY <1>1, <1>2
    <2>3. QED BY <1>2, <2>1, <2>2 DEF CallsTyped
  <1>5. CacheKnown
    BY <1>3 DEF CacheKnown, Alone, Carried, ClientInit
  <1>6. NoPollLeft
    BY <1>3 DEF NoPollLeft, ClientInit
  <1>7. QED BY <1>4, <1>5, <1>6 DEF ClientInv

LEMMA ClientInvariance == ClientSpec => []ClientInv
  <1>1. ClientInv /\ [ClientNext]_clientVars => ClientInv'
    <2> SUFFICES ASSUME ClientInv, [ClientNext]_clientVars PROVE ClientInv'
      OBVIOUS
    <2>1. CallsTyped' /\ CacheKnown'
      BY CacheNext DEF ClientInv
    <2>2. NoPollLeft'
      BY PollsKept, PollsAfter DEF ClientInv, ClientNext
    <2>3. QED BY <2>1, <2>2 DEF ClientInv
  <1>2. QED BY <1>1, ClientInitial, PTL DEF ClientSpec

(* However calls overlap, retry and get lost: a cache that met nothing else  *)
(* since its last sync is the application's list, for any number of calls,   *)
(* remotes and retries (index.ts:117-136, 249-311).                          *)
THEOREM CacheIsExact == ClientSpec => []CacheExact
  <1>1. ClientInv => CacheExact
    BY DEF ClientInv, CacheKnown, CacheExact, Carried
  <1>2. QED BY <1>1, ClientInvariance, PTL

(* A client that is not invalid is polled, or its last poll was overtaken    *)
(* (index.ts:89-105, 146-178).                                               *)
THEOREM ClientIsPolled == ClientSpec => []PolledUnlessCrossed
  <1>1. ClientInv => PolledUnlessCrossed
    BY DEF ClientInv, NoPollLeft, PolledUnlessCrossed
  <1>2. QED BY <1>1, ClientInvariance, PTL
=============================================================================
