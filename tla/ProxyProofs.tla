---------------------------- MODULE ProxyProofs ----------------------------
(***************************************************************************)
(* Theorems about Proxy, for any number of messages in each direction.     *)
(***************************************************************************)
EXTENDS Proxy, SequenceTheorems, TLAPS

(* Payload m, sent after s: one message more, or nothing. *)
LEMMA PayloadAppended ==
  ASSUME NEW s \in Seq(Messages), NEW m \in Messages
  PROVE  /\ s \o Payload(m) \in Seq(Messages)
         /\ s \o Payload(m) = s \/ s \o Payload(m) = Append(s, m)
  <1>1. CASE IsPayload(m)
    <2>1. Payload(m) = <<m>>
      BY <1>1 DEF Payload
    <2>2. s \o <<m>> = Append(s, m)
      OBVIOUS
    <2>3. QED BY <2>1, <2>2
  <1>2. CASE ~IsPayload(m)
    BY <1>2, ConcatEmptySeq DEF Payload
  <1>3. QED BY <1>1, <1>2

(* A message in sink.send is a message. *)
LEMMA HeldIsMessage ==
  ASSUME ProxyTypeOK, NEW d \in Sides, held[d] # <<>>
  PROVE  held[d] = <<held[d][1]>> /\ held[d][1] \in Messages
  <1>1. PICK m \in Messages : held[d] = <<m>>
    BY DEF ProxyTypeOK
  <1>2. QED BY <1>1

(* What the counters saw and what was delivered. *)
CountInv == ProxyTypeOK /\ InFlight /\ CountedIsDelivered

LEMMA CountInit == ProxyInit => CountInv
  <1> SUFFICES ASSUME ProxyInit PROVE CountInv
    OBVIOUS
  <1>1. ProxyTypeOK
    <2>1. <<>> \in Seq(Messages)
      BY EmptySeq
    <2>2. /\ sent \in [Sides -> Seq(Messages)]
          /\ counted \in [Sides -> Seq(Messages)]
          /\ delivered \in [Sides -> Seq(Messages)]
      BY <2>1 DEF ProxyInit, Both
    <2>3. taken \in [Sides -> Nat] /\ held \in [Sides -> {<<>>} \cup {<<m>> : m \in Messages}]
      BY DEF ProxyInit, Both
    <2>4. /\ source \in [Sides -> {"open", "eof", "failed"}]
          /\ sink \in [Sides -> {"up", "broken"}]
          /\ token \in BOOLEAN /\ outcome \in {"running", "ok", "error"}
      BY DEF ProxyInit, Both
    <2>5. QED BY <2>2, <2>3, <2>4 DEF ProxyTypeOK
  <1>2. InFlight /\ CountedIsDelivered
    BY DEF ProxyInit, InFlight, CountedIsDelivered, Both, Running
  <1>3. QED BY <1>1, <1>2 DEF CountInv

(* The locals of the forwarders are dropped: the count stays what it was. *)
LEMMA FinishKeeps ==
  ASSUME CountInv, NEW how \in {"ok", "error"}, Finish(how), Running
  PROVE  CountInv'
  <1>1. ProxyTypeOK'
    BY DEF CountInv, ProxyTypeOK, Finish, Both, ends
  <1>2. CountedIsDelivered'
    BY DEF CountInv, CountedIsDelivered, Finish
  <1>3. InFlight'
    BY DEF InFlight, Finish, Running, Both
  <1>4. QED BY <1>1, <1>2, <1>3 DEF CountInv

LEMMA TakeKeeps ==
  ASSUME CountInv, NEW d \in Sides, Take(d)
  PROVE  CountInv'
  <1> DEFINE m == sent[d][taken[d] + 1]
  <1>1. ProxyTypeOK
    BY DEF CountInv
  <1>2. m \in Messages
    BY <1>1, ElementOfSeq DEF ProxyTypeOK, Take
  <1>3. counted[d] \in Seq(Messages) /\ counted[d] = delivered[d]
    BY <1>1 DEF CountInv, ProxyTypeOK, InFlight, Take
  <1>4. /\ counted[d] \o Payload(m) \in Seq(Messages)
        /\ counted[d] \o Payload(m) = counted[d] \/ counted[d] \o Payload(m) = Append(counted[d], m)
    BY <1>2, <1>3, PayloadAppended
  <1>5. /\ held' = [held EXCEPT ![d] = <<m>>]
        /\ counted' = [counted EXCEPT ![d] = counted[d] \o Payload(m)]
        /\ taken' = [taken EXCEPT ![d] = taken[d] + 1]
        /\ UNCHANGED <<sent, delivered, source, sink, token, outcome>>
    BY DEF Take, ends
  <1> HIDE DEF m
  <1>6. ProxyTypeOK'
    BY <1>1, <1>2, <1>4, <1>5 DEF ProxyTypeOK
  <1>7. InFlight'
    <2> SUFFICES ASSUME NEW e \in Sides
                 PROVE  /\ Running' /\ held'[e] = <<>> => counted'[e] = delivered'[e]
                        /\ held'[e] # <<>> => counted'[e] = delivered'[e] \o Payload(held'[e][1])
      BY DEF InFlight, Payload, IsPayload
    <2>1. CASE e = d
      BY <1>1, <1>3, <1>5, <2>1 DEF ProxyTypeOK
    <2>2. CASE e # d
      BY <1>1, <1>5, <2>2 DEF ProxyTypeOK, CountInv, InFlight, Running
    <2>3. QED BY <2>1, <2>2
  <1>8. CountedIsDelivered'
    <2> SUFFICES ASSUME NEW e \in Sides
                 PROVE  \/ counted'[e] = delivered'[e]
                        \/ \E n \in Messages : counted'[e] = Append(delivered'[e], n)
      BY DEF CountedIsDelivered
    <2>1. CASE e = d
      BY <1>1, <1>2, <1>3, <1>4, <1>5, <2>1 DEF ProxyTypeOK
    <2>2. CASE e # d
      BY <1>1, <1>5, <2>2 DEF ProxyTypeOK, CountInv, CountedIsDelivered
    <2>3. QED BY <2>1, <2>2
  <1>9. QED BY <1>6, <1>7, <1>8 DEF CountInv

LEMMA SendKeeps ==
  ASSUME CountInv, NEW d \in Sides, Send(d)
  PROVE  CountInv'
  <1> DEFINE m == held[d][1]
  <1>1. ProxyTypeOK
    BY DEF CountInv
  <1>2. m \in Messages
    BY <1>1, HeldIsMessage DEF Send
  <1>3. counted[d] = delivered[d] \o Payload(m)
    BY DEF CountInv, InFlight, Send
  <1>4. /\ delivered' = [delivered EXCEPT ![d] = delivered[d] \o Payload(m)]
        /\ held' = [held EXCEPT ![d] = <<>>]
        /\ UNCHANGED <<sent, taken, counted, source, sink, token, outcome>>
    BY DEF Send, ends
  <1>5. delivered[d] \o Payload(m) \in Seq(Messages)
    BY <1>1, <1>2, PayloadAppended DEF ProxyTypeOK
  <1> HIDE DEF m
  <1>6. ProxyTypeOK'
    BY <1>1, <1>4, <1>5 DEF ProxyTypeOK
  <1>7. counted'[d] = delivered'[d]
    BY <1>1, <1>3, <1>4 DEF ProxyTypeOK
  <1>8. InFlight' /\ CountedIsDelivered'
    <2> SUFFICES ASSUME NEW e \in Sides
                 PROVE  /\ Running' /\ held'[e] = <<>> => counted'[e] = delivered'[e]
                        /\ held'[e] # <<>> => counted'[e] = delivered'[e] \o Payload(held'[e][1])
                        /\ \/ counted'[e] = delivered'[e]
                           \/ \E n \in Messages : counted'[e] = Append(delivered'[e], n)
      BY DEF InFlight, CountedIsDelivered, Payload, IsPayload
    <2>1. CASE e = d
      BY <1>1, <1>4, <1>7, <2>1 DEF ProxyTypeOK
    <2>2. CASE e # d
      BY <1>1, <1>4, <2>2 DEF ProxyTypeOK, CountInv, InFlight, CountedIsDelivered, Running
    <2>3. QED BY <2>1, <2>2
  <1>9. QED BY <1>6, <1>8 DEF CountInv

LEMMA ForwardKeeps ==
  ASSUME CountInv, NEW d \in Sides, Forward(d)
  PROVE  CountInv'
  <1>1. CASE Take(d)
    BY <1>1, TakeKeeps
  <1>2. CASE Send(d)
    BY <1>2, SendKeeps
  <1>3. CASE SendFails(d)
    BY <1>3, FinishKeeps DEF SendFails
  <1>4. CASE StreamEnds(d)
    BY <1>4, FinishKeeps DEF StreamEnds
  <1>5. QED BY <1>1, <1>2, <1>3, <1>4 DEF Forward

(* The peers and the canceller touch nothing the invariant relates. *)
LEMMA PeersKeep ==
  ASSUME CountInv, NEW d \in Sides, Produce(d) \/ SourceEnds(d) \/ SinkBreaks(d) \/ Cancel
  PROVE  CountInv'
  <1>1. UNCHANGED <<taken, held, counted, delivered, outcome>>
    BY DEF Produce, SourceEnds, SinkBreaks, Cancel, flow, ends
  <1>2. InFlight' /\ CountedIsDelivered'
    BY <1>1 DEF CountInv, InFlight, CountedIsDelivered, Running, Payload, IsPayload
  <1>3. ProxyTypeOK'
    <2>1. CASE Produce(d)
      <3>1. PICK k \in KindsOf(d) :
              sent' = [sent EXCEPT ![d] = Append(@, [id |-> Len(@) + 1, kind |-> k])]
        BY <2>1 DEF Produce
      <3>2. k \in {"binary", "text", "control"}
        BY DEF KindsOf
      <3>3. Len(sent[d]) \in Nat /\ sent[d] \in Seq(Messages)
        BY LenProperties DEF CountInv, ProxyTypeOK
      <3>4. [id |-> Len(sent[d]) + 1, kind |-> k] \in Messages
        BY <2>1, <3>2, <3>3, BoundAssumption DEF Messages, Produce
      <3>5. Append(sent[d], [id |-> Len(sent[d]) + 1, kind |-> k]) \in Seq(Messages)
        BY <3>3, <3>4
      <3>6. sent' \in [Sides -> Seq(Messages)]
        BY <3>1, <3>5 DEF CountInv, ProxyTypeOK
      <3>7. QED BY <2>1, <3>6, <1>1 DEF CountInv, ProxyTypeOK, Produce, ends
    <2>2. CASE SourceEnds(d)
      BY <2>2, <1>1 DEF CountInv, ProxyTypeOK, SourceEnds, flow
    <2>3. CASE SinkBreaks(d)
      BY <2>3, <1>1 DEF CountInv, ProxyTypeOK, SinkBreaks, flow
    <2>4. CASE Cancel
      BY <2>4, <1>1 DEF CountInv, ProxyTypeOK, Cancel, flow
    <2>5. QED BY <2>1, <2>2, <2>3, <2>4
  <1>4. QED BY <1>2, <1>3 DEF CountInv

LEMMA CountNext == CountInv /\ [ProxyNext]_proxyVars => CountInv'
  <1> SUFFICES ASSUME CountInv, [ProxyNext]_proxyVars PROVE CountInv'
    OBVIOUS
  <1>1. ASSUME NEW d \in Sides, Forward(d) PROVE CountInv'
    BY <1>1, ForwardKeeps
  <1>2. ASSUME NEW d \in Sides, Produce(d) \/ SourceEnds(d) \/ SinkBreaks(d) PROVE CountInv'
    BY <1>2, PeersKeep
  <1>3. CASE Cancelled
    BY <1>3, FinishKeeps DEF Cancelled
  <1>4. CASE Cancel
    <2>1. "client" \in Sides
      BY DEF Sides
    <2>2. QED BY <1>4, <2>1, PeersKeep
  <1>5. CASE UNCHANGED proxyVars
    BY <1>5 DEF CountInv, ProxyTypeOK, InFlight, CountedIsDelivered, Running, Payload, IsPayload,
                proxyVars, flow, ends
  <1>6. QED BY <1>1, <1>2, <1>3, <1>4, <1>5 DEF ProxyNext

-----------------------------------------------------------------------------
(* The order of what is delivered. *)
OrderInv == Numbered /\ HeldIsLast /\ PayloadsDelivered

(* One more message of the source is one more payload, or none. *)
LEMMA UpToNext ==
  ASSUME NEW s, NEW n \in Nat
  PROVE  PayloadsUpTo(s, n + 1) =
           PayloadsUpTo(s, n) \cup (IF IsPayload(s[n + 1]) THEN {s[n + 1]} ELSE {})
  <1>1. 1..(n + 1) = (1..n) \cup {n + 1}
    OBVIOUS
  <1>2. QED BY <1>1 DEF PayloadsUpTo, IsPayload

(* A new message of the source changes none of the earlier ones. *)
LEMMA UpToKept ==
  ASSUME NEW s \in Seq(Messages), NEW m \in Messages, NEW n \in 0..Len(s)
  PROVE  PayloadsUpTo(Append(s, m), n) = PayloadsUpTo(s, n)
  <1> DEFINE t == Append(s, m)
  <1>1. Len(s) \in Nat /\ \A i \in 1..Len(s) : t[i] = s[i]
    BY AppendProperties, LenProperties
  <1> HIDE DEF t
  <1>2. \A i \in 1..n : t[i] = s[i]
    BY <1>1
  <1>3. PayloadsUpTo(t, n) = PayloadsUpTo(s, n)
    BY <1>2 DEF PayloadsUpTo, IsPayload
  <1>4. QED BY <1>3 DEF t

(* What the peer has after one more message. *)
LEMMA AppendReceived ==
  ASSUME NEW s \in Seq(Messages), NEW m \in Messages
  PROVE  /\ MessagesOf(Append(s, m)) = MessagesOf(s) \cup {m}
         /\ Ascending(s) /\ (\A i \in 1..Len(s) : s[i].id < m.id) => Ascending(Append(s, m))
  <1> DEFINE t == Append(s, m)
  <1>1. /\ Len(s) \in Nat /\ Len(t) = Len(s) + 1
        /\ \A i \in 1..Len(s) : t[i] = s[i]
        /\ t[Len(s) + 1] = m
    BY AppendProperties, LenProperties
  <1> HIDE DEF t
  <1>2. 1..Len(t) = (1..Len(s)) \cup {Len(s) + 1}
    BY <1>1
  <1>3. MessagesOf(t) = MessagesOf(s) \cup {m}
    BY <1>1, <1>2 DEF MessagesOf
  <1>4. ASSUME Ascending(s), \A i \in 1..Len(s) : s[i].id < m.id
        PROVE  Ascending(t)
    <2>1. SUFFICES ASSUME NEW i \in 1..Len(t), NEW k \in 1..Len(t), i < k
                   PROVE  t[i].id < t[k].id
      BY DEF Ascending
    <2>2. i \in 1..Len(s) /\ (k \in 1..Len(s) \/ k = Len(s) + 1)
      BY <1>1, <2>1
    <2>3. QED BY <1>1, <1>4, <2>1, <2>2 DEF Ascending
  <1>5. QED BY <1>3, <1>4 DEF t

LEMMA OrderInit == ProxyInit => OrderInv
  <1> SUFFICES ASSUME ProxyInit PROVE OrderInv
    OBVIOUS
  <1>1. \A d \in Sides : /\ sent[d] = <<>> /\ delivered[d] = <<>>
                         /\ taken[d] = 0 /\ held[d] = <<>>
    BY DEF ProxyInit, Both
  <1>2. Len(<<>>) = 0
    BY EmptySeq
  <1>3. MessagesOf(<<>>) = {} /\ Ascending(<<>>) /\ PayloadsUpTo(<<>>, 0) = {}
    BY <1>2 DEF MessagesOf, Ascending, PayloadsUpTo
  <1>4. Numbered
    BY <1>1, <1>2 DEF Numbered
  <1>5. QED BY <1>1, <1>3, <1>4 DEF OrderInv, HeldIsLast, PayloadsDelivered

(* A step that moves no message, and ends the loop if it drops one. *)
LEMMA OrderKept ==
  ASSUME OrderInv, UNCHANGED <<sent, taken, delivered>>,
         \/ ~Running' /\ held' = Both(<<>>)
         \/ UNCHANGED <<held, outcome>>
  PROVE  OrderInv'
  <1>1. Numbered'
    BY DEF OrderInv, Numbered
  <1>2. PayloadsDelivered'
    BY DEF OrderInv, PayloadsDelivered
  <1>3. HeldIsLast'
    BY DEF OrderInv, HeldIsLast, Both, Running
  <1>4. QED BY <1>1, <1>2, <1>3 DEF OrderInv

LEMMA FinishOrder ==
  ASSUME OrderInv, NEW how \in {"ok", "error"}, Finish(how)
  PROVE  OrderInv'
  BY OrderKept DEF Finish, ends, Running

LEMMA TakeOrder ==
  ASSUME ProxyTypeOK, OrderInv, NEW d \in Sides, Take(d)
  PROVE  OrderInv'
  <1>1. /\ held' = [held EXCEPT ![d] = <<sent[d][taken[d] + 1]>>]
        /\ taken' = [taken EXCEPT ![d] = @ + 1]
        /\ taken[d] < Len(sent[d]) /\ Running /\ held[d] = <<>>
        /\ UNCHANGED <<sent, delivered, outcome>>
    BY DEF Take
  <1>2. /\ taken'[d] = taken[d] + 1 /\ held'[d] = <<sent[d][taken[d] + 1]>>
        /\ \A e \in Sides \ {d} : taken'[e] = taken[e] /\ held'[e] = held[e]
        /\ \A e \in Sides : taken[e] \in Nat /\ Len(sent[e]) \in Nat
    BY <1>1, LenProperties DEF ProxyTypeOK
  <1>3. Numbered'
    BY <1>1, <1>2 DEF OrderInv, Numbered
  <1>4. /\ MessagesOf(delivered[d]) = PayloadsUpTo(sent[d], taken[d])
        /\ taken'[d] > 0 /\ taken'[d] - 1 = taken[d]
        /\ held'[d][1] = sent[d][taken'[d]] /\ held'[d] # <<>>
    <2>1. MessagesOf(delivered[d]) = PayloadsUpTo(sent[d], taken[d])
      BY <1>1 DEF OrderInv, HeldIsLast
    <2>2. taken'[d] > 0 /\ taken'[d] - 1 = taken[d]
      BY <1>2
    <2>3. held'[d][1] = sent[d][taken'[d]] /\ held'[d] # <<>>
      BY <1>2
    <2>4. QED BY <2>1, <2>2, <2>3
  <1>5. HeldIsLast'
    BY <1>1, <1>2, <1>4 DEF OrderInv, HeldIsLast, Running
  <1>6. PayloadsDelivered'
    BY <1>1, <1>2, <1>4 DEF OrderInv, PayloadsDelivered
  <1>7. QED BY <1>3, <1>5, <1>6 DEF OrderInv

LEMMA SendOrder ==
  ASSUME ProxyTypeOK, OrderInv, NEW d \in Sides, Send(d)
  PROVE  OrderInv'
  <1> DEFINE m == held[d][1]
             got == delivered[d] \o Payload(m)
  <1>1. /\ delivered' = [delivered EXCEPT ![d] = got]
        /\ held' = [held EXCEPT ![d] = <<>>]
        /\ Running /\ held[d] # <<>>
        /\ UNCHANGED <<sent, taken, outcome>>
    BY DEF Send
  <1>2. m \in Messages /\ delivered[d] \in Seq(Messages) /\ taken[d] \in Nat /\ Len(sent[d]) \in Nat
    BY <1>1, HeldIsMessage, LenProperties DEF ProxyTypeOK
  <1>3. /\ taken[d] > 0 /\ taken[d] <= Len(sent[d]) /\ m = sent[d][taken[d]]
        /\ MessagesOf(delivered[d]) = PayloadsUpTo(sent[d], taken[d] - 1)
        /\ m.id = taken[d]
    BY <1>1, <1>2 DEF OrderInv, HeldIsLast, Numbered
  <1>4. \A i \in 1..Len(delivered[d]) : delivered[d][i].id < m.id
    <2>1. SUFFICES ASSUME NEW i \in 1..Len(delivered[d])
                   PROVE  delivered[d][i].id < m.id
      OBVIOUS
    <2>2. delivered[d][i] \in PayloadsUpTo(sent[d], taken[d] - 1)
      BY <1>3 DEF MessagesOf
    <2>3. PICK j \in 1..(taken[d] - 1) : delivered[d][i] = sent[d][j]
      BY <2>2 DEF PayloadsUpTo
    <2>4. j \in 1..Len(sent[d]) /\ j < taken[d]
      BY <1>2, <1>3
    <2>5. QED BY <1>3, <2>3, <2>4 DEF OrderInv, Numbered
  <1>5. PayloadsUpTo(sent[d], taken[d]) =
          MessagesOf(delivered[d]) \cup (IF IsPayload(m) THEN {m} ELSE {})
    <2>1. taken[d] - 1 \in Nat /\ (taken[d] - 1) + 1 = taken[d]
      BY <1>2, <1>3
    <2>2. QED BY <1>3, <2>1, UpToNext
  <1>6. Ascending(delivered[d])
    BY DEF OrderInv, PayloadsDelivered
  <1>7. MessagesOf(got) = PayloadsUpTo(sent[d], taken[d]) /\ Ascending(got)
    <2>1. CASE IsPayload(m)
      <3>1. got = Append(delivered[d], m)
        BY <1>2, <2>1, AppendIsConcat DEF Payload
      <3> HIDE DEF m, got
      <3>2. QED BY <1>2, <1>4, <1>5, <1>6, <2>1, <3>1, AppendReceived
    <2>2. CASE ~IsPayload(m)
      <3>1. got = delivered[d]
        BY <1>2, <2>2, ConcatEmptySeq DEF Payload
      <3> HIDE DEF m, got
      <3>2. QED BY <1>5, <1>6, <2>2, <3>1
    <2>3. QED BY <2>1, <2>2
  <1> HIDE DEF m, got
  <1>8. /\ delivered'[d] = got /\ held'[d] = <<>>
        /\ \A e \in Sides \ {d} : delivered'[e] = delivered[e] /\ held'[e] = held[e]
    BY <1>1 DEF ProxyTypeOK
  <1>9. Numbered'
    BY <1>1 DEF OrderInv, Numbered
  <1>10. HeldIsLast'
    BY <1>1, <1>7, <1>8 DEF OrderInv, HeldIsLast, Running
  <1>11. PayloadsDelivered'
    BY <1>1, <1>7, <1>8 DEF OrderInv, PayloadsDelivered
  <1>12. QED BY <1>9, <1>10, <1>11 DEF OrderInv

LEMMA ProduceOrder ==
  ASSUME ProxyTypeOK, OrderInv, NEW d \in Sides, Produce(d)
  PROVE  OrderInv'
  <1>1. PICK m \in Messages : /\ sent' = [sent EXCEPT ![d] = Append(@, m)]
                              /\ m.id = Len(sent[d]) + 1
    <2>1. PICK k \in KindsOf(d) :
            sent' = [sent EXCEPT ![d] = Append(@, [id |-> Len(@) + 1, kind |-> k])]
      BY DEF Produce
    <2>2. k \in {"binary", "text", "control"}
      BY DEF KindsOf
    <2>3. Len(sent[d]) \in Nat /\ sent[d] \in Seq(Messages) /\ Len(sent[d]) < MaxMessages
      BY LenProperties DEF ProxyTypeOK, Produce
    <2>4. [id |-> Len(sent[d]) + 1, kind |-> k] \in Messages
      BY <2>2, <2>3, BoundAssumption DEF Messages
    <2>5. QED BY <2>1, <2>4
  <1>2. UNCHANGED <<taken, held, delivered, outcome>>
    BY DEF Produce, ends
  <1>3. /\ sent'[d] = Append(sent[d], m) /\ \A e \in Sides \ {d} : sent'[e] = sent[e]
        /\ \A e \in Sides : /\ sent[e] \in Seq(Messages) /\ taken[e] \in 0..Len(sent[e])
                            /\ Len(sent[e]) \in Nat
    BY <1>1, LenProperties DEF ProxyTypeOK, OrderInv, Numbered
  <1>4. /\ Len(sent'[d]) = Len(sent[d]) + 1 /\ sent'[d][Len(sent[d]) + 1] = m
        /\ \A i \in 1..Len(sent[d]) : sent'[d][i] = sent[d][i]
    BY <1>3, AppendProperties
  <1>5. \A e \in Sides :
          /\ PayloadsUpTo(sent'[e], taken[e]) = PayloadsUpTo(sent[e], taken[e])
          /\ taken[e] > 0 =>
               /\ PayloadsUpTo(sent'[e], taken[e] - 1) = PayloadsUpTo(sent[e], taken[e] - 1)
               /\ sent'[e][taken[e]] = sent[e][taken[e]]
    <2>1. /\ PayloadsUpTo(sent'[d], taken[d]) = PayloadsUpTo(sent[d], taken[d])
          /\ taken[d] > 0 =>
               /\ PayloadsUpTo(sent'[d], taken[d] - 1) = PayloadsUpTo(sent[d], taken[d] - 1)
               /\ sent'[d][taken[d]] = sent[d][taken[d]]
      BY <1>3, <1>4, UpToKept
    <2>2. QED BY <1>3, <2>1
  <1>6. Numbered'
    <2>1. SUFFICES ASSUME NEW e \in Sides
                   PROVE  /\ taken[e] <= Len(sent'[e])
                          /\ \A i \in 1..Len(sent'[e]) : sent'[e][i].id = i
      BY <1>2 DEF Numbered
    <2>2. CASE e = d
      BY <1>1, <1>3, <1>4, <2>2 DEF OrderInv, Numbered
    <2>3. CASE e # d
      BY <1>3, <2>3 DEF OrderInv, Numbered
    <2>4. QED BY <2>2, <2>3
  <1>7. HeldIsLast'
    BY <1>2, <1>5 DEF OrderInv, HeldIsLast, Running
  <1>8. PayloadsDelivered'
    BY <1>2, <1>5 DEF OrderInv, PayloadsDelivered
  <1>9. QED BY <1>6, <1>7, <1>8 DEF OrderInv

LEMMA OrderNext == ProxyTypeOK /\ OrderInv /\ [ProxyNext]_proxyVars => OrderInv'
  <1> SUFFICES ASSUME ProxyTypeOK, OrderInv, [ProxyNext]_proxyVars PROVE OrderInv'
    OBVIOUS
  <1>1. ASSUME NEW d \in Sides, Forward(d) PROVE OrderInv'
    BY <1>1, TakeOrder, SendOrder, FinishOrder DEF Forward, SendFails, StreamEnds
  <1>2. ASSUME NEW d \in Sides, Produce(d) PROVE OrderInv'
    BY <1>2, ProduceOrder
  <1>3. CASE Cancelled
    BY <1>3, FinishOrder DEF Cancelled
  <1>4. ASSUME UNCHANGED <<flow, outcome>> PROVE OrderInv'
    BY <1>4, OrderKept DEF flow
  <1>5. QED BY <1>1, <1>2, <1>3, <1>4 DEF ProxyNext, SourceEnds, SinkBreaks, Cancel, proxyVars

-----------------------------------------------------------------------------
LEMMA Invariance == ProxySpec => []ProxyInv
  <1>1. ProxyInit => ProxyInv
    BY CountInit, OrderInit DEF ProxyInv, CountInv, OrderInv
  <1>2. ProxyInv /\ [ProxyNext]_proxyVars => ProxyInv'
    BY CountNext, OrderNext DEF ProxyInv, CountInv, OrderInv
  <1>3. QED BY <1>1, <1>2, PTL DEF ProxySpec

(* The state of the two forwarders is well typed (proxy.rs:288-345). *)
THEOREM TypeCorrect == ProxySpec => []ProxyTypeOK
  <1>1. ProxyInv => ProxyTypeOK
    BY DEF ProxyInv
  <1>2. QED BY <1>1, Invariance, PTL

(* The counters behind the audit record of a connection are within one       *)
(* message of what was delivered, for any number of messages and however the *)
(* connection ends (proxy.rs:334-344).                                       *)
THEOREM CountsAreDelivered == ProxySpec => []CountedIsDelivered
  <1>1. ProxyInv => CountedIsDelivered
    BY DEF ProxyInv
  <1>2. QED BY <1>1, Invariance, PTL

(* No binary message is lost and nothing is repeated or reordered in either  *)
(* direction, for any number of messages and however the connection ends     *)
(* (proxy.rs:334-344).                                                       *)
THEOREM DeliveriesAreInOrder == ProxySpec => []DeliveredInOrder
  <1>1. ASSUME ProxyTypeOK, Numbered, PayloadsDelivered PROVE DeliveredInOrder
    <2>1. SUFFICES ASSUME NEW d \in Sides
                   PROVE  /\ Ascending(delivered[d])
                          /\ MessagesOf(delivered[d]) \subseteq PayloadsUpTo(sent[d], taken[d])
                          /\ \/ BinaryUpTo(sent[d], taken[d]) \subseteq MessagesOf(delivered[d])
                             \/ /\ taken[d] > 0
                                /\ BinaryUpTo(sent[d], taken[d] - 1)
                                     \subseteq MessagesOf(delivered[d])
      BY DEF DeliveredInOrder
    <2>2. taken[d] \in Nat
      BY <1>1 DEF ProxyTypeOK
    <2>3. ASSUME NEW n \in Nat PROVE BinaryUpTo(sent[d], n) \subseteq PayloadsUpTo(sent[d], n)
      BY DEF BinaryUpTo, PayloadsUpTo, IsPayload
    <2>4. taken[d] > 0 => PayloadsUpTo(sent[d], taken[d] - 1) \subseteq PayloadsUpTo(sent[d], taken[d])
      BY <2>2 DEF PayloadsUpTo
    <2>5. CASE MessagesOf(delivered[d]) = PayloadsUpTo(sent[d], taken[d])
      BY <1>1, <2>2, <2>3, <2>5 DEF PayloadsDelivered
    <2>6. CASE taken[d] > 0 /\ MessagesOf(delivered[d]) = PayloadsUpTo(sent[d], taken[d] - 1)
      <3>1. BinaryUpTo(sent[d], taken[d] - 1) \subseteq PayloadsUpTo(sent[d], taken[d] - 1)
        BY <2>2, <2>3, <2>6
      <3>2. QED BY <1>1, <2>4, <2>6, <3>1 DEF PayloadsDelivered
    <2>7. QED BY <1>1, <2>5, <2>6 DEF PayloadsDelivered
  <1>2. ProxyInv => DeliveredInOrder
    BY <1>1 DEF ProxyInv
  <1>3. QED BY <1>2, Invariance, PTL
=============================================================================
