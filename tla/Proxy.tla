------------------------------- MODULE Proxy -------------------------------
(***************************************************************************)
(* The forwarding of one connection (proxy.rs): two forward_observed       *)
(* futures, one per direction, polled by one select! together with the     *)
(* cancellation token.  The first of the three that completes drops the    *)
(* other two, with whatever they hold.                                     *)
(*                                                                         *)
(* A direction is named by where its messages come from: "client" is the   *)
(* WebSocket, "target" the TCP stream behind MessageCodec.                 *)
(***************************************************************************)
EXTENDS Naturals, Sequences

CONSTANTS MaxMessages   \* bound on what a source sends in one direction

ASSUME BoundAssumption == MaxMessages \in Nat

Sides == {"client", "target"}

(* A WebSocket carries binary, text and control messages; the codec of the   *)
(* TCP side reads nothing but bytes.                                         *)
KindsOf(d) == IF d = "client" THEN {"binary", "text", "control"} ELSE {"binary"}

Messages == [id : 1 .. MaxMessages, kind : {"binary", "text", "control"}]

VARIABLES sent,       \* per direction: the messages its source has sent
          taken,      \* per direction: how many stream.next() has returned
          held,       \* per direction: the message in sink.send, or <<>>
          counted,    \* per direction: what the counter and observer have seen
          delivered,  \* per direction: what the sink has flushed
          source,     \* per direction: open, or how its stream ends
          sink,       \* per direction: "up" or "broken"
          token,      \* the CancellationToken was cancelled
          outcome     \* "running", or how proxy_stream_observed returned

ends == <<source, sink, token>>
flow      == <<sent, taken, held, counted, delivered>>
proxyVars == <<flow, ends, outcome>>

Both(value) == [d \in Sides |-> value]

ProxyInit == /\ sent = Both(<<>>) /\ taken = Both(0) /\ held = Both(<<>>)
             /\ counted = Both(<<>>) /\ delivered = Both(<<>>)
             /\ source = Both("open") /\ sink = Both("up")
             /\ token = FALSE
             /\ outcome = "running"

Running == outcome = "running"

(* The From impls: text becomes Message::Binary like binary, the rest is     *)
(* Message::Others, which no sink writes.                                    *)
IsPayload(m) == m.kind \in {"binary", "text"}

Payload(m) == IF IsPayload(m) THEN <<m>> ELSE <<>>

(* The future returns: the locals of both forwarders are dropped.            *)
Finish(how) ==
  /\ outcome' = how
  /\ held' = Both(<<>>)
  /\ UNCHANGED <<sent, taken, counted, delivered, ends>>

-----------------------------------------------------------------------------
(* forward_observed, one direction. *)

TakeAhead(d) ==   \* plausible bug: next message before the last is flushed
  /\ Running
  /\ taken[d] < Len(sent[d])
  /\ LET m == sent[d][taken[d] + 1]
     IN /\ held' = [held EXCEPT ![d] = Append(@, m)]
        /\ counted' = [counted EXCEPT ![d] = @ \o Payload(m)]
  /\ taken' = [taken EXCEPT ![d] = @ + 1]
  /\ UNCHANGED <<sent, delivered, ends, outcome>>

(* stream.next(): the message is counted and observed before it is sent. *)
Take(d) ==
  /\ Running /\ held[d] = <<>>
  /\ taken[d] < Len(sent[d])
  /\ LET m == sent[d][taken[d] + 1]
     IN /\ held' = [held EXCEPT ![d] = <<m>>]
        /\ counted' = [counted EXCEPT ![d] = @ \o Payload(m)]
  /\ taken' = [taken EXCEPT ![d] = @ + 1]
  /\ UNCHANGED <<sent, delivered, ends, outcome>>

(* sink.send(): feed and flush; a sink that is not read from never gets      *)
(* here, and a broken one only with a message nothing is written for.        *)
Send(d) ==
  /\ Running /\ held[d] # <<>>
  /\ sink[d] = "up" \/ ~IsPayload(held[d][1])
  /\ delivered' = [delivered EXCEPT ![d] = @ \o Payload(held[d][1])]
  /\ held' = [held EXCEPT ![d] = <<>>]
  /\ UNCHANGED <<sent, taken, counted, ends, outcome>>

SendFails_Ignored(d) ==   \* plausible bug: the error of send is dropped
  /\ Running /\ held[d] # <<>> /\ sink[d] = "broken"
  /\ held' = [held EXCEPT ![d] = <<>>]
  /\ UNCHANGED <<sent, taken, counted, delivered, ends, outcome>>

SendFails(d) ==
  /\ Running /\ held[d] # <<>> /\ sink[d] = "broken"
  /\ Finish("error")

StreamEnds_BothNeeded(d) ==   \* plausible bug: join instead of select
  /\ Running /\ held = Both(<<>>)
  /\ \A e \in Sides : taken[e] = Len(sent[e]) /\ source[e] # "open"
  /\ Finish(IF source[d] = "eof" THEN "ok" ELSE "error")

(* The stream ended, or yielded an error: the `?` and the loop's exit.       *)
StreamEnds(d) ==
  /\ Running /\ held[d] = <<>>
  /\ taken[d] = Len(sent[d]) /\ source[d] # "open"
  /\ Finish(IF source[d] = "eof" THEN "ok" ELSE "error")

Forward(d) == Take(d) \/ Send(d) \/ SendFails(d) \/ StreamEnds(d)

Cancelled_BetweenMessages ==   \* plausible bug: the token is only looked at
  /\ Running /\ token         \* when no direction is in the middle of a send
  /\ held = Both(<<>>)
  /\ Finish("ok")

(* The third branch of select!. *)
Cancelled == Running /\ token /\ Finish("ok")

-----------------------------------------------------------------------------
(* The peers and the owner of the token. *)
Produce(d) ==
  /\ Running /\ source[d] = "open" /\ Len(sent[d]) < MaxMessages
  /\ \E k \in KindsOf(d) :
       sent' = [sent EXCEPT ![d] = Append(@, [id |-> Len(@) + 1, kind |-> k])]
  /\ UNCHANGED <<taken, held, counted, delivered, ends, outcome>>

SourceEnds(d) ==
  /\ Running /\ source[d] = "open"
  /\ \E how \in {"eof", "failed"} : source' = [source EXCEPT ![d] = how]
  /\ UNCHANGED <<flow, sink, token, outcome>>

SinkBreaks(d) ==
  /\ Running /\ sink[d] = "up"
  /\ sink' = [sink EXCEPT ![d] = "broken"]
  /\ UNCHANGED <<flow, source, token, outcome>>

Cancel == /\ Running /\ ~token
          /\ token' = TRUE
          /\ UNCHANGED <<flow, source, sink, outcome>>

ProxyNext == \/ \E d \in Sides : Forward(d) \/ Produce(d) \/ SourceEnds(d) \/ SinkBreaks(d)
             \/ Cancelled \/ Cancel

ProxySpec == ProxyInit /\ [][ProxyNext]_proxyVars

(* select! polls all three branches whenever the task is woken.  Nothing is  *)
(* assumed of Send: a peer that does not read blocks it for ever.            *)
ProxyFairness == /\ WF_proxyVars(Cancelled)
                 /\ \A d \in Sides : WF_proxyVars(Take(d) \/ SendFails(d) \/ StreamEnds(d))

FairProxySpec == ProxySpec /\ ProxyFairness

-----------------------------------------------------------------------------
(* Properties. *)

(* Types of the two forwarders and of the select! around them. *)
ProxyTypeOK ==
  /\ sent \in [Sides -> Seq(Messages)] /\ taken \in [Sides -> Nat]
  /\ held \in [Sides -> {<<>>} \cup {<<m>> : m \in Messages}]
  /\ counted \in [Sides -> Seq(Messages)] /\ delivered \in [Sides -> Seq(Messages)]
  /\ source \in [Sides -> {"open", "eof", "failed"}]
  /\ sink \in [Sides -> {"up", "broken"}]
  /\ token \in BOOLEAN
  /\ outcome \in {"running", "ok", "error"}

(* proxy.rs:335-342.  The byte counts that end up in the audit never exceed  *)
(* what the peer got by more than the one message that was being sent in     *)
(* that direction when the connection ended, and never fall short of it.     *)
CountedIsDelivered ==
  \A d \in Sides : \/ counted[d] = delivered[d]
                   \/ \E m \in Messages : counted[d] = Append(delivered[d], m)

PayloadsUpTo(s, n) == {s[i] : i \in {j \in 1..n : IsPayload(s[j])}}

MessagesOf(s) == {s[i] : i \in 1..Len(s)}

Ascending(s) == \A i, k \in 1..Len(s) : i < k => s[i].id < s[k].id

BinaryUpTo(s, n) == {s[i] : i \in {j \in 1..n : s[j].kind = "binary"}}

(* proxy.rs:334-344.  No binary message is lost and nothing is repeated or   *)
(* reordered: the peer has every binary message up to the last one taken,    *)
(* short at most of that last one, and whatever it has is data its source    *)
(* sent, in order.  A message's id is its place in the stream.               *)
DeliveredInOrder ==
  \A d \in Sides :
    /\ Ascending(delivered[d])
    /\ MessagesOf(delivered[d]) \subseteq PayloadsUpTo(sent[d], taken[d])
    /\ \/ BinaryUpTo(sent[d], taken[d]) \subseteq MessagesOf(delivered[d])
       \/ taken[d] > 0 /\ BinaryUpTo(sent[d], taken[d] - 1) \subseteq MessagesOf(delivered[d])

(* proxy.rs:64-65, the comment on Message: only a binary message is tunneled *)
(* and other types are discarded.  The code forwards text as well (:94), so  *)
(* this is violated.                                                         *)
OnlyBinaryTunneled ==
  \A d \in Sides : \A m \in MessagesOf(delivered[d]) : m.kind = "binary"

(* What makes them inductive: while the loop runs, the difference between     *)
(* what is counted and what is delivered is exactly the payload of the        *)
(* message in sink.send, which is the last one taken.                         *)
InFlight ==
  \A d \in Sides :
    /\ Running /\ held[d] = <<>> => counted[d] = delivered[d]
    /\ held[d] # <<>> => counted[d] = delivered[d] \o Payload(held[d][1])

(* What is delivered is exactly the payloads taken, text among them, but for  *)
(* the last one.                                                              *)
PayloadsDelivered ==
  \A d \in Sides :
    /\ Ascending(delivered[d])
    /\ \/ MessagesOf(delivered[d]) = PayloadsUpTo(sent[d], taken[d])
       \/ taken[d] > 0 /\ MessagesOf(delivered[d]) = PayloadsUpTo(sent[d], taken[d] - 1)

Numbered ==
  \A d \in Sides : /\ taken[d] <= Len(sent[d])
                   /\ \A i \in 1..Len(sent[d]) : sent[d][i].id = i

HeldIsLast ==
  \A d \in Sides :
    /\ Running /\ held[d] = <<>> =>
         MessagesOf(delivered[d]) = PayloadsUpTo(sent[d], taken[d])
    /\ held[d] # <<>> =>
         /\ taken[d] > 0 /\ held[d][1] = sent[d][taken[d]]
         /\ MessagesOf(delivered[d]) = PayloadsUpTo(sent[d], taken[d] - 1)

ProxyInv == /\ ProxyTypeOK /\ InFlight /\ CountedIsDelivered
            /\ Numbered /\ HeldIsLast /\ PayloadsDelivered

(* proxy.rs:317.  However the peers block, a cancelled connection ends.      *)
CancelEnds == token ~> ~Running

(* proxy.rs:314-316.  A direction whose stream ended, with nothing left to   *)
(* forward, ends the connection, even when the other one is blocked.         *)
HalfCloseEnds ==
  \A d \in Sides :
    (source[d] # "open" /\ taken[d] = Len(sent[d]) /\ held[d] = <<>>) ~> ~Running
=============================================================================
