------------------------------ MODULE Capture ------------------------------
(***************************************************************************)
(* The traffic capture of one connection (cli/capture.rs).  The observer   *)
(* runs inside the proxy's task, once per forwarded message of either      *)
(* direction, and hands packets to a writer task over a bounded channel;   *)
(* when the proxy has returned, finish() queues a Finish message, waits    *)
(* for the writer's answer and reads the counters for the audit record.    *)
(*                                                                         *)
(* Bytes are their position in a message: [id, from, to] stands for bytes  *)
(* from + 1 .. to of message id, as one pcap packet.                       *)
(***************************************************************************)
EXTENDS Naturals, Sequences, FiniteSets, SequencesExt

CONSTANTS MaxBytes,    \* max_capture_bytes
          Capacity,    \* of the channel: 1024
          ChunkSize,   \* payload of one packet: 65,507
          MaxMessages, \* bound on the messages of a connection
          MaxLength,   \* bound on the length of a message
          Nothing      \* model value: no packet in the writer's hands

ASSUME CaptureAssumption ==
  /\ MaxBytes \in Nat
  /\ Capacity \in Nat \ {0} /\ ChunkSize \in Nat \ {0}
  /\ MaxMessages \in Nat /\ MaxLength \in Nat

Pieces == [id : 1 .. MaxMessages, from : 0 .. MaxLength, to : 0 .. MaxLength]

ASSUME NothingAssumption == Nothing \notin Pieces

Finish == [id |-> 0]      \* CaptureMessage::Finish

VARIABLES phase,      \* of the connection's task
          messages,   \* how many messages the proxy has observed
          seen,       \* their bytes: the audit's client_to_target + target_to_client
          captured, truncated,   \* the observer's two atomics
          channel,    \* packets and Finish on their way to the writer
          rest,       \* what the writer has left of the packet it received
          diskError,  \* a failed write that File has not reported yet
          file,       \* the packets in the pcap file
          damaged,    \* history: a write to the file failed
          accepted,   \* history: the packets try_send took
          done        \* the oneshot of finish()

counters == <<seen, captured, truncated>>
disk == <<rest, diskError, file, damaged>>
vars == <<phase, messages, counters, channel, disk, accepted, done>>

Least(a, b) == IF a < b THEN a ELSE b

Init == /\ phase = "starting"
        /\ messages = 0 /\ seen = 0 /\ captured = 0 /\ truncated = FALSE
        /\ channel = <<>> /\ accepted = <<>>
        /\ rest = Nothing /\ diskError = FALSE /\ file = <<>> /\ damaged = FALSE
        /\ done = "unsent"

(* CaptureSession::start: any I/O error leaves the connection without one. *)
Start == /\ phase = "starting"
         /\ phase' \in {"proxying", "uncaptured"}
         /\ UNCHANGED <<messages, counters, channel, disk, accepted, done>>

-----------------------------------------------------------------------------
(* CaptureObserver::observe.  Both directions call it from the same task, so *)
(* its load, exchange and fetch_sub see no other writer.                     *)
Observed(n) ==
  /\ phase = "proxying" /\ messages < MaxMessages
  /\ messages' = messages + 1
  /\ seen' = seen + n
  /\ UNCHANGED <<phase, disk, done>>

OverLimit(n) ==
  /\ Observed(n)
  /\ captured >= MaxBytes
  /\ truncated' = TRUE
  /\ UNCHANGED <<captured, channel, accepted>>

Accept(n) ==
  /\ Observed(n)
  /\ captured < MaxBytes
  /\ Len(channel) < Capacity
  /\ LET kept == Least(MaxBytes - captured, n)
         packet == [id |-> messages + 1, from |-> 0, to |-> kept]
     IN /\ captured' = captured + kept
        /\ truncated' = (truncated \/ kept < n)
        /\ channel' = Append(channel, packet)
        /\ accepted' = Append(accepted, packet)

Refuse_KeepsBytes(n) ==   \* plausible bug: the reservation is not taken back
  /\ Observed(n)
  /\ captured < MaxBytes
  /\ Len(channel) >= Capacity
  /\ captured' = captured + Least(MaxBytes - captured, n)
  /\ truncated' = TRUE
  /\ UNCHANGED <<channel, accepted>>

Refuse_Silent(n) ==   \* plausible bug: a full channel is not called truncation
  /\ Observed(n)
  /\ captured < MaxBytes
  /\ Len(channel) >= Capacity
  /\ truncated' = (truncated \/ captured + n > MaxBytes)
  /\ UNCHANGED <<captured, channel, accepted>>

(* try_send on a full channel: the reservation is taken back. *)
Refuse(n) ==
  /\ Observed(n)
  /\ captured < MaxBytes
  /\ Len(channel) >= Capacity
  /\ truncated' = TRUE
  /\ UNCHANGED <<captured, channel, accepted>>

Observe == \E n \in 0 .. MaxLength : OverLimit(n) \/ Accept(n) \/ Refuse(n)

-----------------------------------------------------------------------------
(* The end of the connection: finish(), then the audit record. *)
ProxyReturns ==
  /\ phase = "proxying"
  /\ phase' = "finishing"
  /\ UNCHANGED <<messages, counters, channel, disk, accepted, done>>

SendFinish_Try ==   \* plausible bug: try_send instead of send().await
  /\ phase = "finishing"
  /\ phase' = "waiting"
  /\ IF Len(channel) < Capacity
     THEN channel' = Append(channel, Finish) /\ done' = "pending"
     ELSE UNCHANGED <<channel, done>>
  /\ UNCHANGED <<messages, counters, disk, accepted>>

(* send().await waits for a free place in the channel. *)
SendFinish ==
  /\ phase = "finishing"
  /\ Len(channel) < Capacity
  /\ channel' = Append(channel, Finish)
  /\ done' = "pending"
  /\ phase' = "waiting"
  /\ UNCHANGED <<messages, counters, disk, accepted>>

(* done_rx.await returned, with an answer or because the sender is gone. *)
Audit ==
  /\ phase = "waiting" /\ done # "pending"
  /\ phase' = "audited"
  /\ UNCHANGED <<messages, counters, channel, disk, accepted, done>>

-----------------------------------------------------------------------------
(* write_capture. *)
Receive ==
  /\ rest = Nothing /\ channel # <<>> /\ Head(channel) # Finish
  /\ channel' = Tail(channel)
  /\ rest' = IF Head(channel).to = 0 THEN Nothing ELSE Head(channel)
  /\ UNCHANGED <<phase, messages, counters, diskError, file, damaged, accepted, done>>

ChunkEnd == Least(rest.from + ChunkSize, rest.to)

AfterChunk == IF ChunkEnd = rest.to THEN Nothing ELSE [rest EXCEPT !.from = ChunkEnd]

WriteChunk ==
  /\ rest # Nothing /\ ~diskError
  /\ file' = Append(file, [rest EXCEPT !.to = ChunkEnd])
  /\ rest' = AfterChunk
  /\ UNCHANGED <<phase, messages, counters, channel, diskError, damaged, accepted, done>>

(* tokio's File hands a write to a blocking thread and reports its failure   *)
(* there at the next write: at once when a later part of the same packet is  *)
(* written, else by refusing the next chunk.  Either way the loop over the   *)
(* chunks of a message ends and the next message is received.                *)
FailChunk ==
  /\ rest # Nothing
  /\ damaged' = TRUE
  /\ \/ rest' = Nothing /\ diskError' = FALSE
     \/ ~diskError /\ rest' = AfterChunk /\ diskError' = TRUE
  /\ UNCHANGED <<phase, messages, counters, channel, file, accepted, done>>

Answer_Insists ==   \* plausible bug: no answer until a flush succeeds
  /\ rest = Nothing /\ channel # <<>> /\ Head(channel) = Finish
  /\ ~diskError
  /\ channel' = Tail(channel)
  /\ done' = "answered"
  /\ UNCHANGED <<phase, messages, counters, disk, accepted>>

(* flush, whose error is ignored, and the answer; the writer's task ends. *)
Answer ==
  /\ rest = Nothing /\ channel # <<>> /\ Head(channel) = Finish
  /\ channel' = Tail(channel)
  /\ done' = "answered"
  /\ diskError' = FALSE
  /\ UNCHANGED <<phase, messages, counters, rest, file, damaged, accepted>>

Writer == Receive \/ WriteChunk \/ FailChunk \/ Answer

Next == Start \/ Observe \/ ProxyReturns \/ SendFinish \/ Audit \/ Writer

Spec == Init /\ [][Next]_vars

(* Tasks are polled when woken, and a write to the file returns, well or     *)
(* badly.  Nothing makes the proxy return here.                              *)
Fairness == WF_vars(SendFinish) /\ WF_vars(Audit) /\ WF_vars(Writer)

FairSpec == Spec /\ Fairness

-----------------------------------------------------------------------------
(* Properties. *)

(* Types of the observer, the channel and the writer. *)
TypeOK ==
  /\ phase \in {"starting", "uncaptured", "proxying", "finishing", "waiting", "audited"}
  /\ messages \in 0 .. MaxMessages
  /\ seen \in Nat /\ captured \in Nat /\ truncated \in BOOLEAN
  /\ channel \in Seq(Pieces \cup {Finish}) /\ accepted \in Seq(Pieces)
  /\ rest \in Pieces \cup {Nothing}
  /\ diskError \in BOOLEAN /\ damaged \in BOOLEAN
  /\ file \in Seq(Pieces)
  /\ done \in {"unsent", "pending", "answered"}

(* The bytes of a packet, and of a set of packets. *)
Bytes(p) == {p.id} \X (p.from + 1 .. p.to)

BytesOf(packets) == UNION {Bytes(p) : p \in packets}

(* The byte counter the audit reports is the number of bytes that went into  *)
(* the channel, refused packets taken back, and stays within the limit:      *)
(* capture.rs:33-63.                                                         *)
CapturedIsAccepted ==
  /\ captured = Cardinality(BytesOf(ToSet(accepted)))
  /\ captured <= MaxBytes

(* A record that does not say truncated has captured every byte it counted:  *)
(* neither the limit nor a full channel loses one silently.                  *)
TruncationTold == ~truncated => captured = seen

Before(p, q) == p.id < q.id \/ (p.id = q.id /\ p.to <= q.from)

(* data.chunks(65_507): full chunks, except for the last one of a message.   *)
IsChunk(c, p) == c.id = p.id /\ c.from < c.to /\ c.to = Least(c.from + ChunkSize, p.to)

(* The file only ever holds chunks of accepted messages, in order and none   *)
(* twice; when the audit record is written it holds every accepted byte,     *)
(* unless the disk failed: finish() waits for the writer even when the       *)
(* channel is full (capture.rs:98-110, 127-151).                             *)
AuditFindsWholeFile ==
  /\ \A c \in ToSet(file) : \E p \in ToSet(accepted) : IsChunk(c, p)
  /\ \A i, k \in 1 .. Len(file) : i < k => Before(file[i], file[k])
  /\ phase = "audited" /\ ~damaged => BytesOf(ToSet(file)) = BytesOf(ToSet(accepted))

(* What makes them inductive.  Accepted packets are whole, and numbered by   *)
(* their messages; what the writer has left of one lies between the file and *)
(* the channel, and nothing accepted is anywhere else.                       *)
Numbered == \A p \in ToSet(accepted) : p.from = 0 /\ p.id <= messages

Queued == ToSet(channel) \ {Finish}

Held == {rest} \ {Nothing}

Pipeline ==
  /\ Queued \subseteq ToSet(accepted)
  /\ \A p \in Held : /\ p.from < p.to
                     /\ \E q \in ToSet(accepted) : p.id = q.id /\ p.to = q.to
  /\ \A i, k \in 1 .. Len(channel) :
       i < k => channel[i] # Finish /\ (channel[k] # Finish => channel[i].id < channel[k].id)
  /\ \A p \in ToSet(file) \cup Held, q \in Queued : p.id < q.id
  /\ \A c \in ToSet(file), p \in Held : Before(c, p)
  /\ ~damaged => BytesOf(ToSet(accepted)) = BytesOf(ToSet(file) \cup Held \cup Queued)

(* Finish is the last message of the channel, and its answer comes when the  *)
(* writer has nothing left.                                                  *)
FinishLast ==
  /\ Finish \in ToSet(channel) => done = "pending"
  /\ done = "unsent" <=> phase \notin {"waiting", "audited"}
  /\ done = "answered" => channel = <<>> /\ rest = Nothing
  /\ phase = "audited" => done = "answered"

IInv == /\ TypeOK /\ CapturedIsAccepted /\ TruncationTold
        /\ Numbered /\ Pipeline /\ FinishLast /\ AuditFindsWholeFile

(* finish() returns, whatever the writer has queued and the disk does, so    *)
(* the connection's audit record is written and its permits come back.       *)
FinishReturns == phase = "finishing" ~> phase = "audited"
=============================================================================
