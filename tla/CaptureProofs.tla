--------------------------- MODULE CaptureProofs ---------------------------
(***************************************************************************)
(* Theorems about Capture, for any limit, channel capacity, packet size,   *)
(* number and length of messages; and about the audit file and the cleanup *)
(* of GatewayFiles, for any connections, crashes, limits and lines a file. *)
(***************************************************************************)
EXTENDS Capture, GatewayFiles, SequenceTheorems, FiniteSetTheorems, TLAPS

(* The counters. *)
CountInv == TypeOK /\ captured <= MaxBytes /\ TruncationTold

LEMMA CountInit == Init => CountInv
  <1> SUFFICES ASSUME Init PROVE CountInv
    OBVIOUS
  <1>1. /\ channel \in Seq(Pieces \cup {Finish})
        /\ accepted \in Seq(Pieces) /\ file \in Seq(Pieces)
    BY EmptySeq DEF Init
  <1>2. messages \in 0 .. MaxMessages /\ captured <= MaxBytes
    BY CaptureAssumption DEF Init
  <1>3. QED BY <1>1, <1>2 DEF Init, CountInv, TypeOK, TruncationTold

(* A message of n bytes passes the observer. *)
LEMMA ObserveKeeps ==
  ASSUME CountInv, Observe
  PROVE  CountInv'
  <1>1. PICK n \in 0 .. MaxLength : OverLimit(n) \/ Accept(n) \/ Refuse(n)
    BY DEF Observe
  <1>2. n \in Nat /\ n <= MaxLength
    BY CaptureAssumption
  <1>3. /\ messages \in 0 .. MaxMessages /\ seen \in Nat /\ captured \in Nat
        /\ captured <= MaxBytes /\ truncated \in BOOLEAN /\ MaxBytes \in Nat
    BY CaptureAssumption DEF CountInv, TypeOK
  <1>4. messages < MaxMessages /\ messages' = messages + 1 /\ seen' = seen + n
    BY <1>1 DEF OverLimit, Accept, Refuse, Observed
  <1>5. messages' \in 0 .. MaxMessages /\ seen' \in Nat
    BY <1>2, <1>3, <1>4, CaptureAssumption
  <1>6. UNCHANGED <<phase, rest, diskError, file, damaged, done>>
    BY <1>1 DEF OverLimit, Accept, Refuse, Observed, disk
  <1>7. CASE OverLimit(n) \/ Refuse(n)
    <2>1. truncated' = TRUE /\ UNCHANGED <<captured, channel, accepted>>
      BY <1>7 DEF OverLimit, Refuse
    <2>2. QED BY <2>1, <1>3, <1>5, <1>6 DEF CountInv, TypeOK, TruncationTold
  <1>8. CASE Accept(n)
    <2> DEFINE kept == Least(MaxBytes - captured, n)
               packet == [id |-> messages + 1, from |-> 0, to |-> kept]
    <2>1. /\ captured' = captured + kept
          /\ truncated' = (truncated \/ kept < n)
          /\ channel' = Append(channel, packet)
          /\ accepted' = Append(accepted, packet)
      BY <1>8 DEF Accept
    <2>2. kept \in Nat /\ kept <= n /\ captured + kept <= MaxBytes /\ (kept < n \/ kept = n)
      BY <1>2, <1>3 DEF Least
    <2> HIDE DEF kept
    <2>3. packet \in Pieces
      <3>1. messages + 1 \in 1 .. MaxMessages
        BY <1>3, <1>4, CaptureAssumption
      <3>2. 0 \in 0 .. MaxLength /\ kept \in 0 .. MaxLength
        BY <2>2, <1>2, CaptureAssumption
      <3>3. QED BY <3>1, <3>2 DEF Pieces
    <2> HIDE DEF packet
    <2>4. channel' \in Seq(Pieces \cup {Finish}) /\ accepted' \in Seq(Pieces)
      BY <2>1, <2>3 DEF CountInv, TypeOK
    <2>5. captured' \in Nat /\ captured' <= MaxBytes /\ truncated' \in BOOLEAN
      BY <2>1, <2>2, <1>3
    <2>6. TypeOK'
      BY <2>4, <2>5, <1>5, <1>6 DEF CountInv, TypeOK
    <2>7. TruncationTold'
      <3>1. SUFFICES ASSUME ~truncated' PROVE captured' = seen'
        BY DEF TruncationTold
      <3>2. ~truncated /\ ~(kept < n)
        BY <3>1, <2>1
      <3>3. captured = seen /\ kept = n
        BY <3>2, <2>2 DEF CountInv, TruncationTold
      <3>4. QED BY <3>3, <2>1, <1>4
    <2>8. QED BY <2>5, <2>6, <2>7 DEF CountInv
  <1>9. QED BY <1>1, <1>7, <1>8

(* The writer's steps change no counter. *)
LEMMA WriterKeeps ==
  ASSUME CountInv, Writer
  PROVE  CountInv'
  <1>1. UNCHANGED <<phase, messages, counters, accepted>>
    BY DEF Writer, Receive, WriteChunk, FailChunk, Answer
  <1>2. TruncationTold' /\ captured' <= MaxBytes
    BY <1>1 DEF CountInv, TruncationTold, counters
  <1>3. ASSUME rest # Nothing
        PROVE  /\ [rest EXCEPT !.to = ChunkEnd] \in Pieces
               /\ AfterChunk \in Pieces \cup {Nothing}
    <2>1. rest \in Pieces
      BY <1>3 DEF CountInv, TypeOK
    <2>2. rest.from \in Nat /\ rest.to \in Nat /\ rest.to <= MaxLength
      BY <2>1, CaptureAssumption DEF Pieces
    <2>3. ChunkEnd \in Nat /\ ChunkEnd <= rest.to
      BY <2>2, CaptureAssumption DEF ChunkEnd, Least
    <2>4. ChunkEnd \in 0 .. MaxLength
      BY <2>2, <2>3, CaptureAssumption
    <2>5. QED BY <2>1, <2>4 DEF Pieces, AfterChunk
  <1>4. channel # <<>> => Head(channel) \in Pieces \cup {Finish} /\ Tail(channel) \in Seq(Pieces \cup {Finish})
    BY HeadTailProperties DEF CountInv, TypeOK
  <1>5. TypeOK'
    <2>1. CASE Receive
      BY <2>1, <1>1, <1>4 DEF Receive, CountInv, TypeOK, counters
    <2>2. CASE WriteChunk
      <3>1. file' \in Seq(Pieces)
        BY <2>2, <1>3 DEF WriteChunk, CountInv, TypeOK
      <3>2. rest' \in Pieces \cup {Nothing}
        BY <2>2, <1>3 DEF WriteChunk
      <3>3. QED BY <2>2, <3>1, <3>2, <1>1 DEF WriteChunk, CountInv, TypeOK, counters
    <2>3. CASE FailChunk
      <3>1. rest' \in Pieces \cup {Nothing} /\ diskError' \in BOOLEAN
        BY <2>3, <1>3 DEF FailChunk
      <3>2. QED BY <2>3, <3>1, <1>1 DEF FailChunk, CountInv, TypeOK, counters
    <2>4. CASE Answer
      BY <2>4, <1>1, <1>4 DEF Answer, CountInv, TypeOK, counters
    <2>5. QED BY <2>1, <2>2, <2>3, <2>4 DEF Writer
  <1>6. QED BY <1>2, <1>5 DEF CountInv

(* Start, the proxy's return, finish() and the audit change no counter. *)
LEMMA TaskKeeps ==
  ASSUME CountInv, Start \/ ProxyReturns \/ SendFinish \/ Audit
  PROVE  CountInv'
  <1>1. UNCHANGED <<messages, counters, disk, accepted>>
    BY DEF Start, ProxyReturns, SendFinish, Audit
  <1>2. TruncationTold' /\ captured' <= MaxBytes
    BY <1>1 DEF CountInv, TruncationTold, counters
  <1>3. phase' \in {"proxying", "uncaptured", "finishing", "waiting", "audited"}
    BY DEF Start, ProxyReturns, SendFinish, Audit
  <1>4. channel' \in Seq(Pieces \cup {Finish}) /\ done' \in {"unsent", "pending", "answered"}
    <2>1. CASE SendFinish
      BY <2>1 DEF SendFinish, CountInv, TypeOK
    <2>2. CASE Start \/ ProxyReturns \/ Audit
      BY <2>2 DEF Start, ProxyReturns, Audit, CountInv, TypeOK
    <2>3. QED BY <2>1, <2>2
  <1>5. TypeOK'
    BY <1>1, <1>3, <1>4 DEF CountInv, TypeOK, counters, disk
  <1>6. QED BY <1>2, <1>5 DEF CountInv

LEMMA CountNext == CountInv /\ [Next]_vars => CountInv'
  <1> SUFFICES ASSUME CountInv, [Next]_vars PROVE CountInv'
    OBVIOUS
  <1>1. CASE UNCHANGED vars
    BY <1>1 DEF CountInv, TypeOK, TruncationTold, vars, counters, disk
  <1>2. QED BY <1>1, ObserveKeeps, WriterKeeps, TaskKeeps DEF Next

-----------------------------------------------------------------------------
(* Sequences as sets, and the bytes of sets of packets. *)
LEMMA AppendedSet ==
  ASSUME NEW S, NEW s \in Seq(S), NEW e \in S
  PROVE  ToSet(Append(s, e)) = ToSet(s) \cup {e}
  <1> DEFINE t == Append(s, e)
  <1>1. /\ Len(s) \in Nat /\ DOMAIN s = 1 .. Len(s) /\ t \in Seq(S)
        /\ Len(t) = Len(s) + 1 /\ t[Len(s) + 1] = e
        /\ \A i \in 1 .. Len(s) : t[i] = s[i]
    BY AppendProperties, LenProperties
  <1> HIDE DEF t
  <1>2. DOMAIN t = 1 .. Len(s) \cup {Len(s) + 1}
    BY <1>1, LenProperties
  <1>3. ToSet(t) = ToSet(s) \cup {e}
    BY <1>1, <1>2 DEF ToSet
  <1>4. QED BY <1>3 DEF t

LEMMA TailSet ==
  ASSUME NEW S, NEW s \in Seq(S), s # <<>>
  PROVE  ToSet(s) = {Head(s)} \cup ToSet(Tail(s))
  <1> DEFINE t == Tail(s)
  <1>1. /\ Len(s) \in Nat /\ DOMAIN s = 1 .. Len(s) /\ Len(s) >= 1 /\ s[1] = Head(s)
        /\ t \in Seq(S) /\ Len(t) = Len(s) - 1
        /\ \A i \in 1 .. Len(t) : t[i] = s[i + 1]
    BY HeadTailProperties, LenProperties, EmptySeq
  <1> HIDE DEF t
  <1>2. DOMAIN t = 1 .. Len(t)
    BY <1>1, LenProperties
  <1>3. ASSUME NEW i \in 1 .. Len(s) PROVE s[i] \in {Head(s)} \cup ToSet(t)
    <2>1. CASE i = 1
      BY <1>1, <2>1
    <2>2. CASE i # 1
      <3>1. i - 1 \in 1 .. Len(t) /\ (i - 1) + 1 = i
        BY <1>1, <2>2
      <3>2. QED BY <1>1, <1>2, <3>1 DEF ToSet
    <2>3. QED BY <2>1, <2>2
  <1>4. ToSet(s) = {Head(s)} \cup ToSet(t)
    <2>1. ToSet(t) \subseteq ToSet(s)
      <3>1. \A i \in 1 .. Len(t) : i + 1 \in 1 .. Len(s)
        BY <1>1
      <3>2. ASSUME NEW i \in 1 .. Len(t) PROVE t[i] \in ToSet(s)
        <4>1. t[i] = s[i + 1] /\ DOMAIN s = 1 .. Len(s)
          BY <1>1
        <4>2. QED BY <3>1, <4>1 DEF ToSet
      <3>3. QED BY <1>2, <3>2 DEF ToSet
    <2>2. Head(s) \in ToSet(s)
      BY <1>1 DEF ToSet
    <2>3. QED BY <1>1, <1>3, <2>1, <2>2 DEF ToSet
  <1>5. QED BY <1>4 DEF t

LEMMA BytesOfOne ==
  ASSUME NEW p
  PROVE  BytesOf({p}) = Bytes(p) /\ BytesOf({}) = {}
  BY DEF BytesOf

LEMMA PieceFields ==
  ASSUME NEW p \in Pieces
  PROVE  /\ p.id \in Nat /\ p.from \in Nat /\ p.to \in Nat
         /\ p # Finish /\ p # Nothing
  BY CaptureAssumption, NothingAssumption DEF Pieces, Finish

LEMMA FiniteBytes ==
  ASSUME NEW P \in SUBSET Pieces
  PROVE  IsFiniteSet(BytesOf(P))
  <1> DEFINE all == (1 .. MaxMessages) \X (1 .. MaxLength)
  <1>1. IsFiniteSet(1 .. MaxMessages) /\ IsFiniteSet(1 .. MaxLength)
    BY FS_Interval, CaptureAssumption
  <1>2. IsFiniteSet(all)
    BY <1>1, FS_Product
  <1>3. BytesOf(P) \subseteq all
    <2>1. SUFFICES ASSUME NEW p \in P PROVE Bytes(p) \subseteq all
      BY DEF BytesOf
    <2>2. p.id \in 1 .. MaxMessages /\ p.from \in Nat /\ p.to \in Nat /\ p.to <= MaxLength
      BY CaptureAssumption DEF Pieces
    <2>3. p.from + 1 .. p.to \subseteq 1 .. MaxLength
      BY <2>2, CaptureAssumption
    <2>4. QED BY <2>2, <2>3 DEF Bytes
  <1>4. QED BY <1>2, <1>3, FS_Subset

(* The n bytes of a thing. *)
LEMMA FileBytes ==
  ASSUME NEW c, NEW n \in Nat
  PROVE  IsFiniteSet({c} \X (1..n)) /\ Cardinality({c} \X (1..n)) = n
  <1>1. IsFiniteSet({c}) /\ Cardinality({c}) = 1
    BY FS_Singleton
  <1>2. IsFiniteSet(1..n) /\ Cardinality(1..n) = n
    <2>1. Cardinality(1..n) = IF 1 > n THEN 0 ELSE n - 1 + 1
      BY FS_Interval
    <2>2. IsFiniteSet(1..n)
      BY FS_Interval
    <2>3. QED BY <2>1, <2>2
  <1>3. IsFiniteSet({c} \X (1..n))
    BY <1>1, <1>2, FS_Product
  <1>4. Cardinality({c} \X (1..n)) = 1 * n
    BY <1>1, <1>2, FS_Product
  <1>5. QED BY <1>3, <1>4

(* A whole packet of a new message adds its length to the bytes. *)
LEMMA BytesAdded ==
  ASSUME NEW P \in SUBSET Pieces, NEW m \in Pieces, m.from = 0,
         \A p \in P : p.id # m.id
  PROVE  Cardinality(BytesOf(P \cup {m})) = Cardinality(BytesOf(P)) + m.to
  <1>1. m.to \in Nat /\ Bytes(m) = {m.id} \X (1 .. m.to)
    BY PieceFields DEF Bytes
  <1>2. IsFiniteSet(Bytes(m)) /\ Cardinality(Bytes(m)) = m.to
    <2>1. m.to \in Nat
      BY <1>1
    <2>2. IsFiniteSet({m.id} \X (1..m.to)) /\ Cardinality({m.id} \X (1..m.to)) = m.to
      BY <2>1, FileBytes
    <2>3. QED BY <1>1, <2>2
  <1>3. BytesOf(P) \cap Bytes(m) = {}
    BY DEF BytesOf, Bytes
  <1>4. IsFiniteSet(BytesOf(P)) /\ Cardinality(BytesOf(P)) \in Nat
    BY FiniteBytes, FS_CardinalityType
  <1>5. Cardinality(BytesOf(P) \cup Bytes(m)) = Cardinality(BytesOf(P)) + m.to - 0
    BY <1>2, <1>3, <1>4, FS_Union, FS_EmptySet
  <1>6. BytesOf(P \cup {m}) = BytesOf(P) \cup Bytes(m)
    BY DEF BytesOf
  <1> DEFINE old == Cardinality(BytesOf(P))
  <1> HIDE DEF old
  <1>7. old \in Nat /\ Cardinality(BytesOf(P \cup {m})) = old + m.to - 0
    BY <1>4, <1>5, <1>6 DEF old
  <1>8. QED BY <1>1, <1>7 DEF old

-----------------------------------------------------------------------------
(* What the file holds.  The part of AuditFindsWholeFile that is about the   *)
(* audit follows from the rest of the invariant.                             *)
FilePart ==
  /\ \A c \in ToSet(file) : \E p \in ToSet(accepted) : IsChunk(c, p)
  /\ \A i, k \in 1 .. Len(file) : i < k => Before(file[i], file[k])

FileInv == CapturedIsAccepted /\ Numbered /\ Pipeline /\ FinishLast /\ FilePart

LEMMA WholeAtAudit == TypeOK /\ FileInv => AuditFindsWholeFile
  <1> SUFFICES ASSUME TypeOK, FileInv PROVE AuditFindsWholeFile
    OBVIOUS
  <1>1. ASSUME phase = "audited", ~damaged
        PROVE  BytesOf(ToSet(file)) = BytesOf(ToSet(accepted))
    <2>1. channel = <<>> /\ rest = Nothing
      BY <1>1 DEF FileInv, FinishLast
    <2>2. Held = {} /\ Queued = {}
      BY <2>1 DEF Held, Queued, ToSet
    <2>3. QED BY <1>1, <2>2 DEF FileInv, Pipeline
  <1>2. QED BY <1>1 DEF FileInv, FilePart, AuditFindsWholeFile

LEMMA FileInit == Init => FileInv
  <1> SUFFICES ASSUME Init PROVE FileInv
    OBVIOUS
  <1>1. /\ channel = <<>> /\ accepted = <<>> /\ file = <<>> /\ rest = Nothing
        /\ captured = 0 /\ phase = "starting" /\ done = "unsent"
    BY DEF Init
  <1>2. Len(<<>>) = 0 /\ ToSet(<<>>) = {}
    BY EmptySeq DEF ToSet
  <1>3. Queued = {} /\ Held = {}
    BY <1>1, <1>2 DEF Queued, Held
  <1>4. CapturedIsAccepted
    <2>1. BytesOf(ToSet(accepted)) = {}
      BY <1>1, <1>2 DEF BytesOf
    <2>2. QED BY <1>1, <2>1, FS_EmptySet, CaptureAssumption DEF CapturedIsAccepted
  <1>5. Pipeline
    BY <1>1, <1>2, <1>3 DEF Pipeline
  <1>6. Numbered /\ FilePart /\ FinishLast
    BY <1>1, <1>2 DEF Numbered, FilePart, FinishLast
  <1>7. QED BY <1>4, <1>5, <1>6 DEF FileInv

(* Facts every step starts from. *)
LEMMA Shapes ==
  ASSUME TypeOK, FileInv
  PROVE  /\ ToSet(accepted) \subseteq Pieces /\ ToSet(file) \subseteq Pieces
         /\ Queued \subseteq Pieces /\ Held \subseteq Pieces
         /\ \A p \in ToSet(accepted) \cup ToSet(file) \cup Held : p.id \in Nat /\ p.id <= messages
         /\ channel # <<>> => done # "answered"
         /\ rest # Nothing => done # "answered" /\ Held = {rest}
         /\ rest = Nothing => Held = {}
         /\ done = "unsent" => \A i \in 1 .. Len(channel) : channel[i] \in Queued
  <1>1. ToSet(accepted) \subseteq Pieces /\ ToSet(file) \subseteq Pieces
    BY DEF TypeOK, ToSet
  <1>2. Queued \subseteq Pieces /\ Held \subseteq Pieces
    BY <1>1 DEF FileInv, Pipeline, Held, TypeOK
  <1>3. ASSUME NEW p \in ToSet(accepted) \cup ToSet(file) \cup Held
        PROVE  p.id \in Nat /\ p.id <= messages
    <2>1. PICK q \in ToSet(accepted) : p.id = q.id
      BY <1>3 DEF FileInv, Pipeline, FilePart, IsChunk
    <2>2. QED BY <1>1, <2>1, PieceFields DEF FileInv, Numbered
  <1>4. done = "unsent" => \A i \in 1 .. Len(channel) : channel[i] \in Queued
    BY LenProperties DEF FileInv, FinishLast, Queued, ToSet, TypeOK
  <1>5. QED BY <1>1, <1>2, <1>3, <1>4 DEF FileInv, FinishLast, Held

-----------------------------------------------------------------------------
(* The observer. *)
LEMMA AcceptFile ==
  ASSUME TypeOK, FileInv, messages < MaxMessages, captured <= MaxBytes,
         NEW n \in 0 .. MaxLength, Accept(n)
  PROVE  FileInv'
  <1> DEFINE kept == Least(MaxBytes - captured, n)
             m == [id |-> messages + 1, from |-> 0, to |-> kept]
  <1>1. /\ phase = "proxying" /\ messages' = messages + 1
        /\ captured' = captured + kept
        /\ channel' = Append(channel, m) /\ accepted' = Append(accepted, m)
        /\ UNCHANGED <<phase, rest, diskError, file, damaged, done>>
    BY DEF Accept, Observed, disk
  <1>2. /\ messages \in Nat /\ captured \in Nat /\ kept \in 0 .. MaxLength
        /\ captured + kept \in Nat /\ captured + kept <= MaxBytes
    BY CaptureAssumption DEF TypeOK, Least
  <1>3. m \in Pieces /\ m.id = messages + 1 /\ m.from = 0 /\ m.to = kept
    <2>1. messages + 1 \in 1 .. MaxMessages /\ 0 \in 0 .. MaxLength
      BY CaptureAssumption DEF TypeOK
    <2>2. QED BY <1>2, <2>1 DEF Pieces
  <1> HIDE DEF kept, m
  <1>4. m # Finish /\ m # Nothing
    BY <1>3, PieceFields
  <1>5. /\ channel \in Seq(Pieces \cup {Finish}) /\ accepted \in Seq(Pieces)
        /\ m \in Pieces \cup {Finish}
    BY <1>3 DEF TypeOK
  <1>6. ToSet(accepted') = ToSet(accepted) \cup {m} /\ ToSet(channel') = ToSet(channel) \cup {m}
    <2>1. m \in Pieces
      BY <1>3
    <2>2. ToSet(Append(accepted, m)) = ToSet(accepted) \cup {m}
      BY <1>5, <2>1, AppendedSet
    <2>3. ToSet(Append(channel, m)) = ToSet(channel) \cup {m}
      BY <1>5, AppendedSet
    <2>4. QED BY <1>1, <2>2, <2>3
  <1>7. Queued' = Queued \cup {m} /\ Held' = Held
    BY <1>1, <1>4, <1>6 DEF Queued, Held
  <1>8. /\ ToSet(accepted) \subseteq Pieces
        /\ \A p \in ToSet(accepted) \cup ToSet(file) \cup Held : p.id \in Nat /\ p.id <= messages
        /\ done = "unsent" => \A i \in 1 .. Len(channel) : channel[i] \in Queued
    BY Shapes
  <1>9. done = "unsent" /\ Queued \subseteq ToSet(accepted)
    BY <1>1 DEF FileInv, FinishLast, Pipeline
  <1>10. CapturedIsAccepted'
    <2>1. \A p \in ToSet(accepted) : p.id # m.id
      BY <1>2, <1>3, <1>8
    <2>2. Cardinality(BytesOf(ToSet(accepted) \cup {m})) = Cardinality(BytesOf(ToSet(accepted))) + kept
      BY <1>3, <1>8, <2>1, BytesAdded
    <2>3. QED BY <1>1, <1>2, <1>6, <2>2 DEF FileInv, CapturedIsAccepted
  <1>11. Numbered'
    BY <1>1, <1>2, <1>3, <1>6, <1>8 DEF FileInv, Numbered
  <1>12. Pipeline'
    <2>1. Queued' \subseteq ToSet(accepted')
      BY <1>6, <1>7, <1>9
    <2>2. \A p \in Held' : /\ p.from < p.to
                           /\ \E q \in ToSet(accepted') : p.id = q.id /\ p.to = q.to
      BY <1>6, <1>7 DEF FileInv, Pipeline
    <2>3. \A i, k \in 1 .. Len(channel') :
            i < k => /\ channel'[i] # Finish
                     /\ channel'[k] # Finish => channel'[i].id < channel'[k].id
      <3>1. /\ Len(channel) \in Nat /\ Len(channel') = Len(channel) + 1
            /\ channel'[Len(channel) + 1] = m
            /\ \A i \in 1 .. Len(channel) : channel'[i] = channel[i]
        BY <1>1, <1>5, AppendProperties, LenProperties
      <3>2. \A i \in 1 .. Len(channel) : channel[i] # Finish /\ channel[i].id < m.id
        BY <1>2, <1>3, <1>8, <1>9 DEF Queued
      <3>3. SUFFICES ASSUME NEW i \in 1 .. Len(channel'), NEW k \in 1 .. Len(channel'), i < k
                     PROVE  /\ channel'[i] # Finish
                            /\ channel'[k] # Finish => channel'[i].id < channel'[k].id
        OBVIOUS
      <3>4. i \in 1 .. Len(channel) /\ (k \in 1 .. Len(channel) \/ k = Len(channel) + 1)
        BY <3>1, <3>3
      <3>5. CASE k = Len(channel) + 1
        BY <3>1, <3>2, <3>4, <3>5
      <3>6. CASE k \in 1 .. Len(channel)
        BY <3>1, <3>2, <3>3, <3>4, <3>6 DEF FileInv, Pipeline
      <3>7. QED BY <3>4, <3>5, <3>6
    <2>4. \A p \in ToSet(file') \cup Held', q \in Queued' : p.id < q.id
      <3>1. \A p \in ToSet(file) \cup Held : p.id < m.id
        BY <1>2, <1>3, <1>8
      <3>2. QED BY <1>1, <1>7, <3>1 DEF FileInv, Pipeline
    <2>5. \A c \in ToSet(file'), p \in Held' : Before(c, p)
      BY <1>1, <1>7 DEF FileInv, Pipeline
    <2>6. ~damaged' =>
            BytesOf(ToSet(accepted')) = BytesOf(ToSet(file') \cup Held' \cup Queued')
      <3>1. ToSet(file') \cup Held' \cup Queued' = (ToSet(file) \cup Held \cup Queued) \cup {m}
        BY <1>1, <1>7
      <3>2. /\ BytesOf(ToSet(accepted')) = BytesOf(ToSet(accepted)) \cup Bytes(m)
            /\ BytesOf((ToSet(file) \cup Held \cup Queued) \cup {m}) =
                 BytesOf(ToSet(file) \cup Held \cup Queued) \cup Bytes(m)
        BY <1>6 DEF BytesOf
      <3>3. QED BY <1>1, <3>1, <3>2 DEF FileInv, Pipeline
    <2>7. QED BY <2>1, <2>2, <2>3, <2>4, <2>5, <2>6 DEF Pipeline
  <1>13. FinishLast'
    BY <1>1, <1>4, <1>6, <1>9 DEF FileInv, FinishLast
  <1>14. FilePart'
    BY <1>1, <1>6 DEF FileInv, FilePart
  <1>15. QED BY <1>10, <1>11, <1>12, <1>13, <1>14 DEF FileInv

LEMMA ObserveFile ==
  ASSUME CountInv, FileInv, Observe
  PROVE  FileInv'
  <1>1. PICK n \in 0 .. MaxLength : OverLimit(n) \/ Accept(n) \/ Refuse(n)
    BY DEF Observe
  <1>2. messages < MaxMessages /\ messages \in Nat /\ messages' = messages + 1
    BY <1>1 DEF OverLimit, Accept, Refuse, Observed, CountInv, TypeOK
  <1>3. CASE OverLimit(n) \/ Refuse(n)
    <2>1. UNCHANGED <<captured, channel, accepted, phase, rest, diskError, file, damaged, done>>
      BY <1>3 DEF OverLimit, Refuse, Observed, disk
    <2>2. CapturedIsAccepted' /\ FinishLast' /\ FilePart'
      BY <2>1 DEF FileInv, CapturedIsAccepted, FinishLast, FilePart
    <2>3. Queued' = Queued /\ Held' = Held
      BY <2>1 DEF Queued, Held
    <2>4. Pipeline'
      BY <2>1, <2>3 DEF FileInv, Pipeline
    <2>5. Numbered'
      <3>1. \A p \in ToSet(accepted) : p.id \in Nat /\ p.id <= messages
        BY Shapes DEF CountInv
      <3>2. QED BY <1>2, <2>1, <3>1 DEF FileInv, Numbered
    <2>6. QED BY <2>2, <2>4, <2>5 DEF FileInv
  <1>4. CASE Accept(n)
    BY <1>2, <1>4, AcceptFile DEF CountInv
  <1>5. QED BY <1>1, <1>3, <1>4

-----------------------------------------------------------------------------
(* The writer. *)
LEMMA ReceiveFile ==
  ASSUME TypeOK, FileInv, Receive
  PROVE  FileInv'
  <1> DEFINE h == Head(channel)
  <1>1. /\ rest = Nothing /\ channel # <<>> /\ h # Finish
        /\ channel' = Tail(channel) /\ rest' = IF h.to = 0 THEN Nothing ELSE h
        /\ UNCHANGED <<phase, messages, captured, file, damaged, accepted, done>>
    BY DEF Receive, counters
  <1>2. channel \in Seq(Pieces \cup {Finish})
    BY DEF TypeOK
  <1>3. ToSet(channel) = {h} \cup ToSet(channel')
    BY <1>1, <1>2, TailSet
  <1>4. /\ Len(channel) \in Nat /\ Len(channel') = Len(channel) - 1 /\ Len(channel) >= 1
        /\ h = channel[1] /\ \A i \in 1 .. Len(channel') : channel'[i] = channel[i + 1]
        /\ DOMAIN channel' = 1 .. Len(channel')
    BY <1>1, <1>2, HeadTailProperties, LenProperties, EmptySeq
  <1> HIDE DEF h
  <1>5. h \in Queued /\ h \in ToSet(accepted) /\ Queued = {h} \cup Queued'
    BY <1>1, <1>3 DEF FileInv, Pipeline, Queued
  <1>6. h \in Pieces /\ h # Nothing /\ h.from = 0 /\ h.to \in Nat
    BY <1>5, Shapes, PieceFields DEF FileInv, Numbered
  <1>7. Held = {} /\ done # "answered"
    BY <1>1, Shapes
  <1>8. Held' = IF h.to = 0 THEN {} ELSE {h}
    BY <1>1, <1>6 DEF Held
  <1>9. \A q \in Queued' : h.id < q.id
    <2>1. SUFFICES ASSUME NEW q \in Queued' PROVE h.id < q.id
      OBVIOUS
    <2>2. PICK i \in 1 .. Len(channel') : q = channel'[i] /\ q # Finish
      BY <1>4 DEF Queued, ToSet
    <2>3. 1 \in 1 .. Len(channel) /\ i + 1 \in 1 .. Len(channel) /\ 1 < i + 1
          /\ q = channel[i + 1]
      BY <1>4, <2>2
    <2>4. QED BY <1>4, <2>2, <2>3 DEF FileInv, Pipeline
  <1>10. Pipeline'
    <2>1. Queued' \subseteq ToSet(accepted')
      BY <1>1, <1>5 DEF FileInv, Pipeline
    <2>2. \A p \in Held' : /\ p.from < p.to
                           /\ \E q \in ToSet(accepted') : p.id = q.id /\ p.to = q.to
      BY <1>1, <1>5, <1>6, <1>8
    <2>3. \A i, k \in 1 .. Len(channel') :
            i < k => /\ channel'[i] # Finish
                     /\ channel'[k] # Finish => channel'[i].id < channel'[k].id
      <3>1. SUFFICES ASSUME NEW i \in 1 .. Len(channel'), NEW k \in 1 .. Len(channel'), i < k
                     PROVE  /\ channel'[i] # Finish
                            /\ channel'[k] # Finish => channel'[i].id < channel'[k].id
        OBVIOUS
      <3>2. /\ i + 1 \in 1 .. Len(channel) /\ k + 1 \in 1 .. Len(channel) /\ i + 1 < k + 1
            /\ channel'[i] = channel[i + 1] /\ channel'[k] = channel[k + 1]
        BY <1>4, <3>1
      <3>3. QED BY <3>2 DEF FileInv, Pipeline
    <2>4. \A p \in ToSet(file') \cup Held', q \in Queued' : p.id < q.id
      BY <1>1, <1>5, <1>8, <1>9 DEF FileInv, Pipeline
    <2>5. \A c \in ToSet(file'), p \in Held' : Before(c, p)
      BY <1>1, <1>5, <1>8 DEF FileInv, Pipeline, Before
    <2>6. BytesOf(Held') = Bytes(h)
      <3>1. h.to = 0 => Bytes(h) = {}
        BY <1>6 DEF Bytes
      <3>2. QED BY <1>8, <3>1, BytesOfOne
    <2>7. ~damaged' =>
            BytesOf(ToSet(accepted')) = BytesOf(ToSet(file') \cup Held' \cup Queued')
      <3>1. BytesOf(Queued) = Bytes(h) \cup BytesOf(Queued')
        BY <1>5 DEF BytesOf
      <3>2. BytesOf(ToSet(file) \cup Held \cup Queued) = BytesOf(ToSet(file)) \cup BytesOf(Queued)
        BY <1>7 DEF BytesOf
      <3>3. BytesOf(ToSet(file) \cup Held' \cup Queued') =
              (BytesOf(ToSet(file)) \cup BytesOf(Held')) \cup BytesOf(Queued')
        BY DEF BytesOf
      <3>4. QED BY <1>1, <2>6, <3>1, <3>2, <3>3 DEF FileInv, Pipeline
    <2>8. QED BY <2>1, <2>2, <2>3, <2>4, <2>5, <2>7 DEF Pipeline
  <1>11. CapturedIsAccepted' /\ Numbered' /\ FilePart'
    BY <1>1 DEF FileInv, CapturedIsAccepted, Numbered, FilePart
  <1>12. FinishLast'
    BY <1>1, <1>3, <1>7 DEF FileInv, FinishLast
  <1>13. QED BY <1>10, <1>11, <1>12 DEF FileInv

(* The chunk that is written and what is left of its packet. *)
LEMMA ChunkParts ==
  ASSUME TypeOK, FileInv, rest # Nothing
  PROVE  LET c == [rest EXCEPT !.to = ChunkEnd]
         IN /\ c \in Pieces /\ c.id = rest.id /\ c.from = rest.from /\ c.to = ChunkEnd
            /\ \E p \in ToSet(accepted) : IsChunk(c, p)
            /\ AfterChunk # Nothing =>
                 /\ AfterChunk \in Pieces /\ AfterChunk.id = rest.id
                 /\ AfterChunk.from = ChunkEnd /\ AfterChunk.to = rest.to
                 /\ ChunkEnd < rest.to
            /\ rest.from < ChunkEnd
            /\ Bytes(rest) = Bytes(c) \cup BytesOf({AfterChunk} \ {Nothing})
  <1> DEFINE c == [rest EXCEPT !.to = ChunkEnd]
  <1>1. rest \in Pieces /\ Held = {rest}
    BY Shapes DEF TypeOK
  <1>2. /\ rest.from \in Nat /\ rest.to \in Nat /\ rest.to <= MaxLength
    BY <1>1, CaptureAssumption DEF Pieces
  <1>3. PICK p \in ToSet(accepted) : rest.id = p.id /\ rest.to = p.to /\ rest.from < rest.to
    BY <1>1 DEF FileInv, Pipeline
  <1>4. ChunkEnd \in Nat /\ rest.from < ChunkEnd /\ ChunkEnd <= rest.to
    BY <1>2, <1>3, CaptureAssumption DEF ChunkEnd, Least
  <1>5. c \in Pieces /\ c.id = rest.id /\ c.from = rest.from /\ c.to = ChunkEnd
    <2>1. ChunkEnd \in 0 .. MaxLength
      BY <1>2, <1>4, CaptureAssumption
    <2>2. QED BY <1>1, <2>1 DEF Pieces
  <1>6. IsChunk(c, p)
    BY <1>3, <1>4, <1>5 DEF IsChunk, ChunkEnd
  <1> HIDE DEF c
  <1>7. CASE ChunkEnd = rest.to
    <2>1. AfterChunk = Nothing /\ Bytes(rest) = Bytes(c)
      BY <1>5, <1>7 DEF AfterChunk, Bytes
    <2>2. QED BY <1>3, <1>4, <1>5, <1>6, <2>1, BytesOfOne DEF c
  <1>8. CASE ChunkEnd # rest.to
    <2>1. ChunkEnd \in 0 .. MaxLength /\ ChunkEnd < rest.to
      BY <1>2, <1>4, <1>8, CaptureAssumption
    <2>2. /\ AfterChunk \in Pieces /\ AfterChunk.id = rest.id
          /\ AfterChunk.from = ChunkEnd /\ AfterChunk.to = rest.to
      BY <1>1, <1>8, <2>1 DEF AfterChunk, Pieces
    <2>3. {AfterChunk} \ {Nothing} = {AfterChunk}
      BY <2>2, PieceFields
    <2>4. rest.from + 1 .. rest.to = (rest.from + 1 .. ChunkEnd) \cup (ChunkEnd + 1 .. rest.to)
      BY <1>2, <1>4
    <2>5. Bytes(rest) = Bytes(c) \cup Bytes(AfterChunk)
      BY <1>5, <2>2, <2>4 DEF Bytes
    <2>6. QED BY <1>3, <1>4, <1>5, <1>6, <2>1, <2>2, <2>3, <2>5, BytesOfOne DEF c
  <1>9. QED BY <1>7, <1>8

LEMMA WriteChunkFile ==
  ASSUME TypeOK, FileInv, WriteChunk
  PROVE  FileInv'
  <1> DEFINE c == [rest EXCEPT !.to = ChunkEnd]
  <1>1. /\ rest # Nothing /\ file' = Append(file, c) /\ rest' = AfterChunk
        /\ UNCHANGED <<phase, messages, captured, channel, damaged, accepted, done>>
    BY DEF WriteChunk, counters
  <1>2. /\ c \in Pieces /\ c.id = rest.id /\ c.from = rest.from /\ c.to = ChunkEnd
        /\ \E p \in ToSet(accepted) : IsChunk(c, p)
        /\ AfterChunk # Nothing =>
             /\ AfterChunk \in Pieces /\ AfterChunk.id = rest.id
             /\ AfterChunk.from = ChunkEnd /\ AfterChunk.to = rest.to
             /\ ChunkEnd < rest.to
        /\ rest.from < ChunkEnd
        /\ Bytes(rest) = Bytes(c) \cup BytesOf({AfterChunk} \ {Nothing})
    BY <1>1, ChunkParts
  <1> HIDE DEF c
  <1>3. Held = {rest} /\ Held' = {AfterChunk} \ {Nothing} /\ Queued' = Queued /\ done # "answered"
    BY <1>1, Shapes DEF Held, Queued
  <1>4. file \in Seq(Pieces) /\ rest \in Pieces
    BY <1>1 DEF TypeOK
  <1>5. ToSet(file') = ToSet(file) \cup {c}
    BY <1>1, <1>2, <1>4, AppendedSet
  <1>6. /\ rest.id \in Nat /\ rest.from \in Nat /\ ChunkEnd \in Nat
        /\ \A f \in ToSet(file) : f.id \in Nat /\ f.to \in Nat
    <2>1. ToSet(file) \subseteq Pieces
      BY Shapes
    <2>2. QED BY <1>2, <1>4, <2>1, PieceFields
  <1>7. /\ \A f \in ToSet(file) : Before(f, c)
        /\ \A p \in Held', f \in ToSet(file') : Before(f, p)
    <2>1. \A f \in ToSet(file) : Before(f, rest)
      BY <1>3 DEF FileInv, Pipeline
    <2>2. \A f \in ToSet(file) : Before(f, c)
      BY <1>2, <2>1 DEF Before
    <2>3. \A p \in Held', f \in ToSet(file) : Before(f, p)
      BY <1>2, <1>3, <1>6, <2>1 DEF Before
    <2>4. \A p \in Held' : Before(c, p)
      BY <1>2, <1>3, <1>6 DEF Before
    <2>5. QED BY <1>5, <2>2, <2>3, <2>4
  <1>8. FilePart'
    <2>1. \A f \in ToSet(file') : \E p \in ToSet(accepted') : IsChunk(f, p)
      BY <1>1, <1>2, <1>5 DEF FileInv, FilePart
    <2>2. /\ Len(file) \in Nat /\ Len(file') = Len(file) + 1 /\ file'[Len(file) + 1] = c
          /\ \A i \in 1 .. Len(file) : file'[i] = file[i] /\ file[i] \in ToSet(file)
      BY <1>1, <1>2, <1>4, AppendProperties, LenProperties DEF ToSet
    <2>3. ASSUME NEW i \in 1 .. Len(file'), NEW k \in 1 .. Len(file'), i < k
          PROVE  Before(file'[i], file'[k])
      <3>1. i \in 1 .. Len(file) /\ (k \in 1 .. Len(file) \/ k = Len(file) + 1)
        BY <2>2, <2>3
      <3>2. CASE k = Len(file) + 1
        BY <1>7, <2>2, <3>1, <3>2
      <3>3. CASE k \in 1 .. Len(file)
        BY <2>2, <2>3, <3>1, <3>3 DEF FileInv, FilePart
      <3>4. QED BY <3>1, <3>2, <3>3
    <2>4. QED BY <2>1, <2>3 DEF FilePart
  <1>9. Pipeline'
    <2>1. Queued' \subseteq ToSet(accepted')
      BY <1>1, <1>3 DEF FileInv, Pipeline
    <2>2. \A p \in Held' : /\ p.from < p.to
                           /\ \E q \in ToSet(accepted') : p.id = q.id /\ p.to = q.to
      <3>1. \E q \in ToSet(accepted) : rest.id = q.id /\ rest.to = q.to
        BY <1>3 DEF FileInv, Pipeline
      <3>2. QED BY <1>1, <1>2, <1>3, <3>1
    <2>3. \A i, k \in 1 .. Len(channel') :
            i < k => /\ channel'[i] # Finish
                     /\ channel'[k] # Finish => channel'[i].id < channel'[k].id
      BY <1>1 DEF FileInv, Pipeline
    <2>4. \A p \in ToSet(file') \cup Held', q \in Queued' : p.id < q.id
      <3>1. \A p \in ToSet(file) \cup {rest}, q \in Queued : p.id < q.id
        BY <1>3 DEF FileInv, Pipeline
      <3>2. QED BY <1>2, <1>3, <1>5, <3>1
    <2>5. ~damaged' =>
            BytesOf(ToSet(accepted')) = BytesOf(ToSet(file') \cup Held' \cup Queued')
      <3>1. BytesOf(ToSet(file) \cup Held \cup Queued) =
              (BytesOf(ToSet(file)) \cup Bytes(rest)) \cup BytesOf(Queued)
        BY <1>3 DEF BytesOf
      <3>2. BytesOf(ToSet(file') \cup Held' \cup Queued') =
              ((BytesOf(ToSet(file)) \cup Bytes(c)) \cup BytesOf(Held')) \cup BytesOf(Queued)
        BY <1>3, <1>5 DEF BytesOf
      <3>3. Bytes(rest) = Bytes(c) \cup BytesOf(Held')
        BY <1>2, <1>3
      <3>4. QED BY <1>1, <3>1, <3>2, <3>3 DEF FileInv, Pipeline
    <2>6. QED BY <2>1, <2>2, <2>3, <2>4, <1>7, <2>5 DEF Pipeline
  <1>10. CapturedIsAccepted' /\ Numbered'
    BY <1>1 DEF FileInv, CapturedIsAccepted, Numbered
  <1>11. FinishLast'
    BY <1>1, <1>3 DEF FileInv, FinishLast
  <1>12. QED BY <1>8, <1>9, <1>10, <1>11 DEF FileInv

(* A failed write damages the file; what is left keeps its place. *)
LEMMA FailChunkFile ==
  ASSUME TypeOK, FileInv, FailChunk
  PROVE  FileInv'
  <1>1. /\ rest # Nothing /\ damaged' = TRUE /\ rest' \in {Nothing, AfterChunk}
        /\ UNCHANGED <<phase, messages, captured, channel, file, accepted, done>>
    BY DEF FailChunk, counters
  <1>2. /\ AfterChunk # Nothing =>
             /\ AfterChunk \in Pieces /\ AfterChunk.id = rest.id
             /\ AfterChunk.from = ChunkEnd /\ AfterChunk.to = rest.to
             /\ ChunkEnd < rest.to
        /\ rest.from < ChunkEnd
    BY <1>1, ChunkParts
  <1>3. /\ Held = {rest} /\ Held' \subseteq {AfterChunk} \ {Nothing}
        /\ Queued' = Queued /\ done # "answered"
    BY <1>1, Shapes DEF Held, Queued
  <1>4. /\ rest.from \in Nat /\ rest.to \in Nat
        /\ \A f \in ToSet(file) : f.to \in Nat
    <2>1. ToSet(file) \subseteq Pieces /\ rest \in Pieces
      BY <1>1, Shapes DEF TypeOK
    <2>2. QED BY <2>1, PieceFields
  <1>5. ChunkEnd \in Nat
    BY <1>4, CaptureAssumption DEF ChunkEnd, Least
  <1>6. Pipeline'
    <2>1. Queued' \subseteq ToSet(accepted')
      BY <1>1, <1>3 DEF FileInv, Pipeline
    <2>2. \A p \in Held' : /\ p.from < p.to
                           /\ \E q \in ToSet(accepted') : p.id = q.id /\ p.to = q.to
      <3>1. \E q \in ToSet(accepted) : rest.id = q.id /\ rest.to = q.to
        BY <1>3 DEF FileInv, Pipeline
      <3>2. QED BY <1>1, <1>2, <1>3, <3>1
    <2>3. \A i, k \in 1 .. Len(channel') :
            i < k => /\ channel'[i] # Finish
                     /\ channel'[k] # Finish => channel'[i].id < channel'[k].id
      BY <1>1 DEF FileInv, Pipeline
    <2>4. \A p \in ToSet(file') \cup Held', q \in Queued' : p.id < q.id
      <3>1. \A p \in ToSet(file) \cup {rest}, q \in Queued : p.id < q.id
        BY <1>3 DEF FileInv, Pipeline
      <3>2. QED BY <1>1, <1>2, <1>3, <3>1
    <2>5. \A c \in ToSet(file'), p \in Held' : Before(c, p)
      <3>1. \A f \in ToSet(file) : Before(f, rest)
        BY <1>3 DEF FileInv, Pipeline
      <3>2. QED BY <1>1, <1>2, <1>3, <1>4, <1>5, <3>1 DEF Before
    <2>6. QED BY <1>1, <2>1, <2>2, <2>3, <2>4, <2>5 DEF Pipeline
  <1>7. CapturedIsAccepted' /\ Numbered' /\ FilePart'
    BY <1>1 DEF FileInv, CapturedIsAccepted, Numbered, FilePart
  <1>8. FinishLast'
    BY <1>1, <1>3 DEF FileInv, FinishLast
  <1>9. QED BY <1>6, <1>7, <1>8 DEF FileInv

LEMMA AnswerFile ==
  ASSUME TypeOK, FileInv, Answer
  PROVE  FileInv'
  <1>1. /\ rest = Nothing /\ channel # <<>> /\ Head(channel) = Finish
        /\ channel' = Tail(channel) /\ done' = "answered"
        /\ UNCHANGED <<phase, messages, captured, rest, file, damaged, accepted>>
    BY DEF Answer, counters
  <1>2. /\ Len(channel) \in Nat /\ Len(channel) >= 1 /\ channel[1] = Finish
        /\ channel' \in Seq(Pieces \cup {Finish}) /\ Len(channel') = Len(channel) - 1
    BY <1>1, HeadTailProperties, LenProperties, EmptySeq DEF TypeOK
  <1>3. Len(channel) = 1
    BY <1>2 DEF FileInv, Pipeline
  <1>4. channel' = <<>>
    BY <1>2, <1>3, EmptySeq
  <1>5. ToSet(channel) = {Finish} \cup ToSet(channel')
    BY <1>1, TailSet DEF TypeOK
  <1>6. Len(<<>>) = 0 /\ ToSet(<<>>) = {}
    BY EmptySeq DEF ToSet
  <1>7. Queued' = Queued /\ Held' = Held
    BY <1>1, <1>4, <1>5, <1>6 DEF Queued, Held
  <1>8. Pipeline'
    BY <1>1, <1>4, <1>6, <1>7 DEF FileInv, Pipeline
  <1>9. CapturedIsAccepted' /\ Numbered' /\ FilePart'
    BY <1>1 DEF FileInv, CapturedIsAccepted, Numbered, FilePart
  <1>10. FinishLast'
    <2>1. Finish \in ToSet(channel)
      BY <1>5
    <2>2. done = "pending"
      BY <2>1 DEF FileInv, FinishLast
    <2>3. QED BY <1>1, <1>4, <1>6, <2>2 DEF FileInv, FinishLast
  <1>11. QED BY <1>8, <1>9, <1>10 DEF FileInv

-----------------------------------------------------------------------------
(* The connection's task. *)
LEMMA SendFinishFile ==
  ASSUME TypeOK, FileInv, SendFinish
  PROVE  FileInv'
  <1>1. /\ phase = "finishing" /\ phase' = "waiting" /\ done' = "pending"
        /\ channel' = Append(channel, Finish)
        /\ UNCHANGED <<messages, captured, rest, file, damaged, accepted>>
    BY DEF SendFinish, counters, disk
  <1>2. channel \in Seq(Pieces \cup {Finish}) /\ Finish \in Pieces \cup {Finish}
    BY DEF TypeOK
  <1>3. ToSet(channel') = ToSet(channel) \cup {Finish}
    BY <1>1, <1>2, AppendedSet
  <1>4. Queued' = Queued /\ Held' = Held /\ done = "unsent"
    BY <1>1, <1>3 DEF Queued, Held, FileInv, FinishLast
  <1>5. \A i, k \in 1 .. Len(channel') :
          i < k => /\ channel'[i] # Finish
                   /\ channel'[k] # Finish => channel'[i].id < channel'[k].id
    <2>1. /\ Len(channel) \in Nat /\ Len(channel') = Len(channel) + 1
          /\ channel'[Len(channel) + 1] = Finish
          /\ \A i \in 1 .. Len(channel) : channel'[i] = channel[i]
      BY <1>1, <1>2, AppendProperties, LenProperties
    <2>2. \A i \in 1 .. Len(channel) : channel[i] # Finish
      BY <1>4, Shapes DEF Queued
    <2>3. SUFFICES ASSUME NEW i \in 1 .. Len(channel'), NEW k \in 1 .. Len(channel'), i < k
                   PROVE  /\ channel'[i] # Finish
                          /\ channel'[k] # Finish => channel'[i].id < channel'[k].id
      OBVIOUS
    <2>4. i \in 1 .. Len(channel) /\ (k \in 1 .. Len(channel) \/ k = Len(channel) + 1)
      BY <2>1, <2>3
    <2>5. QED BY <2>1, <2>2, <2>3, <2>4 DEF FileInv, Pipeline
  <1>6. Pipeline'
    BY <1>1, <1>4, <1>5 DEF FileInv, Pipeline
  <1>7. CapturedIsAccepted' /\ Numbered' /\ FilePart'
    BY <1>1 DEF FileInv, CapturedIsAccepted, Numbered, FilePart
  <1>8. FinishLast'
    BY <1>1 DEF FinishLast
  <1>9. QED BY <1>6, <1>7, <1>8 DEF FileInv

LEMMA TaskFile ==
  ASSUME TypeOK, FileInv, Start \/ ProxyReturns \/ Audit
  PROVE  FileInv'
  <1>1. UNCHANGED <<messages, captured, channel, rest, file, damaged, accepted, done>>
    BY DEF Start, ProxyReturns, Audit, counters, disk
  <1>2. Queued' = Queued /\ Held' = Held
    BY <1>1 DEF Queued, Held
  <1>3. Pipeline'
    BY <1>1, <1>2 DEF FileInv, Pipeline
  <1>4. CapturedIsAccepted' /\ Numbered' /\ FilePart'
    BY <1>1 DEF FileInv, CapturedIsAccepted, Numbered, FilePart
  <1>5. FinishLast'
    <2>1. CASE Start \/ ProxyReturns
      BY <1>1, <2>1 DEF Start, ProxyReturns, FileInv, FinishLast
    <2>2. CASE Audit
      BY <1>1, <2>2 DEF Audit, FileInv, FinishLast, TypeOK
    <2>3. QED BY <2>1, <2>2
  <1>6. QED BY <1>3, <1>4, <1>5 DEF FileInv

LEMMA FileNext == CountInv /\ FileInv /\ [Next]_vars => FileInv'
  <1> SUFFICES ASSUME CountInv, FileInv, [Next]_vars PROVE FileInv'
    OBVIOUS
  <1>1. CASE UNCHANGED vars
    <2>1. Queued' = Queued /\ Held' = Held
      BY <1>1 DEF Queued, Held, vars, disk
    <2>2. Pipeline'
      BY <1>1, <2>1 DEF FileInv, Pipeline, vars, disk
    <2>3. QED BY <1>1, <2>2 DEF FileInv, CapturedIsAccepted, Numbered, FilePart, FinishLast,
                                vars, counters, disk
  <1>2. CASE Writer
    BY <1>2, ReceiveFile, WriteChunkFile, FailChunkFile, AnswerFile DEF Writer, CountInv
  <1>3. CASE Observe
    BY <1>3, ObserveFile
  <1>4. CASE Start \/ ProxyReturns \/ SendFinish \/ Audit
    BY <1>4, TaskFile, SendFinishFile DEF CountInv
  <1>5. QED BY <1>1, <1>2, <1>3, <1>4 DEF Next

-----------------------------------------------------------------------------
LEMMA Invariance == Spec => []IInv
  <1>1. Init => CountInv /\ FileInv
    BY CountInit, FileInit
  <1>2. CountInv /\ FileInv /\ [Next]_vars => (CountInv /\ FileInv)'
    BY CountNext, FileNext
  <1>3. CountInv /\ FileInv => IInv
    BY WholeAtAudit DEF CountInv, FileInv, IInv
  <1>4. QED BY <1>1, <1>2, <1>3, PTL DEF Spec

-----------------------------------------------------------------------------
(* The state of the observer, the channel and the writer is well typed. *)
THEOREM TypeCorrect == Spec => []TypeOK
  <1>1. IInv => TypeOK
    BY DEF IInv
  <1>2. QED BY <1>1, Invariance, PTL

(* No message is lost to the limit or to a full channel without the record   *)
(* saying truncated, for any limit and any capacity (capture.rs:33-63).      *)
THEOREM TruncationIsTold == Spec => []TruncationTold
  <1>1. IInv => TruncationTold
    BY DEF IInv
  <1>2. QED BY <1>1, Invariance, PTL

(* The audit's captured bytes are the bytes the channel took, refused        *)
(* packets taken back, for any limit and any capacity (capture.rs:33-63).    *)
THEOREM CapturedExact == Spec => []CapturedIsAccepted
  <1>1. IInv => CapturedIsAccepted
    BY DEF IInv
  <1>2. QED BY <1>1, Invariance, PTL

(* The file holds chunks of accepted messages in order, none twice, and all  *)
(* of them when the audit record is written, unless the disk failed, for any *)
(* packet size (capture.rs:98-110, 127-151).                                 *)
THEOREM FileIsWhole == Spec => []AuditFindsWholeFile
  <1>1. IInv => AuditFindsWholeFile
    BY DEF IInv
  <1>2. QED BY <1>1, Invariance, PTL

(* main.rs:76: "Maximum captured payload bytes per connection." *)
THEOREM CapturedWithinLimit == Spec => [](captured <= MaxBytes)
  <1>1. IInv => captured <= MaxBytes
    BY DEF IInv, CapturedIsAccepted
  <1>2. QED BY <1>1, Invariance, PTL
-----------------------------------------------------------------------------
(* The files of the gateway.  First, the lines of an audit file: the older    *)
(* file keeps what it has, and so does the newer one when a line is added.    *)
LEMMA KeepsParts ==
  ASSUME NEW s, NEW w, NEW n, NEW m, n <= m,
         \A i \in 1..Len(s), j \in 1..Len(w) : s[i] = {w[j]} => j \in (n + 1)..m,
         \A j \in (n + 1)..m : \E i \in 1..Len(s) : s[i] = {w[j]},
         \A h, i \in 1..Len(s), j, k \in 1..Len(w) : s[h] = {w[j]} /\ s[i] = {w[k]} /\ h < i => j < k
  PROVE  Keeps(s, w, n, m)
  BY DEF Keeps

LEMMA KeepsOlder ==
  ASSUME NEW s \in Seq(SUBSET Conns), NEW w \in Seq(Conns), NEW n \in Nat, NEW m \in Nat,
         m <= Len(w), Keeps(s, w, n, m), NEW c \in Conns, ~Mentions(s, w, c)
  PROVE  Keeps(s, Append(w, c), n, m)
  <1> DEFINE v == Append(w, c)
  <1>1. /\ Len(w) \in Nat /\ Len(v) = Len(w) + 1 /\ v[Len(w) + 1] = c
        /\ \A j \in 1..Len(w) : v[j] = w[j]
    OBVIOUS
  <1> HIDE DEF v
  <1>2. \A i \in 1..Len(s) : s[i] # {c}
    BY DEF Mentions
  <1>3. \A i \in 1..Len(s), j \in 1..Len(v) : s[i] = {v[j]} => j \in 1..Len(w) /\ v[j] = w[j]
    BY <1>1, <1>2
  <1>4. \A j \in (n + 1)..m : j \in 1..Len(w) /\ v[j] = w[j]
    BY <1>1
  <1>5. Keeps(s, v, n, m)
    BY <1>3, <1>4 DEF Keeps
  <1>6. QED BY <1>5 DEF v

LEMMA KeepsWritten ==
  ASSUME NEW s \in Seq(SUBSET Conns), NEW w \in Seq(Conns), NEW n \in Nat,
         Keeps(s, w, n, Len(w)), NEW c \in Conns, ~Mentions(s, w, c)
  PROVE  Keeps(Append(s, {c}), Append(w, c), n, Len(w) + 1)
  <1> DEFINE v == Append(w, c)
             t == Append(s, {c})
             e == Len(s) + 1
             f == Len(w) + 1
  <1>1. /\ Len(w) \in Nat /\ Len(v) = f /\ v[f] = c
        /\ \A j \in 1..Len(w) : v[j] = w[j]
    OBVIOUS
  <1>2. /\ Len(s) \in Nat /\ Len(t) = e /\ t[e] = {c}
        /\ \A i \in 1..Len(s) : t[i] = s[i]
    OBVIOUS
  <1> HIDE DEF v, t
  <1>3. \A i \in 1..Len(s) : s[i] # {c}
    BY DEF Mentions
  <1>4. \A j \in 1..Len(w) : w[j] # c
    BY DEF Mentions
  <1>5. n <= Len(w)
    BY DEF Keeps
  <1>6. ASSUME NEW i \in 1..Len(t), NEW j \in 1..Len(v), t[i] = {v[j]}
        PROVE  \/ i = e /\ j = f
               \/ i \in 1..Len(s) /\ j \in 1..Len(w) /\ s[i] = {w[j]}
    <2>1. CASE i = e
      <3>1. v[j] = c
        BY <1>2, <1>6, <2>1
      <3>2. QED BY <1>1, <1>4, <2>1, <3>1
    <2>2. CASE i \in 1..Len(s)
      <3>1. s[i] = {v[j]} /\ v[j] # c
        BY <1>2, <1>3, <1>6, <2>2
      <3>2. j \in 1..Len(w)
        BY <1>1, <3>1
      <3>3. QED BY <1>1, <2>2, <3>1, <3>2
    <2>3. QED BY <1>2, <2>1, <2>2
  <1>7. ASSUME NEW i \in 1..Len(t), NEW j \in 1..Len(v), t[i] = {v[j]}
        PROVE  j \in (n + 1)..f
    BY <1>1, <1>5, <1>6, <1>7 DEF Keeps
  <1>8. ASSUME NEW j \in (n + 1)..f PROVE \E i \in 1..Len(t) : t[i] = {v[j]}
    <2>1. CASE j = f
      BY <1>1, <1>2, <2>1
    <2>2. CASE j \in (n + 1)..Len(w)
      <3>1. PICK i \in 1..Len(s) : s[i] = {w[j]}
        BY <2>2 DEF Keeps
      <3>2. i \in 1..Len(t) /\ t[i] = s[i] /\ v[j] = w[j]
        BY <1>1, <1>2, <2>2
      <3>3. QED BY <3>1, <3>2
    <2>3. j = f \/ j \in (n + 1)..Len(w)
      BY <1>1
    <2>4. QED BY <2>1, <2>2, <2>3
  <1>9. ASSUME NEW h \in 1..Len(t), NEW i \in 1..Len(t), NEW j \in 1..Len(v), NEW k \in 1..Len(v),
               t[h] = {v[j]}, t[i] = {v[k]}, h < i
        PROVE  j < k
    <2>1. h \in 1..Len(s) /\ j \in 1..Len(w) /\ s[h] = {w[j]}
      <3>1. h # e
        BY <1>2, <1>9
      <3>2. QED BY <1>6, <1>9, <3>1
    <2>2. CASE k = f
      BY <1>1, <2>1, <2>2
    <2>3. CASE i \in 1..Len(s) /\ k \in 1..Len(w) /\ s[i] = {w[k]}
      BY <1>9, <2>1, <2>3 DEF Keeps
    <2>4. QED BY <1>6, <1>9, <2>2, <2>3
  <1>10. n <= f
    BY <1>1, <1>5
  <1>11. Keeps(t, v, n, f)
    BY <1>7, <1>8, <1>9, <1>10, KeepsParts
  <1>12. QED BY <1>11 DEF t, v

(* A line that is nobody's own, at the end or in place of another one. *)
LEMMA KeepsTorn ==
  ASSUME NEW s \in Seq(SUBSET Conns), NEW w \in Seq(Conns), NEW n \in Nat, NEW m \in Nat,
         m <= Len(w), Keeps(s, w, n, m), NEW x \in SUBSET Conns, \A j \in 1..Len(w) : x # {w[j]}
  PROVE  Keeps(Append(s, x), w, n, m)
  <1> DEFINE t == Append(s, x)
  <1>1. /\ Len(s) \in Nat /\ Len(t) = Len(s) + 1 /\ t[Len(s) + 1] = x
        /\ \A i \in 1..Len(s) : t[i] = s[i]
    OBVIOUS
  <1> HIDE DEF t
  <1>2. \A i \in 1..Len(t), j \in 1..Len(w) : t[i] = {w[j]} => i \in 1..Len(s) /\ t[i] = s[i]
    BY <1>1
  <1>3. \A i \in 1..Len(s) : i \in 1..Len(t) /\ t[i] = s[i]
    BY <1>1
  <1>4. Keeps(t, w, n, m)
    <2>1. ASSUME NEW j \in (n + 1)..m PROVE \E i \in 1..Len(t) : t[i] = {w[j]}
      <3>1. PICK i \in 1..Len(s) : s[i] = {w[j]}
        BY DEF Keeps
      <3>2. QED BY <1>3, <3>1
    <2>2. \A i \in 1..Len(t), j \in 1..Len(w) : t[i] = {w[j]} => j \in (n + 1)..m
      BY <1>2 DEF Keeps
    <2>3. ASSUME NEW h \in 1..Len(t), NEW i \in 1..Len(t), NEW j \in 1..Len(w), NEW k \in 1..Len(w),
                 t[h] = {w[j]}, t[i] = {w[k]}, h < i
          PROVE  j < k
      <3>1. h \in 1..Len(s) /\ i \in 1..Len(s) /\ s[h] = {w[j]} /\ s[i] = {w[k]}
        BY <1>2, <2>3
      <3>2. QED BY <2>3, <3>1 DEF Keeps
    <2>4. n <= m
      BY DEF Keeps
    <2>5. QED BY <2>1, <2>2, <2>3, <2>4, KeepsParts
  <1>5. QED BY <1>4 DEF t

LEMMA KeepsMerged ==
  ASSUME NEW s \in Seq(SUBSET Conns), s # <<>>, NEW w \in Seq(Conns), NEW n \in Nat, NEW m \in Nat,
         m <= Len(w), Keeps(s, w, n, m), NEW x \in SUBSET Conns,
         \A j \in 1..Len(w) : x # {w[j]} /\ s[Len(s)] # {w[j]}
  PROVE  Keeps([s EXCEPT ![Len(s)] = x], w, n, m)
  <1> DEFINE t == [s EXCEPT ![Len(s)] = x]
  <1>1. /\ Len(s) \in 1..Len(s) /\ Len(t) = Len(s) /\ t[Len(s)] = x
        /\ \A i \in 1..Len(s) : i # Len(s) => t[i] = s[i]
    OBVIOUS
  <1> HIDE DEF t
  <1>2. \A i \in 1..Len(t), j \in 1..Len(w) : t[i] = {w[j]} => i \in 1..Len(s) /\ t[i] = s[i]
    BY <1>1
  <1>3. \A i \in 1..Len(s), j \in 1..Len(w) : s[i] = {w[j]} => i \in 1..Len(t) /\ t[i] = s[i]
    BY <1>1
  <1>4. Keeps(t, w, n, m)
    <2>1. ASSUME NEW j \in (n + 1)..m PROVE \E i \in 1..Len(t) : t[i] = {w[j]}
      <3>1. PICK i \in 1..Len(s) : s[i] = {w[j]}
        BY DEF Keeps
      <3>2. j \in 1..Len(w)
        OBVIOUS
      <3>3. QED BY <1>3, <3>1, <3>2
    <2>2. \A i \in 1..Len(t), j \in 1..Len(w) : t[i] = {w[j]} => j \in (n + 1)..m
      BY <1>2 DEF Keeps
    <2>3. ASSUME NEW h \in 1..Len(t), NEW i \in 1..Len(t), NEW j \in 1..Len(w), NEW k \in 1..Len(w),
                 t[h] = {w[j]}, t[i] = {w[k]}, h < i
          PROVE  j < k
      <3>1. h \in 1..Len(s) /\ i \in 1..Len(s) /\ s[h] = {w[j]} /\ s[i] = {w[k]}
        BY <1>2, <2>3
      <3>2. QED BY <2>3, <3>1 DEF Keeps
    <2>4. n <= m
      BY DEF Keeps
    <2>5. QED BY <2>1, <2>2, <2>3, <2>4, KeepsParts
  <1>5. QED BY <1>4 DEF t

LEMMA KeepsNothing ==
  ASSUME NEW w \in Seq(Conns), NEW n \in Nat
  PROVE  Keeps(<<>>, w, n, n)
  BY DEF Keeps

(* What a connection does outside the audit file, and what gives up the lock. *)
LEMMA OnlyMoves ==
  ASSUME FilesInv, UNCHANGED auditFiles, NEW c \in Conns, pc[c] # "done",
         NEW to \in {"off", "open", "audit", "done"}, Goto(c, to)
  PROVE  FilesInv'
  <1>1. /\ pc' \in [Conns -> {"off", "open", "audit", "done"} \cup Locking]
        /\ \A d \in Conns : pc'[d] # "done" => pc[d] # "done"
        /\ \A d \in Conns : pc'[d] \in Locking => pc[d] = pc'[d]
    BY DEF FilesInv, FilesTyped, Goto, Locking
  <1>2. audit' = audit /\ rotated' = rotated /\ written' = written
    BY DEF auditFiles
  <1>3. FilesTyped'
    BY <1>1, <1>2 DEF FilesInv, FilesTyped
  <1>4. RotatesFull'
    BY <1>1, <1>2 DEF FilesInv, RotatesFull
  <1>5. DoneMentioned'
    BY <1>1, <1>2 DEF FilesInv, DoneMentioned
  <1>6. TornNotOwn'
    BY <1>2 DEF FilesInv, TornNotOwn
  <1>7. AuditKept'
    BY <1>2 DEF FilesInv, AuditKept
  <1>8. QED BY <1>3, <1>4, <1>5, <1>6, <1>7 DEF FilesInv

LEMMA LockKept ==
  ASSUME FilesInv, NEW c \in Conns, LockAudit(c)
  PROVE  FilesInv'
  <1>1. /\ audit' = audit /\ rotated' = rotated /\ written' = written
        /\ pc[c] = "audit" /\ ~Locked
        /\ \/ Len(audit.lines) >= RotateAt /\ pc' = [pc EXCEPT ![c] = "remove rotated"]
           \/ pc' = [pc EXCEPT ![c] = "append"]
    BY DEF LockAudit, auditFiles, Goto
  <1>2. /\ pc' \in [Conns -> {"off", "open", "audit", "done"} \cup Locking]
        /\ \A d \in Conns : pc'[d] # "done" => pc[d] # "done"
        /\ \A d \in Conns : pc'[d] \in Locking => d = c
        /\ pc'[c] = "append" \/ Len(audit.lines) >= RotateAt
    BY <1>1 DEF FilesInv, FilesTyped, Locked, Locking
  <1>3. FilesTyped'
    BY <1>1, <1>2 DEF FilesInv, FilesTyped
  <1>4. RotatesFull'
    BY <1>1, <1>2 DEF RotatesFull
  <1>5. DoneMentioned'
    BY <1>1, <1>2 DEF FilesInv, DoneMentioned
  <1>6. TornNotOwn'
    BY <1>1 DEF FilesInv, TornNotOwn
  <1>7. AuditKept'
    BY <1>1 DEF FilesInv, AuditKept
  <1>8. QED BY <1>3, <1>4, <1>5, <1>6, <1>7 DEF FilesInv

(* The two steps of a rotation: what is lost then is what was in the older   *)
(* file, and the newer one is full.                                          *)
LEMMA RotationKept ==
  ASSUME FilesInv, NEW c \in Conns, RemoveRotated(c) \/ Rename(c)
  PROVE  FilesInv'
  <1>1. /\ written' = written /\ pc[c] \in {"remove rotated", "rename"}
        /\ pc' = [pc EXCEPT ![c] = "rename"] \/ pc' = [pc EXCEPT ![c] = "append"]
    BY DEF RemoveRotated, Rename, Goto
  <1>2. \/ audit' = audit /\ rotated' \in {NoFile, rotated}
        \/ audit' = Empty /\ rotated' = audit /\ pc' = [pc EXCEPT ![c] = "append"]
    BY DEF RemoveRotated, Rename, Goto
  <1>3. /\ pc' \in [Conns -> {"off", "open", "audit", "done"} \cup Locking]
        /\ \A d \in Conns : pc'[d] # "done" => pc[d] # "done"
        /\ \A d \in Conns : pc'[d] \in Locking => d = c /\ pc[d] \in Locking
    BY <1>1 DEF FilesInv, FilesTyped, Locking, RotatesFull
  <1>4. Len(audit.lines) >= RotateAt
    BY <1>1 DEF FilesInv, RotatesFull, Locking
  <1>5. /\ Empty \in AuditFiles /\ Empty.lines = <<>> /\ Empty.ended /\ Lines(NoFile) = <<>>
        /\ audit \in AuditFiles /\ audit # NoFile /\ Lines(audit) = audit.lines
        /\ audit.lines \in Seq(SUBSET Conns) /\ written \in Seq(Conns)
    BY NoFileAssumption DEF FilesInv, FilesTyped, AuditFiles, Empty, Lines
  <1>6. FilesTyped'
    BY <1>1, <1>2, <1>3, <1>5 DEF FilesInv, FilesTyped
  <1>7. RotatesFull'
    <2>1. pc'[c] = "append" \/ audit' = audit
      BY <1>1, <1>2 DEF FilesInv, FilesTyped
    <2>2. QED BY <1>3, <1>4, <2>1 DEF RotatesFull
  <1>8. DoneMentioned'
    <2>1. \A d \in Conns : ~Mentions(<<>>, written, d) \/ Mentions(audit.lines, written, d)
      BY DEF Mentions
    <2>2. \A d \in Conns : pc[d] # "done" => /\ ~Mentions(Lines(rotated), written, d)
                                             /\ ~Mentions(audit.lines, written, d)
                                             /\ ~Mentions(<<>>, written, d)
      BY <2>1 DEF FilesInv, DoneMentioned
    <2>3. QED BY <1>1, <1>2, <1>3, <1>5, <2>2 DEF DoneMentioned
  <1>9. TornNotOwn'
    BY <1>1, <1>2, <1>5 DEF FilesInv, TornNotOwn
  <1>10. AuditKept'
    <2>1. PICK lost \in 0..Len(written), mid \in 0..Len(written) :
            /\ Keeps(Lines(rotated), written, lost, mid)
            /\ Keeps(audit.lines, written, mid, Len(written))
            /\ lost > 0 => Len(Lines(rotated)) + Len(audit.lines) >= RotateAt
      BY DEF FilesInv, AuditKept
    <2>2. /\ Len(written) \in 0..Len(written)
          /\ Keeps(<<>>, written, mid, mid) /\ Keeps(<<>>, written, Len(written), Len(written))
          /\ 0 + Len(audit.lines) >= RotateAt /\ Len(audit.lines) + 0 >= RotateAt /\ Len(<<>>) = 0
      BY <1>4, <1>5, KeepsNothing, FilesAssumption
    <2>3. CASE audit' = audit /\ rotated' = rotated
      BY <1>1, <2>1, <2>3 DEF AuditKept
    <2>4. CASE audit' = audit /\ rotated' = NoFile
      <3>1. Lines(rotated)' = <<>>
        BY <1>5, <2>4
      <3>2. /\ Keeps(Lines(rotated)', written', mid, mid)
            /\ Keeps(audit.lines', written', mid, Len(written)')
            /\ Len(Lines(rotated)') + Len(audit.lines') >= RotateAt
        BY <1>1, <2>1, <2>2, <2>4, <3>1
      <3>3. QED BY <1>1, <3>2 DEF AuditKept
    <2>5. CASE audit' = Empty /\ rotated' = audit
      <3>1. Lines(rotated)' = audit.lines /\ audit.lines' = <<>>
        BY <1>5, <2>5
      <3>2. /\ Keeps(Lines(rotated)', written', mid, Len(written)')
            /\ Keeps(audit.lines', written', Len(written)', Len(written)')
            /\ Len(Lines(rotated)') + Len(audit.lines') >= RotateAt
        BY <1>1, <2>1, <2>2, <3>1
      <3>3. QED BY <1>1, <2>2, <3>2 DEF AuditKept
    <2>6. QED BY <1>2, <2>3, <2>4, <2>5
  <1>11. QED BY <1>6, <1>7, <1>8, <1>9, <1>10 DEF FilesInv

(* A line, whole or torn, on a line of its own or behind a torn one. *)
LEMMA LineKept ==
  ASSUME FilesInv, NEW c \in Conns, AppendLine(c) \/ TearLine(c)
  PROVE  FilesInv'
  <1> DEFINE old == audit.lines
             new == audit'.lines
             last == old[Len(old)]
             older == Lines(rotated)
  <1>1. /\ pc[c] = "append" /\ pc' = [pc EXCEPT ![c] = "done"] /\ rotated' = rotated
        /\ audit' = With(c, audit'.ended) /\ audit'.ended \in BOOLEAN
        /\ audit.ended /\ audit'.ended => written' = Append(written, c)
        /\ ~audit.ended \/ ~audit'.ended => written' = written
    <2>1. CASE AppendLine(c)
      <3>1. audit'.ended = TRUE
        BY <2>1 DEF AppendLine, With
      <3>2. QED BY <2>1, <3>1 DEF AppendLine, Goto
    <2>2. CASE TearLine(c)
      <3>1. audit'.ended = FALSE
        BY <2>2 DEF TearLine, With
      <3>2. QED BY <2>2, <3>1 DEF TearLine, Goto
    <2>3. QED BY <2>1, <2>2
  <1>2. /\ pc' \in [Conns -> {"off", "open", "audit", "done"} \cup Locking]
        /\ \A d \in Conns : pc'[d] # "done" => pc[d] # "done" /\ d # c
        /\ \A d \in Conns : pc'[d] \notin Locking
    BY <1>1 DEF FilesInv, FilesTyped, Locking, RotatesFull
  <1>3. /\ old \in Seq(SUBSET Conns) /\ written \in Seq(Conns) /\ audit.ended \in BOOLEAN
        /\ older \in Seq(SUBSET Conns) /\ Len(written) \in Nat
    BY DEF FilesInv, FilesTyped, AuditFiles, Lines
  <1>4. ~audit.ended =>
          /\ old # <<>> /\ Len(old) \in 1..Len(old) /\ last \in SUBSET Conns
          /\ \E d \in last : \A j \in 1..Len(written) : written[j] # d
    BY <1>3 DEF FilesInv, TornNotOwn
  <1>5. ~Mentions(older, written, c) /\ ~Mentions(old, written, c)
    BY <1>1 DEF FilesInv, DoneMentioned
  <1>6. \A j \in 1..Len(written) : written[j] # c
    BY <1>5 DEF Mentions
  <1>7. new = IF audit.ended THEN Append(old, {c}) ELSE [old EXCEPT ![Len(old)] = last \cup {c}]
    BY <1>1 DEF With
  <1>8. new \in Seq(SUBSET Conns) /\ Len(new) >= Len(old) /\ Len(new) \in Nat /\ Len(old) \in Nat
    <2>1. CASE audit.ended
      BY <1>3, <1>7, <2>1
    <2>2. CASE ~audit.ended
      BY <1>3, <1>4, <1>7, <2>2
    <2>3. QED BY <2>1, <2>2
  <1>9. audit' \in AuditFiles
    <2>1. audit' = [lines |-> new, ended |-> audit'.ended]
      BY <1>1 DEF With
    <2>2. QED BY <1>1, <1>8, <2>1 DEF AuditFiles
  <1>10. written' = written \/ written' = Append(written, c)
    BY <1>1
  <1>11. FilesTyped'
    <2>1. written' \in Seq(Conns)
      BY <1>3, <1>10
    <2>2. QED BY <1>1, <1>2, <1>9, <2>1 DEF FilesInv, FilesTyped
  <1>12. RotatesFull'
    BY <1>2 DEF RotatesFull
  <1>13. DoneMentioned'
    <2>1. ASSUME NEW d \in Conns, pc[d] # "done", d # c
          PROVE  ~Mentions(older, written', d) /\ ~Mentions(new, written', d)
      <3>1. ~Mentions(older, written, d) /\ ~Mentions(old, written, d)
        BY <2>1 DEF FilesInv, DoneMentioned
      <3>2. /\ \A j \in 1..Len(written) : written[j] # d
            /\ \A i \in 1..Len(older) : d \notin older[i]
            /\ \A i \in 1..Len(old) : d \notin old[i]
        BY <3>1 DEF Mentions
      <3>3. \A j \in 1..Len(written') : written'[j] # d
        <4>1. CASE written' = written
          BY <3>2, <4>1
        <4>2. CASE written' = Append(written, c)
          <5>1. /\ Len(written') = Len(written) + 1 /\ written'[Len(written) + 1] = c
                /\ \A j \in 1..Len(written) : written'[j] = written[j]
            BY <1>3, <4>2
          <5>2. QED BY <1>3, <2>1, <3>2, <5>1
        <4>3. QED BY <1>10, <4>1, <4>2
      <3>4. \A i \in 1..Len(new) : d \notin new[i]
        <4>1. CASE audit.ended
          BY <1>3, <1>7, <2>1, <3>2, <4>1
        <4>2. CASE ~audit.ended
          BY <1>3, <1>4, <1>7, <2>1, <3>2, <4>2
        <4>3. QED BY <4>1, <4>2
      <3>5. QED BY <3>2, <3>3, <3>4 DEF Mentions
    <2>2. Lines(rotated)' = older /\ audit.lines' = new
      BY <1>1
    <2>3. \A d \in Conns : pc'[d] # "done" => /\ ~Mentions(Lines(rotated)', written', d)
                                              /\ ~Mentions(audit.lines', written', d)
      BY <1>2, <2>1, <2>2
    <2>4. QED BY <2>3 DEF DoneMentioned
  <1>14. TornNotOwn'
    <2>1. CASE audit'.ended
      BY <2>1 DEF TornNotOwn
    <2>2. CASE ~audit'.ended
      <3>1. written' = written
        BY <1>1, <2>2
      <3>2. new # <<>> /\ c \in new[Len(new)]
        <4>1. CASE audit.ended
          BY <1>3, <1>7, <4>1
        <4>2. CASE ~audit.ended
          <5>1. new = [old EXCEPT ![Len(old)] = last \cup {c}] /\ Len(old) \in 1..Len(old)
            BY <1>4, <1>7, <4>2
          <5>2. Len(new) = Len(old) /\ new[Len(old)] = last \cup {c}
            BY <1>3, <5>1
          <5>3. QED BY <1>8, <5>1, <5>2
        <4>3. QED BY <4>1, <4>2
      <3>3. QED BY <1>6, <3>1, <3>2 DEF TornNotOwn
    <2>3. QED BY <2>1, <2>2
  <1>15. AuditKept'
    <2>1. PICK lost \in 0..Len(written), mid \in 0..Len(written) :
            /\ Keeps(older, written, lost, mid)
            /\ Keeps(old, written, mid, Len(written))
            /\ lost > 0 => Len(older) + Len(old) >= RotateAt
      BY DEF FilesInv, AuditKept
    <2>2. lost \in Nat /\ mid \in Nat /\ mid <= Len(written)
      BY <1>3
    <2>3. /\ Keeps(older, written', lost, mid)
          /\ Keeps(new, written', mid, Len(written'))
          /\ Len(written') >= Len(written) /\ Len(written') \in Nat
      <3>1. CASE audit.ended /\ audit'.ended
        <4>1. written' = Append(written, c) /\ new = Append(old, {c})
          BY <1>1, <1>7, <3>1
        <4>2. Len(written') = Len(written) + 1
          BY <1>3, <4>1
        <4>3. Keeps(older, Append(written, c), lost, mid)
          BY <1>3, <1>5, <2>1, <2>2, KeepsOlder
        <4>4. Keeps(Append(old, {c}), Append(written, c), mid, Len(written) + 1)
          BY <1>3, <1>5, <2>1, <2>2, KeepsWritten
        <4>5. QED BY <1>3, <4>1, <4>2, <4>3, <4>4
      <3>2. CASE audit.ended /\ ~audit'.ended
        <4>1. written' = written /\ new = Append(old, {c})
          BY <1>1, <1>7, <3>2
        <4>2. {c} \in SUBSET Conns /\ \A j \in 1..Len(written) : {c} # {written[j]}
          BY <1>6
        <4>3. Len(written) \in Nat /\ Len(written) <= Len(written)
          BY <1>3
        <4>4. Keeps(Append(old, {c}), written, mid, Len(written))
          <5> HIDE DEF old
          <5>1. QED BY <1>3, <2>1, <2>2, <4>2, <4>3, KeepsTorn
        <4>5. QED BY <1>3, <2>1, <4>1, <4>4
      <3>3. CASE ~audit.ended
        <4>1. written' = written /\ new = [old EXCEPT ![Len(old)] = last \cup {c}]
          BY <1>1, <1>7, <3>3
        <4>2. /\ last \cup {c} \in SUBSET Conns
              /\ \A j \in 1..Len(written) : last \cup {c} # {written[j]} /\ last # {written[j]}
          BY <1>4, <3>3
        <4>3. /\ Len(written) \in Nat /\ Len(written) <= Len(written)
              /\ old # <<>> /\ last = old[Len(old)]
          BY <1>3, <1>4, <3>3
        <4>4. Keeps([old EXCEPT ![Len(old)] = last \cup {c}], written, mid, Len(written))
          <5> DEFINE x == last \cup {c}
          <5>1. x \in SUBSET Conns /\ \A j \in 1..Len(written) : x # {written[j]} /\ old[Len(old)] # {written[j]}
            BY <4>2, <4>3
          <5> HIDE DEF old, x
          <5>2. Keeps([old EXCEPT ![Len(old)] = x], written, mid, Len(written))
            BY <1>3, <2>1, <2>2, <4>3, <5>1, KeepsMerged
          <5>3. QED BY <5>2 DEF x
        <4>5. QED BY <1>3, <2>1, <4>1, <4>4
      <3>4. QED BY <1>1, <1>3, <3>1, <3>2, <3>3
    <2>4. Lines(rotated)' = older /\ audit.lines' = new
      BY <1>1
    <2>5. lost > 0 => Len(older) + Len(new) >= RotateAt
      <3>1. Len(older) \in Nat /\ RotateAt \in Nat
        BY <1>3, FilesAssumption
      <3>2. QED BY <1>8, <2>1, <3>1
    <2>6. lost \in 0..Len(written') /\ mid \in 0..Len(written')
      BY <1>3, <2>2, <2>3
    <2>7. QED BY <2>3, <2>4, <2>5, <2>6 DEF AuditKept
  <1>16. QED BY <1>11, <1>12, <1>13, <1>14, <1>15 DEF FilesInv

LEMMA FilesInitial == FilesInit => FilesInv
  <1> SUFFICES ASSUME FilesInit PROVE FilesInv
    OBVIOUS
  <1>1. /\ pc = [c \in Conns |-> "off"] /\ audit = Empty /\ rotated = NoFile /\ written = <<>>
        /\ Empty.lines = <<>> /\ Empty.ended /\ Empty \in AuditFiles /\ Lines(NoFile) = <<>>
    BY DEF FilesInit, Empty, AuditFiles, Lines
  <1>2. FilesTyped /\ RotatesFull /\ TornNotOwn
    BY <1>1 DEF FilesTyped, RotatesFull, TornNotOwn, Locking
  <1>3. DoneMentioned
    BY <1>1 DEF DoneMentioned, Mentions
  <1>4. AuditKept
    <2>1. Len(<<>>) = 0 /\ 0 \in 0..Len(<<>>) /\ Keeps(<<>>, <<>>, 0, 0)
      BY DEF Keeps
    <2>2. QED BY <1>1, <2>1 DEF AuditKept
  <1>5. QED BY <1>2, <1>3, <1>4 DEF FilesInv

(* A step that is none of these leaves the audit files, and every place, alone. *)
LEMMA FilesInvariance == FilesInv /\ [FilesNext]_filesVars => FilesInv'
  <1> SUFFICES ASSUME FilesInv, [FilesNext]_filesVars PROVE FilesInv'
    OBVIOUS
  <1>1. CASE UNCHANGED <<pc, auditFiles>>
    BY <1>1 DEF FilesInv, auditFiles, FilesTyped, RotatesFull, DoneMentioned, TornNotOwn, AuditKept
  <1>2. ASSUME NEW c \in Conns, Connection(c) PROVE FilesInv'
    <2>1. CASE StartCapture(c) \/ NoCapture(c) \/ FinishCapture(c) \/ AuditFails(c)
      <3>1. /\ UNCHANGED auditFiles /\ pc[c] # "done"
            /\ \E to \in {"off", "open", "audit", "done"} : Goto(c, to)
        BY <2>1 DEF StartCapture, NoCapture, FinishCapture, AuditFails
      <3>2. QED BY <3>1, OnlyMoves
    <2>2. CASE WriteCapture(c)
      BY <1>1, <2>2 DEF WriteCapture
    <2>3. CASE LockAudit(c)
      BY <2>3, LockKept
    <2>4. CASE RemoveRotated(c) \/ Rename(c)
      BY <2>4, RotationKept
    <2>5. CASE AppendLine(c) \/ TearLine(c)
      BY <2>5, LineKept
    <2>6. QED BY <1>2, <2>1, <2>2, <2>3, <2>4, <2>5 DEF Connection
  <1>3. CASE Cleanup \/ Tick
    <2>1. UNCHANGED <<pc, auditFiles>>
      BY <1>3 DEF Cleanup, Tick, StartCleanup, ListingFails, EndListing, EndAge, EndCleanup,
                  ListFile, SkipFile, RemoveOld, RemoveOldest
    <2>2. QED BY <1>1, <2>1
  <1>4. CASE Crash
    <2>1. /\ UNCHANGED auditFiles
          /\ pc' = [c \in Conns |-> IF pc[c] = "off" THEN "off" ELSE "done"]
      BY <1>4 DEF Crash
    <2>2. /\ pc' \in [Conns -> {"off", "open", "audit", "done"} \cup Locking]
          /\ \A d \in Conns : pc'[d] # "done" => pc[d] # "done"
          /\ \A d \in Conns : pc'[d] \notin Locking
      BY <2>1 DEF Locking
    <2>3. audit' = audit /\ rotated' = rotated /\ written' = written
      BY <2>1 DEF auditFiles
    <2>4. FilesTyped' /\ RotatesFull' /\ DoneMentioned'
      BY <2>2, <2>3 DEF FilesInv, FilesTyped, RotatesFull, DoneMentioned
    <2>5. TornNotOwn' /\ AuditKept'
      BY <2>3 DEF FilesInv, TornNotOwn, AuditKept
    <2>6. QED BY <2>4, <2>5 DEF FilesInv
  <1>5. QED BY <1>1, <1>2, <1>3, <1>4 DEF FilesNext, filesVars

(* capture.rs:159-179.  Whatever crashes, fails or tears a line, the newest   *)
(* of the accepted lines are on disk in their order, and none is missing      *)
(* before a whole file's worth of newer text is there.                        *)
THEOREM AuditIsKept == FilesSpec => []AuditKept
  <1>1. FilesInit => FilesInv
    BY FilesInitial
  <1>2. FilesInv /\ [FilesNext]_filesVars => FilesInv'
    BY FilesInvariance
  <1>3. FilesInv => AuditKept
    BY DEF FilesInv
  <1>4. QED BY <1>1, <1>2, <1>3, PTL DEF FilesSpec

-----------------------------------------------------------------------------
(* The cleanup.  First, sums of sizes: one more file, one less, and the same  *)
(* files listed otherwise.                                                    *)
LEMMA BytesWith ==
  ASSUME NEW f, NEW g, NEW S, NEW c, \A d \in S \ {c} : g[d] = f[d]
  PROVE  BytesIn(g, S \cup {c}) = BytesIn(f, S \ {c}) \cup ({c} \X (1..g[c].size))
  BY DEF BytesIn

LEMMA BytesPart ==
  ASSUME NEW f, NEW S, NEW T, T \subseteq S, IsFiniteSet(BytesIn(f, S))
  PROVE  IsFiniteSet(BytesIn(f, T)) /\ Cardinality(BytesIn(f, T)) \in Nat
  <1>1. BytesIn(f, T) \in SUBSET BytesIn(f, S)
    BY DEF BytesIn
  <1>2. IsFiniteSet(BytesIn(f, T))
    BY <1>1, FS_Subset
  <1>3. QED BY <1>2, FS_CardinalityType

LEMMA BytesWithout ==
  ASSUME NEW f, NEW S, NEW c \in S, f[c].size \in Nat, IsFiniteSet(BytesIn(f, S))
  PROVE  Cardinality(BytesIn(f, S \ {c})) = Cardinality(BytesIn(f, S)) - f[c].size
  <1> DEFINE B == BytesIn(f, S)
             D == {c} \X (1..f[c].size)
  <1>1. BytesIn(f, S \ {c}) = B \ D /\ B \cap D = D
    BY DEF BytesIn
  <1>2. Cardinality(D) = f[c].size
    BY FileBytes
  <1> HIDE DEF B, D
  <1>3. Cardinality(B \ D) = Cardinality(B) - Cardinality(D)
    <2>1. IsFiniteSet(B)
      BY DEF B
    <2>2. QED BY <1>1, <2>1, FS_Difference
  <1>4. QED BY <1>1, <1>2, <1>3 DEF B

(* A step that leaves the cleanup alone, and keeps the files there are. *)
LEMMA CleanupApart ==
  ASSUME CleanupInv, UNCHANGED cleanup, now' \in {now, now + 1}, crashes' = crashes,
         pcap' \in [Conns -> CaptureFiles \cup {NoFile}],
         \A c \in Conns : pc'[c] = "off" => pc[c] = "off" /\ pcap'[c] = pcap[c],
         \A c \in Conns : pc[c] # "off" => (pcap'[c] = NoFile <=> pcap[c] = NoFile)
  PROVE  CleanupInv'
  <1>1. /\ stage' = stage /\ entries' = entries /\ listing' = listing
        /\ untried' = untried /\ total' = total
    BY DEF cleanup
  <1>2. CleanupTyped'
    BY <1>1 DEF CleanupInv, CleanupTyped
  <1>3. FilesStay'
    BY <1>1 DEF CleanupInv, FilesStay
  <1>4. OnDisk(DOMAIN listing)' = OnDisk(DOMAIN listing)
    BY <1>1 DEF CleanupInv, CleanupTyped, FilesStay, OnDisk
  <1>5. TotalExact'
    BY <1>1, <1>4 DEF CleanupInv, TotalExact, SizeOf
  <1>6. UntriedOld'
    <2>1. \A c \in DOMAIN listing : listing[c].modified + Retention < now =>
                                     listing[c].modified + Retention < now'
      BY FilesAssumption DEF CleanupInv, CleanupTyped, CaptureFiles
    <2>2. QED BY <1>1, <2>1 DEF CleanupInv, CleanupTyped, UntriedOld, TooOld
  <1>7. QED BY <1>2, <1>3, <1>5, <1>6 DEF CleanupInv

LEMMA ConnectionCleans ==
  ASSUME FilesTyped, CleanupInv, NEW c \in Conns, Connection(c)
  PROVE  CleanupInv'
  <1>1. /\ UNCHANGED cleanup /\ now' = now /\ crashes' = crashes
        /\ \/ pc' = pc
           \/ \E to \in {"open", "audit", "done"} \cup Locking : pc' = [pc EXCEPT ![c] = to]
    BY DEF Connection, StartCapture, NoCapture, WriteCapture, FinishCapture, LockAudit, RemoveRotated,
           Rename, AppendLine, TearLine, AuditFails, Goto, Locking
  <1>2. \/ pcap' = pcap
        \/ /\ pc[c] = "off" /\ pcap' = [pcap EXCEPT ![c] = [size |-> 1, modified |-> now]]
           /\ pc' = [pc EXCEPT ![c] = "open"]
        \/ /\ pcap[c] # NoFile /\ pc' = pc
           /\ pcap' = [pcap EXCEPT ![c] = [size |-> pcap[c].size + 1, modified |-> now]]
    BY DEF Connection, StartCapture, NoCapture, WriteCapture, FinishCapture, LockAudit, RemoveRotated,
           Rename, AppendLine, TearLine, AuditFails, Goto
  <1>3. \A n \in Nat : [size |-> n, modified |-> now] \in CaptureFiles
    BY DEF CleanupInv, CleanupTyped, CaptureFiles
  <1>4. pcap[c] # NoFile => pcap[c].size + 1 \in Nat
    BY DEF CleanupInv, CleanupTyped, CaptureFiles
  <1>5. \A d \in Conns : pc'[d] = "off" => pc[d] = "off" /\ (d = c => pc' = pc)
    BY <1>1 DEF FilesTyped, Locking
  <1>6. pcap \in [Conns -> CaptureFiles \cup {NoFile}] /\ now' \in {now, now + 1}
    BY <1>1 DEF CleanupInv, CleanupTyped
  <1>7. CASE pcap' = pcap
    BY <1>1, <1>5, <1>6, <1>7, CleanupApart
  <1>8. CASE /\ pc[c] = "off" /\ pcap' = [pcap EXCEPT ![c] = [size |-> 1, modified |-> now]]
             /\ pc' = [pc EXCEPT ![c] = "open"]
    <2>1. \A d \in Conns : d # c => pcap'[d] = pcap[d]
      BY <1>6, <1>8
    <2>2. \A d \in Conns : pc'[d] = "off" => pc[d] = "off" /\ d # c
      BY <1>5, <1>8 DEF FilesTyped
    <2>3. pcap' \in [Conns -> CaptureFiles \cup {NoFile}]
      BY <1>3, <1>6, <1>8
    <2>4. QED BY <1>1, <1>6, <1>8, <2>1, <2>2, <2>3, CleanupApart
  <1>9. CASE /\ pcap[c] # NoFile /\ pc' = pc
             /\ pcap' = [pcap EXCEPT ![c] = [size |-> pcap[c].size + 1, modified |-> now]]
    <2>1. /\ \A d \in Conns : d # c => pcap'[d] = pcap[d]
          /\ pcap'[c] \in CaptureFiles
          /\ pcap' \in [Conns -> CaptureFiles \cup {NoFile}]
      BY <1>3, <1>4, <1>6, <1>9
    <2>2. \A d \in Conns : pcap'[d] = NoFile <=> pcap[d] = NoFile
      BY <1>9, <2>1, NoFileAssumption
    <2>3. pc[c] # "off"
      BY <1>9 DEF CleanupInv, FilesStay
    <2>4. \A d \in Conns : pc'[d] = "off" => pc[d] = "off" /\ pcap'[d] = pcap[d]
      BY <1>9, <2>1, <2>3
    <2>5. QED BY <1>1, <1>6, <2>1, <2>2, <2>4, CleanupApart
  <1>10. QED BY <1>2, <1>7, <1>8, <1>9

(* A capture is listed. *)
LEMMA ListingCleans ==
  ASSUME CleanupInv, NEW c \in Conns, ListFile(c)
  PROVE  CleanupInv'
  <1> DEFINE S == DOMAIN listing
             f == pcap[c]
  <1>1. /\ stage = "list" /\ c \in Conns /\ pcap[c] # NoFile /\ c \notin S
        /\ listing' = [d \in S \cup {c} |-> IF d = c THEN f ELSE listing[d]]
        /\ UNCHANGED <<pc, now, pcap, stage, untried, total, crashes>>
    BY DEF ListFile, OnDisk
  <1>2. f \in CaptureFiles /\ f.size \in Nat
    BY <1>1 DEF CleanupInv, CleanupTyped, CaptureFiles
  <1>3. /\ DOMAIN listing' = S \cup {c} /\ listing'[c] = f
        /\ \A d \in S \ {c} : listing'[d] = listing[d]
    BY <1>1
  <1>4. IsFiniteSet(BytesIn(listing', DOMAIN listing'))
    <2>1. IsFiniteSet(BytesIn(listing, S \ {c}))
      BY BytesPart DEF CleanupInv, CleanupTyped
    <2>2. IsFiniteSet({c} \X (1..f.size))
      BY <1>2, FileBytes
    <2> DEFINE g == listing'
               B == BytesIn(listing, S \ {c})
               D == {c} \X (1..f.size)
    <2>3. DOMAIN g = S \cup {c} /\ g[c] = f /\ \A d \in S \ {c} : g[d] = listing[d]
      BY <1>3
    <2> HIDE DEF g, S, f
    <2>4. BytesIn(g, S \cup {c}) = B \cup ({c} \X (1..g[c].size))
      BY <2>3 DEF BytesIn, B
    <2>5. BytesIn(g, DOMAIN g) = B \cup D
      BY <2>3, <2>4
    <2> HIDE DEF B, D
    <2>6. IsFiniteSet(B) /\ IsFiniteSet(D)
      BY <2>1, <2>2 DEF B, D
    <2>7. IsFiniteSet(B \cup D)
      BY <2>6, FS_Union
    <2>8. QED BY <2>5, <2>7 DEF g
  <1>5. DOMAIN listing' \subseteq Conns /\ \A d \in DOMAIN listing' : listing'[d] \in CaptureFiles
    BY <1>2, <1>3 DEF CleanupInv, CleanupTyped
  <1>6. CleanupTyped'
    BY <1>1, <1>4, <1>5 DEF CleanupInv, CleanupTyped
  <1>7. FilesStay'
    BY <1>1, <1>3 DEF CleanupInv, FilesStay
  <1>8. TotalExact'
    BY <1>1 DEF TotalExact
  <1>9. UntriedOld'
    BY <1>1 DEF UntriedOld
  <1>10. QED BY <1>6, <1>7, <1>8, <1>9 DEF CleanupInv

LEMMA EmptyListing ==
  /\ DOMAIN NoListing = {}
  /\ IsFiniteSet(BytesIn(NoListing, DOMAIN NoListing))
  <1>1. DOMAIN NoListing = {}
    BY DEF NoListing
  <1>2. BytesIn(NoListing, {}) = {}
    BY DEF BytesIn
  <1>3. QED BY <1>1, <1>2, FS_EmptySet

(* An entry of the directory that cannot be read changes nothing else. *)
LEMMA SkipCleans ==
  ASSUME CleanupInv, NEW c \in Conns, SkipFile(c)
  PROVE  CleanupInv'
  <1>1. UNCHANGED <<pc, now, pcap, stage, listing, untried, total, crashes>>
    BY DEF SkipFile
  <1>2. CleanupTyped' /\ FilesStay'
    BY <1>1 DEF CleanupInv, CleanupTyped, FilesStay
  <1>3. TotalExact'
    BY <1>1 DEF CleanupInv, TotalExact, SizeOf, OnDisk
  <1>4. UntriedOld'
    BY <1>1 DEF CleanupInv, UntriedOld, TooOld
  <1>5. QED BY <1>2, <1>3, <1>4 DEF CleanupInv

(* The cleanup starts, ends its listing or its removals by age, and is over. *)
LEMMA StageCleans ==
  ASSUME CleanupInv, StartCleanup \/ ListingFails \/ EndListing \/ EndAge \/ EndCleanup
  PROVE  CleanupInv'
  <1>1. UNCHANGED <<pc, now, pcap, crashes>>
    BY DEF StartCleanup, ListingFails, EndListing, EndAge, EndCleanup
  <1>2. CASE StartCleanup \/ ListingFails \/ EndCleanup
    <2>1. /\ listing' = NoListing /\ untried' = {} /\ stage' \in {"idle", "list"}
      BY <1>2 DEF StartCleanup, ListingFails, EndCleanup, Forget, CleanupInv, CleanupTyped
    <2>2. CleanupTyped'
      BY <1>1, <2>1, EmptyListing DEF CleanupInv, CleanupTyped
    <2>3. FilesStay'
      BY <1>1, <2>1, EmptyListing DEF CleanupInv, FilesStay
    <2>4. TotalExact' /\ UntriedOld'
      BY <2>1 DEF TotalExact, UntriedOld
    <2>5. QED BY <2>2, <2>3, <2>4 DEF CleanupInv
  <1>3. CASE EndListing \/ EndAge
    <2>1. /\ listing' = listing /\ untried' \subseteq DOMAIN listing /\ stage' \in {"age", "size"}
      BY <1>3 DEF EndListing, EndAge, OnDisk
    <2>2. CleanupTyped'
      BY <1>1, <2>1 DEF CleanupInv, CleanupTyped
    <2>3. FilesStay'
      BY <1>1, <2>1 DEF CleanupInv, FilesStay
    <2>4. TotalExact'
      <3>1. CASE EndListing
        BY <3>1 DEF EndListing, TotalExact
      <3>2. CASE EndAge
        <4>1. total' = Cardinality(BytesIn(listing', OnDisk(DOMAIN listing)))
              /\ OnDisk(DOMAIN listing)' = OnDisk(DOMAIN listing)
          BY <1>1, <2>1, <3>2 DEF EndAge, SizeOf, OnDisk
        <4>2. QED BY <4>1 DEF TotalExact, SizeOf
      <3>3. QED BY <1>3, <3>1, <3>2
    <2>5. UntriedOld'
      BY <1>1, <1>3, <2>1 DEF EndListing, EndAge, UntriedOld, TooOld
    <2>6. QED BY <2>2, <2>3, <2>4, <2>5 DEF CleanupInv
  <1>4. QED BY <1>2, <1>3

(* A removal, by age or by size, that works or fails. *)
LEMMA RemovalCleans ==
  ASSUME FilesTyped, CleanupInv, NEW c \in Conns, RemoveOld(c) \/ RemoveOldest(c)
  PROVE  CleanupInv'
  <1> DEFINE L == DOMAIN listing
             left == OnDisk(L)
  <1>1. /\ UNCHANGED <<pc, now, stage, listing, crashes>>
        /\ pcap' = pcap \/ pcap' = [pcap EXCEPT ![c] = NoFile]
        /\ untried' = untried \ {c} /\ c \in untried
        /\ stage \in {"age", "size"}
    BY DEF RemoveOld, RemoveOldest, Removal
  <1>2. pcap' \in [Conns -> CaptureFiles \cup {NoFile}] /\ \A d \in Conns : d # c => pcap'[d] = pcap[d]
    BY <1>1 DEF CleanupInv, CleanupTyped
  <1>3. \A d \in Conns : pcap'[d] # NoFile => pcap[d] # NoFile
    BY <1>1, <1>2 DEF CleanupInv, CleanupTyped
  <1>4. CleanupTyped'
    BY <1>1, <1>2 DEF CleanupInv, CleanupTyped
  <1>5. FilesStay'
    BY <1>1, <1>3 DEF CleanupInv, FilesStay
  <1>6. TotalExact'
    <2>1. CASE RemoveOld(c)
      BY <1>1, <2>1 DEF RemoveOld, TotalExact
    <2>2. CASE RemoveOldest(c) /\ pcap' = pcap
      <3>1. stage = "size" /\ total' = total /\ left' = left
        BY <1>1, <2>2 DEF RemoveOldest, OnDisk
      <3>2. QED BY <1>1, <3>1 DEF CleanupInv, TotalExact, SizeOf
    <2>3. CASE RemoveOldest(c) /\ pcap' # pcap
      <3>1. /\ stage = "size" /\ total' = total - listing[c].size
            /\ pcap' = [pcap EXCEPT ![c] = NoFile] /\ c \in L
        BY <1>1, <2>3 DEF RemoveOldest, CleanupInv, CleanupTyped
      <3>2. pcap[c] # NoFile
        BY <2>3, <3>1 DEF CleanupInv, CleanupTyped
      <3>3. left' = left \ {c} /\ c \in left
        BY <1>1, <1>2, <3>1, <3>2 DEF OnDisk, CleanupInv, CleanupTyped
      <3>4. listing[c].size \in Nat
        BY <3>1 DEF CleanupInv, CleanupTyped, CaptureFiles
      <3>5. IsFiniteSet(BytesIn(listing, left))
        BY BytesPart DEF CleanupInv, CleanupTyped, OnDisk
      <3>6. Cardinality(BytesIn(listing, left \ {c})) = Cardinality(BytesIn(listing, left)) - listing[c].size
        BY <3>3, <3>4, <3>5, BytesWithout
      <3>7. total = Cardinality(BytesIn(listing, left))
        BY <3>1 DEF CleanupInv, TotalExact, SizeOf
      <3>8. total' = Cardinality(BytesIn(listing', left'))
        BY <1>1, <3>1, <3>3, <3>6, <3>7
      <3>9. QED BY <3>8 DEF TotalExact, SizeOf
    <2>4. QED BY <2>1, <2>2, <2>3
  <1>7. UntriedOld'
    BY <1>1 DEF CleanupInv, UntriedOld, TooOld
  <1>8. QED BY <1>4, <1>5, <1>6, <1>7 DEF CleanupInv

LEMMA CleanupInitial == FilesInit => CleanupInv
  <1> SUFFICES ASSUME FilesInit PROVE CleanupInv
    OBVIOUS
  <1>1. CleanupTyped /\ FilesStay
    BY EmptyListing DEF FilesInit, CleanupTyped, FilesStay
  <1>2. TotalExact /\ UntriedOld
    BY DEF FilesInit, TotalExact, UntriedOld
  <1>3. QED BY <1>1, <1>2 DEF CleanupInv

LEMMA CleanupInvariance == FilesTyped /\ CleanupInv /\ [FilesNext]_filesVars => CleanupInv'
  <1> SUFFICES ASSUME FilesTyped, CleanupInv, [FilesNext]_filesVars PROVE CleanupInv'
    OBVIOUS
  <1>1. ASSUME NEW c \in Conns, Connection(c) PROVE CleanupInv'
    BY <1>1, ConnectionCleans
  <1>2. CASE Cleanup
    BY <1>2, StageCleans, ListingCleans, SkipCleans, RemovalCleans DEF Cleanup
  <1>3. CASE Tick
    <2>1. UNCHANGED <<pc, pcap, cleanup, crashes>> /\ now' = now + 1
      BY <1>3 DEF Tick
    <2>2. now' \in {now, now + 1} /\ pcap' \in [Conns -> CaptureFiles \cup {NoFile}]
      BY <2>1 DEF CleanupInv, CleanupTyped
    <2>3. QED BY <2>1, <2>2, CleanupApart
  <1>4. CASE Crash
    <2>1. /\ UNCHANGED <<now, pcap>> /\ crashes' = crashes + 1 /\ listing' = NoListing /\ untried' = {} /\ stage' = "idle"
          /\ \A c \in Conns : pc'[c] = "off" <=> pc[c] = "off"
      BY <1>4 DEF Crash, Forget
    <2>2. CleanupTyped'
      BY <2>1, EmptyListing DEF CleanupInv, CleanupTyped
    <2>3. FilesStay'
      BY <2>1, EmptyListing DEF CleanupInv, FilesStay
    <2>4. TotalExact' /\ UntriedOld'
      BY <2>1 DEF TotalExact, UntriedOld
    <2>5. QED BY <2>2, <2>3, <2>4 DEF CleanupInv
  <1>5. CASE UNCHANGED filesVars
    <2>1. UNCHANGED <<pc, now, pcap, cleanup, crashes>>
      BY <1>5 DEF filesVars
    <2>2. now' \in {now, now + 1} /\ pcap' \in [Conns -> CaptureFiles \cup {NoFile}]
      BY <2>1 DEF CleanupInv, CleanupTyped
    <2>3. QED BY <2>1, <2>2, CleanupApart
  <1>6. QED BY <1>1, <1>2, <1>3, <1>4, <1>5 DEF FilesNext

(* capture.rs:294-323.  A capture is only removed because it was too old when *)
(* it was listed, or while what was listed and is left exceeds the limit and  *)
(* nothing older is untried; and the cleanup does not end before.             *)
THEOREM RemovalsAreForLimit == FilesSpec => RemovedForLimit
  <1>1. FilesInit => FilesInv /\ CleanupInv
    BY FilesInitial, CleanupInitial
  <1>2. FilesInv /\ CleanupInv /\ [FilesNext]_filesVars => (FilesInv /\ CleanupInv)'
    BY FilesInvariance, CleanupInvariance DEF FilesInv
  <1> DEFINE left == OnDisk(DOMAIN listing)
             Cause(c) == /\ c \in left
                         /\ \/ stage = "age" /\ TooOld(c)
                            \/ /\ SizeOf(left) > MaxTotal
                               /\ \A d \in left \cap untried : listing[c].modified <= listing[d].modified
             Over == SizeOf(left) <= MaxTotal \/ left \cap untried = {}
             Step == /\ \A c \in Conns : pcap[c] # NoFile /\ pcap'[c] = NoFile => Cause(c)
                     /\ stage = "size" /\ stage' = "idle" /\ crashes' = crashes => Over
  <1>3. CleanupInv /\ [FilesNext]_filesVars => Step
    <2> SUFFICES ASSUME CleanupInv, [FilesNext]_filesVars PROVE Step
      OBVIOUS
    <2>1. CASE UNCHANGED <<pcap, stage>>
      BY <2>1
    <2>2. ASSUME NEW c \in Conns, Connection(c) PROVE Step
      <3>1. /\ stage' = stage
            /\ \/ pcap' = pcap
               \/ pcap' = [pcap EXCEPT ![c] = [size |-> 1, modified |-> now]]
               \/ /\ pcap[c] # NoFile
                  /\ pcap' = [pcap EXCEPT ![c] = [size |-> pcap[c].size + 1, modified |-> now]]
        BY <2>2 DEF Connection, StartCapture, NoCapture, WriteCapture, FinishCapture, LockAudit,
                    RemoveRotated, Rename, AppendLine, TearLine, AuditFails, cleanup
      <3>2. \A n \in Nat : [size |-> n, modified |-> now] # NoFile
        BY NoFileAssumption DEF CleanupInv, CleanupTyped, CaptureFiles
      <3>3. pcap[c] # NoFile => pcap[c].size + 1 \in Nat
        BY DEF CleanupInv, CleanupTyped, CaptureFiles
      <3>4. \A d \in Conns : pcap'[d] = NoFile => pcap[d] = NoFile
        BY <3>1, <3>2, <3>3 DEF CleanupInv, CleanupTyped
      <3>5. QED BY <3>1, <3>4
    <2>3. CASE StartCleanup \/ ListingFails \/ EndListing \/ EndAge
                 \/ \E c \in Conns : ListFile(c) \/ SkipFile(c)
      <3>1. pcap' = pcap /\ (stage # "size" \/ stage' = stage)
        BY <2>3 DEF StartCleanup, ListingFails, EndListing, EndAge, ListFile, SkipFile
      <3>2. QED BY <3>1
    <2>4. ASSUME NEW c \in Conns, RemoveOld(c) \/ RemoveOldest(c) PROVE Step
      <3>1. /\ stage' = stage /\ c \in untried /\ c \in DOMAIN listing
            /\ \A d \in Conns : pcap[d] # NoFile /\ pcap'[d] = NoFile => d = c
        BY <2>4 DEF RemoveOld, RemoveOldest, Removal, CleanupInv, CleanupTyped
      <3>2. ASSUME pcap[c] # NoFile PROVE Cause(c)
        <4>1. c \in left
          BY <3>1, <3>2 DEF OnDisk
        <4>2. CASE RemoveOld(c)
          BY <4>1, <4>2 DEF RemoveOld, CleanupInv, UntriedOld
        <4>3. CASE RemoveOldest(c)
          BY <4>1, <4>3 DEF RemoveOldest, CleanupInv, TotalExact
        <4>4. QED BY <2>4, <4>2, <4>3
      <3>3. QED BY <3>1, <3>2
    <2>5. CASE EndCleanup
      <3>1. pcap' = pcap /\ stage = "size" /\ (total <= MaxTotal \/ untried = {})
        BY <2>5 DEF EndCleanup
      <3>2. Over
        BY <3>1 DEF CleanupInv, TotalExact
      <3>3. QED BY <3>1, <3>2
    <2>6. CASE Crash
      <3>1. pcap' = pcap /\ crashes' = crashes + 1
        BY <2>6 DEF Crash
      <3>2. crashes' # crashes
        BY <3>1 DEF CleanupInv, CleanupTyped
      <3>3. QED BY <3>1, <3>2
    <2>7. QED
      BY <2>1, <2>2, <2>3, <2>4, <2>5, <2>6 DEF FilesNext, Cleanup, Tick, filesVars, cleanup
  <1>4. CleanupInv /\ [FilesNext]_filesVars => [Step]_filesVars
    BY <1>3
  <1>5. QED BY <1>1, <1>2, <1>4, PTL DEF FilesSpec, RemovedForLimit
=============================================================================
