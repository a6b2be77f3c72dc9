---------------------------- MODULE GatewayFiles ----------------------------
(***************************************************************************)
(* What the gateway leaves on its disk (cli/capture.rs, write_audit of     *)
(* cli/serve.rs): a capture file per connection, thinned out by an hourly  *)
(* cleanup, and an audit file that is rotated once.  Connections go on     *)
(* while the cleanup works, and any operation on a file may fail.          *)
(***************************************************************************)
EXTENDS Naturals, Sequences, FiniteSets

CONSTANTS Conns,       \* connections
          NoFile,
          Retention,   \* capture_retention_days, in ticks of the clock
          MaxTotal,    \* capture_max_total_bytes
          RotateAt,    \* 16 MiB, in lines
          MaxSize,     \* max_capture_bytes, with the header
          MaxFiles, MaxNow, MaxCrashes   \* bounds: captures on disk at a time, ...

ASSUME FilesAssumption ==
  /\ {Retention, MaxTotal, MaxFiles, MaxNow, MaxCrashes} \subseteq Nat
  /\ RotateAt \in Nat \ {0} /\ MaxSize \in Nat \ {0}

AuditFiles == [lines : Seq(SUBSET Conns), ended : BOOLEAN]

CaptureFiles == [size : Nat, modified : Nat]

ASSUME NoFileAssumption == NoFile \notin AuditFiles /\ NoFile \notin CaptureFiles

VARIABLES pc,        \* per connection: where it is
          now,       \* the clock
          pcap,      \* per connection: its capture, [size, modified], or NoFile
          audit,     \* the audit file: lines, and whether the last one is ended
          rotated,   \* its predecessor, or NoFile
          written,   \* history: lines that append_audit accepted on a line of their own
          stage,     \* cleanup_capture_files: "idle", "list", "age", "size"
          entries,   \* names that read_dir owes it
          listing,   \* what it knows of the files it listed
          untried,   \* those of them that are not looked at yet
          total,     \* what it takes for the sum of their sizes
          crashes

auditFiles == <<audit, rotated, written>>
cleanup    == <<stage, entries, listing, untried, total>>
filesVars  == <<pc, now, pcap, auditFiles, cleanup, crashes>>

Empty == [lines |-> <<>>, ended |-> TRUE]
NoListing == [c \in {} |-> 0]

FilesInit == /\ pc = [c \in Conns |-> "off"] /\ now = 0 /\ crashes = 0
             /\ pcap = [c \in Conns |-> NoFile]
             /\ audit = Empty /\ rotated = NoFile /\ written = <<>>
             /\ stage = "idle" /\ entries = {} /\ listing = NoListing /\ untried = {} /\ total = 0

Goto(c, to) == pc' = [pc EXCEPT ![c] = to]
OnDisk(S) == {c \in S : pcap[c] # NoFile}

(* The sum of the sizes of files, as the number of their bytes. *)
BytesIn(files, S) == UNION {{c} \X (1..files[c].size) : c \in S}
SizeOf(S) == Cardinality(BytesIn(listing, S))

-----------------------------------------------------------------------------
(* A connection: CaptureSession::start, the writer task, finish. *)

StartCapture(c) ==
  /\ pc[c] = "off" /\ Cardinality(OnDisk(Conns)) < MaxFiles
  /\ Goto(c, "open")
  /\ pcap' = [pcap EXCEPT ![c] = [size |-> 1, modified |-> now]]
  /\ UNCHANGED <<now, auditFiles, cleanup, crashes>>

NoCapture(c) ==
  /\ pc[c] = "off"
  /\ Goto(c, "audit")
  /\ UNCHANGED <<now, pcap, auditFiles, cleanup, crashes>>

(* A file that is removed by now still takes the bytes, out of sight. *)
WriteCapture(c) ==
  /\ pc[c] = "open" /\ pcap[c] # NoFile /\ pcap[c].size < MaxSize
  /\ pcap' = [pcap EXCEPT ![c] = [size |-> @.size + 1, modified |-> now]]
  /\ UNCHANGED <<pc, now, auditFiles, cleanup, crashes>>

FinishCapture(c) ==
  /\ pc[c] = "open"
  /\ Goto(c, "audit")
  /\ UNCHANGED <<now, pcap, auditFiles, cleanup, crashes>>

-----------------------------------------------------------------------------
(* append_audit, under audit_lock.  An error ends it without the line. *)

Locking == {"remove rotated", "rename", "append"}
Locked  == \E c \in Conns : pc[c] \in Locking

(* When the size cannot be read, there is no rotation. *)
LockAudit(c) ==
  /\ pc[c] = "audit" /\ ~Locked
  /\ \/ Len(audit.lines) >= RotateAt /\ Goto(c, "remove rotated")
     \/ Goto(c, "append")
  /\ UNCHANGED <<now, pcap, auditFiles, cleanup, crashes>>

(* The result of remove_file is dropped; rename would replace the file.      *)
RemoveRotated(c) ==
  /\ pc[c] = "remove rotated"
  /\ Goto(c, "rename")
  /\ rotated' \in {NoFile, rotated}
  /\ UNCHANGED <<now, pcap, audit, written, cleanup, crashes>>

Rename_Removes(c) ==   \* plausible bug: the full file goes instead of the old one
  /\ pc[c] = "rename"
  /\ Goto(c, "append")
  /\ audit' = Empty
  /\ UNCHANGED <<now, pcap, rotated, written, cleanup, crashes>>

Rename(c) ==
  /\ pc[c] = "rename"
  /\ Goto(c, "append")
  /\ rotated' = audit /\ audit' = Empty
  /\ UNCHANGED <<now, pcap, written, cleanup, crashes>>

With(c, ended) ==
  [lines |-> IF audit.ended THEN Append(audit.lines, {c})
             ELSE [audit.lines EXCEPT ![Len(audit.lines)] = @ \cup {c}],
   ended |-> ended]

AppendLine(c) ==
  /\ pc[c] = "append"
  /\ Goto(c, "done")
  /\ audit' = With(c, TRUE)
  /\ written' = IF audit.ended THEN Append(written, c) ELSE written
  /\ UNCHANGED <<now, pcap, rotated, cleanup, crashes>>

(* The disk is full, or the process ends, in the middle of the line. *)
TearLine(c) ==
  /\ pc[c] = "append"
  /\ Goto(c, "done")
  /\ audit' = With(c, FALSE)
  /\ UNCHANGED <<now, pcap, rotated, written, cleanup, crashes>>

AuditFails(c) ==
  /\ pc[c] \in {"audit", "rename", "append"}
  /\ pc[c] = "audit" => ~Locked
  /\ Goto(c, "done")
  /\ UNCHANGED <<now, pcap, auditFiles, cleanup, crashes>>

-----------------------------------------------------------------------------
(* cleanup_capture_files, hourly.  collect_pcaps sees each file at a time of *)
(* its own, and may or may not see one that appears meanwhile.               *)

StartCleanup ==
  /\ stage = "idle"
  /\ stage' = "list" /\ entries' = OnDisk(Conns)
  /\ listing' = NoListing
  /\ UNCHANGED <<pc, now, pcap, auditFiles, untried, total, crashes>>

ListFile(c) ==
  /\ stage = "list" /\ c \in OnDisk(Conns) \ DOMAIN listing
  /\ entries' = entries \ {c}
  /\ listing' = [d \in DOMAIN listing \cup {c} |-> IF d = c THEN pcap[c] ELSE listing[d]]
  /\ UNCHANGED <<pc, now, pcap, auditFiles, stage, untried, total, crashes>>

(* Its entry or its metadata cannot be read. *)
SkipFile(c) ==
  /\ stage = "list" /\ c \in entries
  /\ entries' = entries \ {c}
  /\ UNCHANGED <<pc, now, pcap, auditFiles, stage, listing, untried, total, crashes>>

Forget == stage' = "idle" /\ entries' = {} /\ listing' = NoListing /\ untried' = {} /\ total' = 0

(* A directory that cannot be read ends this cleanup. *)
ListingFails ==
  /\ stage = "list"
  /\ Forget
  /\ UNCHANGED <<pc, now, pcap, auditFiles, crashes>>

TooOld(c) == listing[c].modified + Retention < now

EndListing ==
  /\ stage = "list" /\ entries = {}
  /\ stage' = "age" /\ untried' = {c \in DOMAIN listing : TooOld(c)}
  /\ UNCHANGED <<pc, now, pcap, auditFiles, entries, listing, total, crashes>>

Removal(c) == pcap' \in {pcap, [pcap EXCEPT ![c] = NoFile]}

RemoveOld(c) ==
  /\ stage = "age" /\ c \in untried
  /\ Removal(c)
  /\ untried' = untried \ {c}
  /\ UNCHANGED <<pc, now, auditFiles, stage, entries, listing, total, crashes>>

EndAge_All ==   \* plausible bug: the files removed by age still count
  /\ stage = "age" /\ untried = {}
  /\ stage' = "size"
  /\ untried' = DOMAIN listing
  /\ total' = SizeOf(untried')
  /\ UNCHANGED <<pc, now, pcap, auditFiles, entries, listing, crashes>>

EndAge ==
  /\ stage = "age" /\ untried = {}
  /\ stage' = "size"
  /\ untried' = OnDisk(DOMAIN listing)
  /\ total' = SizeOf(untried')
  /\ UNCHANGED <<pc, now, pcap, auditFiles, entries, listing, crashes>>

RemoveOldest(c) ==
  /\ stage = "size" /\ total > MaxTotal /\ c \in untried
  /\ \A d \in untried : listing[c].modified <= listing[d].modified
  /\ Removal(c)
  /\ total' = IF pcap' = pcap THEN total ELSE total - listing[c].size
  /\ untried' = untried \ {c}
  /\ UNCHANGED <<pc, now, auditFiles, stage, entries, listing, crashes>>

EndCleanup ==
  /\ stage = "size" /\ (total <= MaxTotal \/ untried = {})
  /\ Forget
  /\ UNCHANGED <<pc, now, pcap, auditFiles, crashes>>

-----------------------------------------------------------------------------
Tick == /\ now < MaxNow
        /\ now' = now + 1
        /\ UNCHANGED <<pc, pcap, auditFiles, cleanup, crashes>>

(* The process ends and is started again; its first cleanup is due at once. *)
Crash ==
  /\ crashes < MaxCrashes
  /\ crashes' = crashes + 1
  /\ pc' = [c \in Conns |-> IF pc[c] = "off" THEN "off" ELSE "done"]
  /\ Forget
  /\ UNCHANGED <<now, pcap, auditFiles>>

Connection(c) == \/ StartCapture(c) \/ NoCapture(c) \/ WriteCapture(c) \/ FinishCapture(c)
                 \/ LockAudit(c) \/ RemoveRotated(c) \/ Rename(c)
                 \/ AppendLine(c) \/ TearLine(c) \/ AuditFails(c)

Cleanup == \/ StartCleanup \/ ListingFails \/ EndListing \/ EndAge \/ EndCleanup
           \/ \E c \in Conns : ListFile(c) \/ SkipFile(c) \/ RemoveOld(c) \/ RemoveOldest(c)

FilesNext == (\E c \in Conns : Connection(c)) \/ Cleanup \/ Tick \/ Crash

FilesSpec == FilesInit /\ [][FilesNext]_filesVars

-----------------------------------------------------------------------------
(* Properties. *)

(* capture.rs:294-323.  The cleanup removes a capture because it was too old, *)
(* as it was listed, or while the files it listed and did not remove exceed   *)
(* the limit together and this one is the oldest it has not tried; and it     *)
(* ends with them within the limit or all of them tried.  Failing removals    *)
(* and connections that write meanwhile change nothing of this.               *)
RemovedForLimit ==
  [][LET left == OnDisk(DOMAIN listing)
     IN /\ \A c \in Conns :
             pcap[c] # NoFile /\ pcap'[c] = NoFile =>
               /\ c \in left
               /\ \/ stage = "age" /\ TooOld(c)
                  \/ /\ SizeOf(left) > MaxTotal
                     /\ \A d \in left \cap untried : listing[c].modified <= listing[d].modified
        /\ stage = "size" /\ stage' = "idle" /\ crashes' = crashes =>
             SizeOf(left) <= MaxTotal \/ left \cap untried = {}]_filesVars

(* Of the lines in s, those of w alone are w[n + 1] to w[m], each once and in *)
(* their order.                                                               *)
Keeps(s, w, n, m) ==
  /\ n <= m
  /\ \A i \in 1..Len(s), j \in 1..Len(w) : s[i] = {w[j]} => j \in (n + 1)..m
  /\ \A j \in (n + 1)..m : \E i \in 1..Len(s) : s[i] = {w[j]}
  /\ \A h, i \in 1..Len(s), j, k \in 1..Len(w) : s[h] = {w[j]} /\ s[i] = {w[k]} /\ h < i => j < k

Lines(f) == IF f = NoFile THEN <<>> ELSE f.lines

(* capture.rs:159-179.  Of the lines that were accepted on a line of their    *)
(* own the newest are on disk, in their order and readable, and lines are     *)
(* only missing while a whole file's worth of newer text is there: the crash  *)
(* between the two steps of a rotation, a failing step and a torn line cost   *)
(* no other line.                                                             *)
AuditKept ==
  \E lost, mid \in 0..Len(written) :
    /\ Keeps(Lines(rotated), written, lost, mid)
    /\ Keeps(audit.lines, written, mid, Len(written))
    /\ lost > 0 => Len(Lines(rotated)) + Len(audit.lines) >= RotateAt

(* What makes it inductive.  Who holds the lock rotates a full file; a line   *)
(* is of connections that are done; and a torn line belongs to one whose line *)
(* does not count, so that whatever is appended to it does not either.        *)
FilesTyped ==
  /\ pc \in [Conns -> {"off", "open", "audit", "done"} \cup Locking]
  /\ audit \in AuditFiles /\ rotated \in AuditFiles \cup {NoFile}
  /\ written \in Seq(Conns)

RotatesFull ==
  \A c \in Conns :
    pc[c] \in Locking =>
      /\ \A d \in Conns : pc[d] \in Locking => c = d
      /\ pc[c] # "append" => Len(audit.lines) >= RotateAt

Mentions(s, w, c) == (\E i \in 1..Len(s) : c \in s[i]) \/ (\E j \in 1..Len(w) : w[j] = c)

DoneMentioned ==
  \A c \in Conns : pc[c] # "done" => ~Mentions(Lines(rotated), written, c)
                                    /\ ~Mentions(audit.lines, written, c)

TornNotOwn ==
  ~audit.ended => /\ audit.lines # <<>>
                  /\ \E c \in audit.lines[Len(audit.lines)] :
                       \A j \in 1..Len(written) : written[j] # c

FilesInv == FilesTyped /\ RotatesFull /\ DoneMentioned /\ TornNotOwn /\ AuditKept

(* The same for the cleanup: no file that it listed comes back once it is     *)
(* removed, and what it takes for the sum is the sum of what is left.         *)
CleanupTyped ==
  /\ now \in Nat /\ crashes \in Nat
  /\ pcap \in [Conns -> CaptureFiles \cup {NoFile}]
  /\ DOMAIN listing \subseteq Conns /\ \A c \in DOMAIN listing : listing[c] \in CaptureFiles
  /\ IsFiniteSet(BytesIn(listing, DOMAIN listing))
  /\ untried \subseteq DOMAIN listing
  /\ stage \in {"idle", "list"} => untried = {}

FilesStay == \A c \in Conns : pcap[c] # NoFile \/ c \in DOMAIN listing => pc[c] # "off"

TotalExact == stage = "size" => total = SizeOf(OnDisk(DOMAIN listing))

UntriedOld == stage = "age" => \A c \in untried : TooOld(c)

CleanupInv == CleanupTyped /\ FilesStay /\ TotalExact /\ UntriedOld
=============================================================================
