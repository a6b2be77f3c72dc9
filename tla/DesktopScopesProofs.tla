------------------------- MODULE DesktopScopesProofs -------------------------
(***************************************************************************)
(* Proofs about DesktopScopes, for any number of sites, pages and user     *)
(* actions that overlap; and about SingleInstance, for any number of       *)
(* starts and crashes.                                                     *)
(***************************************************************************)
EXTENDS DesktopScopes, SingleInstance, FiniteSetTheorems, TLAPS

USE SentinelAssumption, SlotAssumption, InfoAssumption DEF Tasks

(* A step of one of the actions, or none. *)
LEMMA NextCases ==
  ASSUME [Next]_vars
  PROVE  \/ \E t \in Tasks, s \in Scopes, i \in Infos :
              RequestControl(t, s, i) \/ UpdateWebsiteInfo(t, s, i)
         \/ \E t \in Tasks, s \in Scopes : AllowScope(t, s) \/ RemoveScope(t, s)
         \/ \E t \in Tasks : \/ Abandon(t) \/ Shutdown(t) \/ SweepInstances(t)
                             \/ BeginWrite(t) \/ EndWrite(t)
                             \/ NoDirectory(t) \/ WriteFails(t)
         \/ Exit \/ Start \/ ReadFile \/ ApplyFile
         \/ UNCHANGED vars
  BY DEF Next, Api, User, Persist

(* The text of a list is that list or nothing. *)
LEMMA TextOfList ==
  ASSUME NEW list \in Lists
  PROVE  /\ Text(list) \in {list, Blank}
         /\ list \notin Damaged
  BY DEF Text, Damaged

LEMMA NobodyIsList == Nobody \in Lists
  BY DEF Nobody, Lists

(* What a failed write leaves is nothing, no TOML, or part of the list. *)
LEMMA CutOfText ==
  ASSUME NEW list \in Lists, NEW left \in Cut(Text(list))
  PROVE  \/ left \in Damaged
         \/ /\ left \in Lists /\ Text(left) = left
            /\ \A s \in Scopes : left[s] \in {list[s], None}
<1>1. CASE Text(list) = Blank
  BY <1>1 DEF Cut, Damaged
<1>2. CASE Text(list) # Blank /\ left # Torn
  <2>1. Text(list) = list /\ \A s \in Scopes : list[s] # None => list[s].info \notin Unwritable
    BY <1>2 DEF Text
  <2>2. PICK kept \in SUBSET Scopes : left = [s \in Scopes |-> IF s \in kept THEN list[s] ELSE None]
    BY <1>2, <2>1 DEF Cut
  <2>3. left \in Lists /\ \A s \in Scopes : left[s] \in {list[s], None}
    BY <2>2 DEF Lists
  <2>4. Text(left) = left
    BY <2>1, <2>3 DEF Text
  <2>5. QED BY <2>3, <2>4
<1>3. CASE left = Torn
  BY <1>3 DEF Damaged
<1>4. QED BY <1>1, <1>2, <1>3

-----------------------------------------------------------------------------
LEMMA TypeInit == Init => TypeOK
  BY NobodyIsList DEF Init, TypeOK, Damaged

LEMMA TypeStep ==
  ASSUME TypeOK, CopyIsCurrent, [Next]_vars
  PROVE  TypeOK'
<1> USE DEF TypeOK, Goto, startup
<1>1. ASSUME NEW t \in Tasks, NEW s \in Scopes, NEW i \in Infos, RequestControl(t, s, i)
      PROVE  TypeOK'
  <2>1. scopes' \in Lists
    BY <1>1 DEF RequestControl, Lists, Entry
  <2>2. QED BY <1>1, <2>1 DEF RequestControl
<1>2. ASSUME NEW t \in Tasks, NEW s \in Scopes, NEW i \in Infos, UpdateWebsiteInfo(t, s, i)
      PROVE  TypeOK'
  <2>1. scopes[s] \in Entry
    BY <1>2 DEF UpdateWebsiteInfo, Lists
  <2>2. scopes' \in Lists
    BY <1>2, <2>1 DEF UpdateWebsiteInfo, Lists, Entry
  <2>3. QED BY <1>2, <2>2 DEF UpdateWebsiteInfo
<1>3. ASSUME NEW t \in Tasks, NEW s \in Scopes, AllowScope(t, s)
      PROVE  TypeOK'
  <2>1. CASE scopes[s] = None
    BY <1>3, <2>1 DEF AllowScope
  <2>2. CASE scopes[s] # None
    <3>1. scopes[s] \in Entry
      BY <2>2 DEF Lists
    <3>2. scopes' \in Lists
      BY <1>3, <2>2, <3>1 DEF AllowScope, Lists, Entry
    <3>3. QED BY <1>3, <2>2, <3>2 DEF AllowScope
  <2>3. QED BY <2>1, <2>2
<1>4. ASSUME NEW t \in Tasks, NEW s \in Scopes, RemoveScope(t, s)
      PROVE  TypeOK'
  <2>1. scopes' \in Lists
    BY <1>4 DEF RemoveScope, Lists
  <2>2. QED BY <1>4, <2>1 DEF RemoveScope
<1>5. ASSUME NEW t \in Tasks, BeginWrite(t)
      PROVE  TypeOK'
  BY <1>5, TextOfList DEF BeginWrite, Damaged
<1>6. ASSUME NEW t \in Tasks, EndWrite(t)
      PROVE  TypeOK'
  <2>1. disk' \in Lists \cup Damaged
    BY <1>6 DEF EndWrite, Written, Damaged
  <2>2. QED BY <1>6, <2>1, NobodyIsList DEF EndWrite, Done
<1>7. ASSUME NEW t \in Tasks, WriteFails(t)
      PROVE  TypeOK'
  <2>1. copy[t] = Text(scopes)
    BY <1>7 DEF WriteFails, CopyIsCurrent, Writers
  <2>2. disk' \in Lists \cup Damaged
    BY <1>7, <2>1, CutOfText DEF WriteFails
  <2>3. QED BY <1>7, <2>2, NobodyIsList DEF WriteFails, Done
<1>8. ASSUME NEW t \in Tasks, Abandon(t) \/ Shutdown(t) \/ SweepInstances(t) \/ NoDirectory(t)
      PROVE  TypeOK'
  BY <1>8 DEF Abandon, Shutdown, SweepInstances, NoDirectory
<1>9. CASE Exit
  BY <1>9, NobodyIsList DEF Exit
<1>10. CASE Start \/ ReadFile \/ ApplyFile
  BY <1>10, NobodyIsList DEF Start, ReadFile, ApplyFile, Load, Read
<1>11. CASE UNCHANGED vars
  BY <1>11 DEF vars
<1>12. QED
  BY <1>1, <1>2, <1>3, <1>4, <1>5, <1>6, <1>7, <1>8, <1>9, <1>10, <1>11, NextCases

-----------------------------------------------------------------------------
(* The read lock keeps a list from changing while it is written. *)
LEMMA CopyStep ==
  ASSUME TypeOK, CopyIsCurrent, DownIsIdle, [Next]_vars
  PROVE  CopyIsCurrent' /\ DownIsIdle'
<1> USE DEF TypeOK, CopyIsCurrent, DownIsIdle, Writers, Goto
<1>1. ASSUME NEW t \in Tasks, NEW s \in Scopes, NEW i \in Infos,
             RequestControl(t, s, i) \/ UpdateWebsiteInfo(t, s, i)
      PROVE  CopyIsCurrent' /\ DownIsIdle'
  BY <1>1 DEF RequestControl, UpdateWebsiteInfo, WriteLock
<1>2. ASSUME NEW t \in Tasks, NEW s \in Scopes, AllowScope(t, s) \/ RemoveScope(t, s)
      PROVE  CopyIsCurrent' /\ DownIsIdle'
  BY <1>2 DEF AllowScope, RemoveScope, WriteLock
<1>3. ASSUME NEW t \in Tasks, BeginWrite(t)
      PROVE  CopyIsCurrent' /\ DownIsIdle'
  BY <1>3 DEF BeginWrite
<1>4. ASSUME NEW t \in Tasks, EndWrite(t)
      PROVE  CopyIsCurrent' /\ DownIsIdle'
  <2>1. copy[t] = Text(scopes) /\ up /\ up' /\ scopes' = scopes
    BY <1>4 DEF EndWrite
  <2>2. ~owed' => disk' \in {Blank, Text(scopes)}
    BY <1>4, <2>1 DEF EndWrite, Written, Fresh
  <2>3. QED BY <1>4, <2>1, <2>2 DEF EndWrite, Done
<1>5. ASSUME NEW t \in Tasks, WriteFails(t)
      PROVE  CopyIsCurrent' /\ DownIsIdle'
  BY <1>5 DEF WriteFails, Done
<1>6. ASSUME NEW t \in Tasks, Abandon(t) \/ Shutdown(t) \/ SweepInstances(t) \/ NoDirectory(t)
      PROVE  CopyIsCurrent' /\ DownIsIdle'
  BY <1>6 DEF Abandon, Shutdown, SweepInstances, NoDirectory
<1>7. CASE Exit
  BY <1>7 DEF Exit
<1>8. CASE Start \/ ReadFile \/ ApplyFile
  BY <1>8 DEF Start, ReadFile, ApplyFile
<1>9. CASE UNCHANGED vars
  BY <1>9 DEF vars
<1>10. QED
  BY <1>1, <1>2, <1>3, <1>4, <1>5, <1>6, <1>7, <1>8, <1>9, NextCases

(* What is in the file has a text: it was written from one. *)
LEMMA DiskStep ==
  ASSUME TypeOK, CopyIsCurrent, DiskIsText, [Next]_vars
  PROVE  DiskIsText'
<1> USE DEF DiskIsText
<1>1. CASE disk' = disk
  BY <1>1
<1>2. ASSUME NEW t \in Tasks, BeginWrite(t)
      PROVE  DiskIsText'
  BY <1>2 DEF BeginWrite, Damaged
<1>3. ASSUME NEW t \in Tasks, EndWrite(t)
      PROVE  DiskIsText'
  <2>1. copy[t] = Text(scopes)
    BY <1>3 DEF EndWrite, CopyIsCurrent, Writers
  <2>2. Text(scopes) = Blank \/ Text(Text(scopes)) = Text(scopes)
    BY TextOfList DEF TypeOK
  <2>3. disk' \in {Text(scopes), Torn, Blank}
    BY <1>3, <2>1 DEF EndWrite, Written
  <2>4. QED BY <2>2, <2>3 DEF Damaged
<1>4. ASSUME NEW t \in Tasks, WriteFails(t)
      PROVE  DiskIsText'
  <2>1. copy[t] = Text(scopes) /\ scopes \in Lists
    BY <1>4 DEF WriteFails, CopyIsCurrent, Writers, TypeOK
  <2>2. disk' = disk \/ disk' \in Damaged \/ Text(disk') = disk'
    BY <1>4, <2>1, CutOfText DEF WriteFails
  <2>3. QED BY <2>2
<1>5. QED
  <2>1. disk' = disk \/ \E t \in Tasks : BeginWrite(t) \/ EndWrite(t) \/ WriteFails(t)
    BY NextCases
       DEF RequestControl, UpdateWebsiteInfo, AllowScope, RemoveScope, Abandon, Shutdown,
           SweepInstances, NoDirectory, Exit, Start, ReadFile, ApplyFile, vars
  <2>2. QED BY <1>1, <1>2, <1>3, <1>4, <2>1

(* What was read from the file stays as it is until it is applied. *)
LEMMA FoundStep ==
  ASSUME TypeOK, DiskIsText, AllowedWasApproved, FoundIsApproved, [Next]_vars
  PROVE  FoundIsApproved'
<1> USE DEF FoundIsApproved
<1>0. Text(Nobody) = Nobody /\ Allowed(Nobody) = {}
  BY NobodyIsList DEF Text, Nobody, Allowed
<1>1. CASE ReadFile
  <2>1. found' = Load /\ approved' = approved
    BY <1>1 DEF ReadFile
  <2>2. Text(Load) = Load
    BY <1>0 DEF Load, Read, DiskIsText
  <2>3. QED BY <2>1, <2>2 DEF AllowedWasApproved
<1>2. CASE Exit \/ Start \/ ApplyFile
  BY <1>2 DEF Exit, Start, ApplyFile
<1>3. ASSUME NEW t \in Tasks, EndWrite(t)
      PROVE  FoundIsApproved'
  BY <1>3 DEF EndWrite, startup
<1>4. CASE UNCHANGED startup /\ approved \subseteq approved'
  BY <1>4 DEF startup
<1>5. QED
  <2>1. \/ ReadFile \/ Exit \/ Start \/ ApplyFile \/ \E t \in Tasks : EndWrite(t)
        \/ UNCHANGED startup /\ approved \subseteq approved'
    BY NextCases
       DEF RequestControl, UpdateWebsiteInfo, AllowScope, RemoveScope, Abandon, Shutdown,
           SweepInstances, BeginWrite, NoDirectory, WriteFails, vars
  <2>2. QED BY <1>1, <1>2, <1>3, <1>4, <2>1

(* A step that leaves nobody at work ended a write, or owes one. *)
LEMMA OnDiskStep ==
  ASSUME TypeOK, CopyIsCurrent, FoundIsApproved, DiskIsCurrent, [Next]_vars
  PROVE  DiskIsCurrent'
<1> SUFFICES ASSUME Quiet'
             PROVE  (Load = Read(Text(scopes)))'
  BY DEF DiskIsCurrent
<1> USE DEF TypeOK, Quiet, Goto, startup
<1>1. ASSUME NEW t \in Tasks, EndWrite(t)
      PROVE  (Load = Read(Text(scopes)))'
  <2>1. Writers = {t}
    BY <1>1 DEF EndWrite, Done, Writers
  <2>2. copy[t] = Text(scopes) /\ (owed \/ disk \in {Blank, Text(scopes)})
    BY <2>1 DEF CopyIsCurrent
  <2>3. Fresh(t)
    BY <1>1, <2>2 DEF EndWrite, Fresh
  <2>4. disk' = Text(scopes) /\ scopes' = scopes
    BY <1>1, <2>1, <2>2, <2>3 DEF EndWrite, Written
  <2>5. QED BY <2>4 DEF Load
<1>2. CASE ApplyFile
  <2>1. scopes' = Load /\ disk' = disk /\ Text(Load) = Load
    BY <1>2 DEF ApplyFile, FoundIsApproved
  <2>2. Load \notin Damaged
    BY NobodyIsList, TextOfList DEF Load, Read
  <2>3. QED BY <2>1, <2>2 DEF Load, Read
<1>3. CASE UNCHANGED vars
  BY <1>3 DEF vars, DiskIsCurrent, Load
<1>4. ASSUME NEW t \in Tasks, SweepInstances(t) \/ Shutdown(t) \/ BeginWrite(t)
                              \/ NoDirectory(t) \/ WriteFails(t) \/ Abandon(t)
      PROVE  FALSE
  BY <1>4 DEF SweepInstances, Shutdown, BeginWrite, NoDirectory, WriteFails, Abandon
<1>5. ASSUME NEW t \in Tasks, NEW s \in Scopes,
             \/ AllowScope(t, s) \/ RemoveScope(t, s)
             \/ \E i \in Infos : RequestControl(t, s, i) \/ UpdateWebsiteInfo(t, s, i)
      PROVE  FALSE
  BY <1>5 DEF AllowScope, RemoveScope, RequestControl, UpdateWebsiteInfo
<1>6. CASE Exit \/ Start \/ ReadFile
  BY <1>6 DEF Exit, Start, ReadFile
<1>7. QED
  BY <1>1, <1>2, <1>3, <1>4, <1>5, <1>6, NextCases

-----------------------------------------------------------------------------
(* Neither a text, nor a part of it, allows a site that its list does not. *)
LEMMA AllowedInText ==
  ASSUME NEW list \in Lists
  PROVE  Allowed(Read(Text(list))) \subseteq Allowed(list)
<1>1. Text(list) \in {list, Blank} /\ list \notin Damaged
  BY TextOfList
<1>2. QED BY <1>1 DEF Read, Damaged, Allowed, Nobody

LEMMA AllowedInCut ==
  ASSUME NEW list \in Lists, NEW left \in Cut(Text(list))
  PROVE  Allowed(Read(left)) \subseteq Allowed(list)
<1>1. CASE left \in Damaged
  BY <1>1 DEF Read, Allowed, Nobody
<1>2. CASE left \notin Damaged
  <2>1. \A s \in Scopes : left[s] \in {list[s], None}
    BY <1>2, CutOfText
  <2>2. Read(left) = left
    BY <1>2 DEF Read
  <2>3. QED BY <2>1, <2>2 DEF Allowed
<1>3. QED BY <1>1, <1>2

LEMMA ApprovedStep ==
  ASSUME TypeOK, CopyIsCurrent, FoundIsApproved, AllowedWasApproved, [Next]_vars
  PROVE  AllowedWasApproved'
<1> USE DEF TypeOK
<1>0. Allowed(scopes) \subseteq approved /\ Allowed(Load) \subseteq approved
  BY DEF AllowedWasApproved
<1>1. ASSUME NEW t \in Tasks, NEW s \in Scopes, NEW i \in Infos, RequestControl(t, s, i)
      PROVE  AllowedWasApproved'
  <2>1. Allowed(scopes') \subseteq Allowed(scopes)
    BY <1>1 DEF RequestControl, Allowed, Lists
  <2>2. disk' = disk /\ approved' = approved
    BY <1>1 DEF RequestControl
  <2>3. QED BY <1>0, <2>1, <2>2 DEF AllowedWasApproved, Load
<1>2. ASSUME NEW t \in Tasks, NEW s \in Scopes, NEW i \in Infos, UpdateWebsiteInfo(t, s, i)
      PROVE  AllowedWasApproved'
  <2>1. scopes[s] \in Entry /\ scopes' = [scopes EXCEPT ![s].info = i]
    BY <1>2 DEF UpdateWebsiteInfo, Lists
  <2>2. \A r \in Scopes : r # s => scopes'[r] = scopes[r]
    BY <2>1 DEF Lists
  <2>3. scopes'[s].state = scopes[s].state
    BY <2>1 DEF Lists, Entry
  <2>4. Allowed(scopes') \subseteq Allowed(scopes)
    BY <2>1, <2>2, <2>3 DEF Allowed
  <2>5. disk' = disk /\ approved' = approved
    BY <1>2 DEF UpdateWebsiteInfo
  <2>6. QED BY <1>0, <2>4, <2>5 DEF AllowedWasApproved, Load
<1>3. ASSUME NEW t \in Tasks, NEW s \in Scopes, AllowScope(t, s)
      PROVE  AllowedWasApproved'
  <2>1. disk' = disk /\ approved \subseteq approved'
    BY <1>3 DEF AllowScope
  <2>2. Allowed(scopes') \subseteq approved'
    <3>1. CASE scopes[s] = None
      BY <1>0, <1>3, <3>1 DEF AllowScope
    <3>2. CASE scopes[s] # None
      <4>1. approved' = approved \cup {s} /\ scopes' = [scopes EXCEPT ![s].state = "allowed"]
        BY <1>3, <3>2 DEF AllowScope
      <4>2. \A r \in Scopes : r # s => scopes'[r] = scopes[r]
        BY <4>1 DEF Lists
      <4>3. QED BY <1>0, <4>1, <4>2 DEF Allowed
    <3>3. QED BY <3>1, <3>2
  <2>3. QED BY <1>0, <2>1, <2>2 DEF AllowedWasApproved, Load
<1>4. ASSUME NEW t \in Tasks, NEW s \in Scopes, RemoveScope(t, s)
      PROVE  AllowedWasApproved'
  <2>1. Allowed(scopes') \subseteq Allowed(scopes)
    BY <1>4 DEF RemoveScope, Allowed, Lists
  <2>2. disk' = disk /\ approved' = approved
    BY <1>4 DEF RemoveScope
  <2>3. QED BY <1>0, <2>1, <2>2 DEF AllowedWasApproved, Load
<1>5. ASSUME NEW t \in Tasks, BeginWrite(t)
      PROVE  AllowedWasApproved'
  <2>1. Allowed(Load') = {}
    BY <1>5 DEF BeginWrite, Load, Read, Damaged, Allowed, Nobody
  <2>2. scopes' = scopes /\ approved' = approved
    BY <1>5 DEF BeginWrite
  <2>3. QED BY <1>0, <2>1, <2>2 DEF AllowedWasApproved
<1>6. ASSUME NEW t \in Tasks, EndWrite(t)
      PROVE  AllowedWasApproved'
  <2>1. copy[t] = Text(scopes)
    BY <1>6 DEF EndWrite, CopyIsCurrent, Writers
  <2>2. Allowed(scopes) \subseteq approved'
    BY <1>0, <1>6 DEF EndWrite, Allowed
  <2>3. disk' \in {Text(scopes), Torn, Blank} /\ scopes' = scopes
    BY <1>6, <2>1 DEF EndWrite, Written
  <2>4. Allowed(Read(Torn)) = {} /\ Allowed(Read(Blank)) = {}
    BY DEF Read, Damaged, Allowed, Nobody
  <2>5. Allowed(Load') \subseteq Allowed(scopes)
    BY <2>3, <2>4, AllowedInText DEF Load
  <2>6. QED BY <2>2, <2>3, <2>5 DEF AllowedWasApproved
<1>7. ASSUME NEW t \in Tasks, WriteFails(t)
      PROVE  AllowedWasApproved'
  <2>1. copy[t] = Text(scopes)
    BY <1>7 DEF WriteFails, CopyIsCurrent, Writers
  <2>2. scopes' = scopes /\ approved' = approved
    BY <1>7 DEF WriteFails
  <2>3. Load' = Load \/ Allowed(Load') \subseteq Allowed(scopes)
    BY <1>7, <2>1, AllowedInCut DEF WriteFails, Load
  <2>4. QED BY <1>0, <2>2, <2>3 DEF AllowedWasApproved
<1>8. ASSUME NEW t \in Tasks, Abandon(t) \/ Shutdown(t) \/ SweepInstances(t) \/ NoDirectory(t)
      PROVE  AllowedWasApproved'
  BY <1>0, <1>8 DEF Abandon, Shutdown, SweepInstances, NoDirectory, AllowedWasApproved, Load
<1>9. CASE Exit
  BY <1>0, <1>9 DEF Exit, AllowedWasApproved, Load, Allowed, Nobody
<1>10. CASE Start \/ ReadFile \/ ApplyFile
  BY <1>0, <1>10 DEF Start, ReadFile, ApplyFile, FoundIsApproved, AllowedWasApproved, Load
<1>11. CASE UNCHANGED vars
  BY <1>0, <1>11 DEF vars, AllowedWasApproved, Load
<1>12. QED
  BY <1>1, <1>2, <1>3, <1>4, <1>5, <1>6, <1>7, <1>8, <1>9, <1>10, <1>11, NextCases

-----------------------------------------------------------------------------
LEMMA InvInit == Init => IInv
<1> SUFFICES ASSUME Init PROVE IInv
  OBVIOUS
<1>1. TypeOK
  BY TypeInit
<1>2. CopyIsCurrent /\ DownIsIdle /\ DiskIsText /\ FoundIsApproved
  BY DEF Init, CopyIsCurrent, Writers, DownIsIdle, DiskIsText, Damaged, FoundIsApproved,
         Text, Nobody, Allowed
<1>3. Text(Nobody) = Nobody /\ Nobody \notin Damaged
  BY TextOfList, NobodyIsList DEF Text, Nobody
<1>4. DiskIsCurrent
  BY <1>3 DEF Init, DiskIsCurrent, Load, Read, Damaged
<1>5. AllowedWasApproved
  BY DEF Init, AllowedWasApproved, Load, Read, Damaged, Allowed, Nobody
<1>6. QED BY <1>1, <1>2, <1>4, <1>5 DEF IInv

LEMMA InvStep == IInv /\ [Next]_vars => IInv'
  BY TypeStep, CopyStep, DiskStep, FoundStep, OnDiskStep, ApprovedStep DEF IInv

LEMMA Inductive == Spec => []IInv
  BY InvInit, InvStep, PTL DEF Spec

(* The list, the handlers and the file are well typed (daemon.rs,           *)
(* daemon/api.rs).                                                         *)
THEOREM TypeCorrect == Spec => []TypeOK
<1>1. IInv => TypeOK
  BY DEF IInv
<1>2. QED BY <1>1, Inductive, PTL

(* A list in memory that has a text is in scopes.toml when nobody is at work, *)
(* however the handlers of pages and user overlapped, unless a write failed   *)
(* or was given up since (daemon.rs:239-295).                                 *)
THEOREM ScopesAlwaysOnDisk == Spec => []ScopesOnDisk
<1>1. IInv => ScopesOnDisk
  <2>1. SUFFICES ASSUME IInv, Quiet, Text(scopes) = scopes PROVE Load = scopes
    BY DEF ScopesOnDisk
  <2>2. Load = Read(scopes) /\ scopes \in Lists
    BY <2>1 DEF IInv, DiskIsCurrent, TypeOK
  <2>3. scopes \notin Damaged
    BY <2>2, TextOfList
  <2>4. QED BY <2>2, <2>3 DEF Read
<1>2. QED BY <1>1, Inductive, PTL

(* No site is in control, now or after a restart, that the user did not     *)
(* accept since its last saved removal (api.rs:286-303, daemon.rs:381-418). *)
THEOREM AllowedIsApproved == Spec => []AllowedWasApproved
<1>1. IInv => AllowedWasApproved
  BY DEF IInv
<1>2. QED BY <1>1, Inductive, PTL

-----------------------------------------------------------------------------
(* Starts and ends of the application.  A step of one process, or none. *)
LEMMA AppNextCases ==
  ASSUME [AppNext]_appVars
  PROVE  \/ \E p \in Procs : \/ StartProgram(p) \/ NoLock(p) \/ LockExists(p) \/ ReadLock(p)
                             \/ Notify(p) \/ NotifyFails(p) \/ RemoveStale(p)
                             \/ PrepareLogDir(p) \/ SetupLogger(p) \/ OpenWindow(p)
                             \/ Bind(p) \/ WriteLockFile(p)
                             \/ ShowWindow(p) \/ CloseToTray(p) \/ ToggleTray(p) \/ Quit(p)
                             \/ Archive(p) \/ Unlock(p) \/ UnlockAgain(p) \/ Crash(p)
         \/ UNCHANGED appVars
  BY DEF AppNext, Launch, Serve, End

(* A process is of one kind, by its place in main and its API server. *)
LEMMA Kinds ==
  ASSUME AppTyped, NEW p \in Procs
  PROVE  /\ p \in Leaving <=> at[p] \in {"archive", "unlock", "archive again", "unlock again"}
         /\ p \in Running <=> at[p] = "running" /\ serving[p] = "up"
         /\ p \in Starting <=> \/ at[p] \in {"look", "read", "notify", "stale", "prepare",
                                             "logger", "open"}
                               \/ at[p] = "running" /\ serving[p] # "up"
         /\ p \in Holders <=> p \in Leaving \/ at[p] \in Taking
  BY DEF AppTyped, Leaving, Running, Starting, Holders, Ended, Taking

(* The processes that do not step stay what they are. *)
LEMMA OthersStay ==
  ASSUME NEW p \in Procs,
         \A q \in Procs \ {p} : at'[q] = at[q] /\ serving'[q] = serving[q]
  PROVE  \A q \in Procs \ {p} : /\ q \in Leaving' <=> q \in Leaving
                                /\ q \in Running' <=> q \in Running
                                /\ q \in Starting' <=> q \in Starting
                                /\ q \in Holders' <=> q \in Holders
  BY DEF Leaving, Running, Starting, Holders, Ended

LEMMA OneHolderKept ==
  ASSUME OneHolder, NEW p \in Procs,
         \A q \in Procs \ {p} : at'[q] = at[q] /\ serving'[q] = serving[q],
         p \in Holders' => p \in Holders \/ Holders \subseteq {p},
         p \in Starting' => p \in Starting \/ (Starting = {} /\ Leaving = {}),
         p \in Leaving' => p \in Leaving \/ Starting \subseteq {p},
         p \in Leaving' => p \notin Starting'
  PROVE  OneHolder'
  <1>1. \A q \in Procs \ {p} : /\ q \in Leaving' <=> q \in Leaving
                               /\ q \in Starting' <=> q \in Starting
                               /\ q \in Holders' <=> q \in Holders
    BY OthersStay
  <1>2. Holders \cup Starting \cup Leaving \subseteq Procs /\ (Holders \cup Starting \cup Leaving)' \subseteq Procs
    BY DEF Holders, Starting, Leaving, Procs
  <1>3. \A q, r \in Holders' : q = r
    BY <1>1, <1>2 DEF OneHolder
  <1>4. \A q, r \in Starting' : q = r
    BY <1>1, <1>2 DEF OneHolder
  <1>5. Starting' = {} \/ Leaving' = {}
    BY <1>1, <1>2 DEF OneHolder
  <1>6. QED BY <1>3, <1>4, <1>5 DEF OneHolder

(* What a step of p must see to, for what the others rely on. *)
LEMMA HeldKept ==
  ASSUME AppTyped, AppTyped', OneHolder, FilesHeld, AskedRunning, NEW p \in Procs,
         \A q \in Procs \ {p} : /\ at'[q] = at[q] /\ serving'[q] = serving[q]
                                /\ port'[q] = port[q] /\ seen'[q] = seen[q],
         p \in Holders' => p \in Holders \/ Holders \subseteq {p},
         p \in Starting' => p \in Starting \/ (Starting = {} /\ Leaving = {}),
         p \in Leaving' => p \in Leaving \/ Starting \subseteq {p},
         p \in Holders \/ Holders \subseteq {p} \/ UNCHANGED files,
         p \in Running' => p \in Starting \/ (p \in Running /\ lock' = lock),
         at'[p] = "notify" => lock' = lock /\ (seen'[p] = lock \/ (at[p] = "notify" /\ seen'[p] = seen[p])),
         at'[p] = "logger" => log' = {} \/ leftover',
         at'[p] \in {"open", "running"} => OwnLog(p)' /\ (serving'[p] = "up" => lock' = port'[p])
  PROVE  OneHolder' /\ FilesHeld' /\ AskedRunning'
  <1>1. p \in Leaving' => p \notin Starting'
    BY DEF Starting
  <1>2. OneHolder'
    BY <1>1, OneHolderKept
  <1>3. \A q \in Procs \ {p} : /\ q \in Leaving' <=> q \in Leaving
                               /\ q \in Running' <=> q \in Running
                               /\ q \in Starting' <=> q \in Starting
                               /\ q \in Holders' <=> q \in Holders
    BY OthersStay
  <1>4. \A q \in Procs \ {p} : q \in Holders => UNCHANGED files
    BY DEF OneHolder
  <1>5. FilesHeld'
    <2>1. \A q \in Procs \ {p} : at[q] \in {"logger", "open", "running"} => q \in Holders
      BY Kinds DEF Taking
    <2>2. ASSUME NEW q \in Procs \ {p}
          PROVE  /\ at'[q] = "logger" => log' = {} \/ leftover'
                 /\ at'[q] \in {"open", "running"} =>
                      OwnLog(q)' /\ (serving'[q] = "up" => lock' = port'[q])
      BY <1>4, <2>1 DEF FilesHeld, files, OwnLog
    <2>3. QED BY <2>2 DEF FilesHeld
  <1>6. AskedRunning'
    <2>1. SUFFICES ASSUME NEW q \in Procs, NEW r \in Running', at'[q] = "notify"
                   PROVE  seen'[q] = lock'
      BY DEF AskedRunning
    <2>2. r \in Procs
      BY DEF Running
    <2>3. CASE r # p
      <3>1. r \in Running /\ r \in Holders
        BY <1>3, <2>2, <2>3, Kinds DEF Taking
      <3>2. lock' = lock
        BY <1>4, <2>2, <2>3, <3>1 DEF files
      <3>3. QED BY <2>1, <3>1, <3>2 DEF AskedRunning
    <2>4. CASE r = p
      <3>1. q # p
        BY <2>1, <2>4 DEF Running
      <3>2. at[q] = "notify" /\ q \in Starting /\ seen'[q] = seen[q]
        BY <2>1, <3>1, Kinds
      <3>3. p \notin Starting
        BY <3>1, <3>2 DEF OneHolder
      <3>4. QED BY <2>4, <3>2, <3>3 DEF AskedRunning
    <2>5. QED BY <2>3, <2>4
  <1>7. QED BY <1>2, <1>5, <1>6

(* A start that is about to take over finds the files of nobody. *)
LEMMA NobodyHolds ==
  ASSUME AppTyped, OneHolder, NEW p \in Starting, at[p] \notin Taking, Running = {}
  PROVE  Holders = {}
  <1>1. SUFFICES ASSUME NEW h \in Holders PROVE FALSE
    OBVIOUS
  <1>2. h \in Procs /\ p \in Procs
    BY DEF Holders, Starting, Leaving
  <1>3. h \notin Leaving
    BY DEF OneHolder
  <1>4. h \in Starting \/ h \in Running
    BY <1>2, <1>3, Kinds DEF Taking
  <1>5. at[h] \in Taking
    BY <1>2, <1>3, Kinds
  <1>6. QED BY <1>4, <1>5 DEF OneHolder

(* The typing of the process that steps is all that is at stake. *)
LEMMA TypedKept ==
  ASSUME AppTyped, NEW p \in Procs, raced' \in BOOLEAN,
         DOMAIN at' = Procs, DOMAIN seen' = Procs, DOMAIN serving' = Procs, DOMAIN port' = Procs,
         \A q \in Procs \ {p} : /\ at'[q] = at[q] /\ serving'[q] = serving[q]
                                /\ port'[q] = port[q] /\ seen'[q] = seen[q],
         \/ at'[p] \in Ended \cup Taking \cup {"off", "look", "read", "notify"}
         \/ at'[p] \in {"archive", "unlock", "archive again", "unlock again"},
         serving'[p] \in {"no", "bind", "lock", "up"},
         serving'[p] # "no" => at'[p] \in {"open", "running", "archive", "unlock",
                                           "archive again", "unlock again"},
         serving'[p] \in {"lock", "up"} => port'[p] \in Ports
  PROVE  AppTyped'
  <1>1. \A q \in Procs \ {p} : q \in Leaving' <=> q \in Leaving
    BY OthersStay
  <1>2. p \in Leaving' <=> at'[p] \in {"archive", "unlock", "archive again", "unlock again"}
    BY DEF Leaving
  <1>3. QED BY <1>1, <1>2 DEF AppTyped

LEMMA AppFrame ==
  ASSUME AppTyped, NEW p \in Procs,
         \/ StartProgram(p) \/ NoLock(p) \/ LockExists(p) \/ ReadLock(p)
         \/ Notify(p) \/ NotifyFails(p) \/ RemoveStale(p)
         \/ PrepareLogDir(p) \/ SetupLogger(p) \/ OpenWindow(p)
         \/ Bind(p) \/ WriteLockFile(p) \/ Quit(p)
         \/ Archive(p) \/ Unlock(p) \/ UnlockAgain(p) \/ Crash(p)
  PROVE  /\ raced' \in BOOLEAN /\ (~raced' => ~raced)
         /\ DOMAIN at' = Procs /\ DOMAIN seen' = Procs /\ DOMAIN serving' = Procs
         /\ DOMAIN port' = Procs
         /\ \A q \in Procs \ {p} : /\ at'[q] = at[q] /\ serving'[q] = serving[q]
                                   /\ port'[q] = port[q] /\ seen'[q] = seen[q]
  <1> USE DEF AppTyped, GoTo, Over
  <1>1. CASE StartProgram(p) \/ NoLock(p) \/ LockExists(p) \/ ReadLock(p)
    BY <1>1 DEF StartProgram, NoLock, LockExists, ReadLock
  <1>2. CASE Notify(p) \/ NotifyFails(p) \/ RemoveStale(p)
    BY <1>2 DEF Notify, NotifyFails, RemoveStale
  <1>3. CASE PrepareLogDir(p) \/ SetupLogger(p) \/ OpenWindow(p)
    BY <1>3 DEF PrepareLogDir, SetupLogger, OpenWindow
  <1>4. CASE Bind(p) \/ WriteLockFile(p)
    BY <1>4 DEF Bind, WriteLockFile
  <1>5. CASE Quit(p) \/ Archive(p) \/ Unlock(p)
    BY <1>5 DEF Quit, Archive, Unlock
  <1>6. CASE UnlockAgain(p) \/ Crash(p)
    BY <1>6 DEF UnlockAgain, Crash
  <1>7. QED BY <1>1, <1>2, <1>3, <1>4, <1>5, <1>6

(* A step of p, from what it is to what it becomes. *)
LEMMA AppStep ==
  ASSUME AppInv, NEW p \in Procs,
         raced' \in BOOLEAN, ~raced' => ~raced,
         DOMAIN at' = Procs, DOMAIN seen' = Procs, DOMAIN serving' = Procs, DOMAIN port' = Procs,
         \A q \in Procs \ {p} : /\ at'[q] = at[q] /\ serving'[q] = serving[q]
                                /\ port'[q] = port[q] /\ seen'[q] = seen[q],
         \/ at'[p] \in Ended \cup Taking \cup {"off", "look", "read", "notify"}
         \/ at'[p] \in {"archive", "unlock", "archive again", "unlock again"},
         serving'[p] \in {"no", "bind", "lock", "up"},
         serving'[p] # "no" => at'[p] \in {"open", "running", "archive", "unlock",
                                           "archive again", "unlock again"},
         serving'[p] \in {"lock", "up"} => port'[p] \in Ports,
         ~raced' /\ AppTyped' /\ OneHolder /\ FilesHeld /\ AskedRunning =>
           /\ p \in Holders' => p \in Holders \/ Holders \subseteq {p}
           /\ p \in Starting' => p \in Starting \/ (Starting = {} /\ Leaving = {})
           /\ p \in Leaving' => p \in Leaving \/ Starting \subseteq {p}
           /\ p \in Holders \/ Holders \subseteq {p} \/ UNCHANGED files
           /\ p \in Running' => p \in Starting \/ (p \in Running /\ lock' = lock)
           /\ at'[p] = "notify" => /\ lock' = lock
                                   /\ seen'[p] = lock \/ (at[p] = "notify" /\ seen'[p] = seen[p])
           /\ at'[p] = "logger" => log' = {} \/ leftover'
           /\ at'[p] \in {"open", "running"} =>
                OwnLog(p)' /\ (serving'[p] = "up" => lock' = port'[p])
  PROVE  AppInv'
  <1>1. AppTyped'
    BY TypedKept DEF AppInv
  <1>2. ASSUME ~raced' PROVE OneHolder' /\ FilesHeld' /\ AskedRunning'
    BY <1>1, <1>2, HeldKept DEF AppInv
  <1>3. QED BY <1>1, <1>2 DEF AppInv

(* A start looks for the application that runs. *)
LEMMA LookKeeps ==
  ASSUME AppInv, NEW p \in Procs, StartProgram(p) \/ NoLock(p) \/ LockExists(p) \/ ReadLock(p)
  PROVE  AppInv'
  <1>1. AppTyped
    BY DEF AppInv
  <1>2. /\ raced' \in BOOLEAN /\ (~raced' => ~raced)
        /\ DOMAIN at' = Procs /\ DOMAIN seen' = Procs /\ DOMAIN serving' = Procs
        /\ DOMAIN port' = Procs
        /\ \A q \in Procs \ {p} : /\ at'[q] = at[q] /\ serving'[q] = serving[q]
                                  /\ port'[q] = port[q] /\ seen'[q] = seen[q]
    BY <1>1, AppFrame
  <1>3. /\ at[p] \in {"off", "look", "read"} /\ at'[p] \in {"look", "read", "notify", "prepare"}
        /\ serving' = serving /\ port' = port /\ log' = log
    BY <1>1 DEF StartProgram, NoLock, LockExists, ReadLock, RemoveLock, GoTo, files, AppTyped
  <1>4. serving'[p] = "no"
    BY <1>1, <1>3 DEF AppTyped, Leaving
  <1>5. p \in Starting' /\ p \notin Leaving' /\ p \notin Running'
    BY <1>3 DEF Starting, Leaving, Running, Ended
  <1>6. p \in Holders' => at'[p] = "prepare"
    BY <1>3, <1>5 DEF Holders, Taking
  <1>7. ASSUME OneHolder, FilesHeld, AskedRunning, ~raced'
        PROVE  /\ p \in Starting \/ (Starting = {} /\ Leaving = {})
               /\ at'[p] = "prepare" => Holders = {}
               /\ Holders = {} \/ UNCHANGED files
               /\ at'[p] = "notify" => lock' = lock /\ seen'[p] = lock
    <2>1. CASE StartProgram(p)
      <3>1. at'[p] = "look" /\ UNCHANGED files /\ Starting = {} /\ Leaving = {}
        BY <1>1, <1>7, <2>1 DEF StartProgram, GoTo, AppTyped
      <3>2. QED BY <3>1
    <2>2. CASE LockExists(p)
      <3>1. at'[p] = "read" /\ UNCHANGED files /\ at[p] = "look"
        BY <1>1, <2>2 DEF LockExists, GoTo, AppTyped
      <3>2. QED BY <1>1, <3>1, Kinds
    <2>3. ASSUME at[p] \in {"look", "read"}, lock \notin Ports
          PROVE  p \in Starting /\ Holders = {}
      <3>1. p \in Starting /\ at[p] \notin Taking
        BY <1>1, <2>3, Kinds DEF Taking
      <3>2. Running = {}
        BY <1>1, <1>7, <2>3 DEF Running, FilesHeld, AppTyped
      <3>3. QED BY <1>1, <1>7, <3>1, <3>2, NobodyHolds
    <2>4. CASE NoLock(p)
      <3>1. at[p] = "look" /\ lock \notin Ports /\ UNCHANGED files /\ at'[p] = "prepare"
        BY <1>1, <2>4, NoPortAssumption DEF NoLock, GoTo, AppTyped
      <3>2. QED BY <2>3, <3>1
    <2>5. CASE ReadLock(p)
      <3>1. CASE lock \in Ports
        <4>1. /\ at[p] = "read" /\ at'[p] = "notify" /\ lock' = lock /\ seen'[p] = lock
              /\ UNCHANGED files
          BY <1>1, <2>5, <3>1 DEF ReadLock, GoTo, AppTyped, files
        <4>2. QED BY <1>1, <4>1, Kinds
      <3>2. CASE lock \notin Ports
        <4>1. at[p] = "read" /\ at'[p] = "prepare"
          BY <1>1, <2>5, <3>2 DEF ReadLock, GoTo, AppTyped
        <4>2. QED BY <2>3, <3>2, <4>1
      <3>3. QED BY <3>1, <3>2
    <2>6. QED BY <2>1, <2>2, <2>4, <2>5
  <1>8. QED BY <1>2, <1>3, <1>4, <1>5, <1>6, <1>7, AppStep DEF Taking

(* It asks, and takes the file for stale if nobody answers. *)
LEMMA NotifyKeeps ==
  ASSUME AppInv, NEW p \in Procs, Notify(p) \/ NotifyFails(p)
  PROVE  AppInv'
  <1>1. AppTyped
    BY DEF AppInv
  <1>2. /\ raced' \in BOOLEAN /\ (~raced' => ~raced)
        /\ DOMAIN at' = Procs /\ DOMAIN seen' = Procs /\ DOMAIN serving' = Procs
        /\ DOMAIN port' = Procs
        /\ \A q \in Procs \ {p} : /\ at'[q] = at[q] /\ serving'[q] = serving[q]
                                  /\ port'[q] = port[q] /\ seen'[q] = seen[q]
    BY <1>1, AppFrame
  <1>3. /\ at[p] = "notify" /\ at'[p] \in {"gone", "stale"}
        /\ UNCHANGED files /\ serving' = serving /\ port' = port
        /\ at'[p] = "stale" /\ ~raced' => Behind(p) = {}
    BY <1>1, <1>2 DEF Notify, NotifyFails, GoTo, AppTyped
  <1>4. serving'[p] = "no" /\ p \in Starting /\ at[p] \notin Taking
    BY <1>1, <1>3, Kinds DEF AppTyped, Leaving, Taking
  <1>5. p \notin Leaving' /\ p \notin Running'
    BY <1>3 DEF Leaving, Running
  <1>6. p \in Holders' => at'[p] = "stale"
    BY <1>3, <1>5 DEF Holders, Taking
  <1>7. ASSUME OneHolder, FilesHeld, AskedRunning, ~raced', at'[p] = "stale"
        PROVE  Holders = {}
    <2>1. \A q \in Running : q \in Procs /\ serving[q] = "up" /\ port[q] = seen[p]
      BY <1>3, <1>7 DEF Running, FilesHeld, AskedRunning
    <2>2. Running = {}
      BY <1>3, <1>7, <2>1 DEF Behind
    <2>3. QED BY <1>1, <1>4, <1>7, <2>2, NobodyHolds
  <1>8. QED BY <1>2, <1>3, <1>4, <1>5, <1>6, <1>7, AppStep DEF Taking, Ended

(* It becomes the application. *)
LEMMA PrepareKeeps ==
  ASSUME AppInv, NEW p \in Procs,
         \/ RemoveStale(p) \/ PrepareLogDir(p) \/ SetupLogger(p) \/ OpenWindow(p)
         \/ Bind(p) \/ WriteLockFile(p)
  PROVE  AppInv'
  <1>1. AppTyped
    BY DEF AppInv
  <1>2. /\ raced' \in BOOLEAN /\ (~raced' => ~raced)
        /\ DOMAIN at' = Procs /\ DOMAIN seen' = Procs /\ DOMAIN serving' = Procs
        /\ DOMAIN port' = Procs
        /\ \A q \in Procs \ {p} : /\ at'[q] = at[q] /\ serving'[q] = serving[q]
                                  /\ port'[q] = port[q] /\ seen'[q] = seen[q]
    BY <1>1, AppFrame
  <1>3. CASE RemoveStale(p) \/ PrepareLogDir(p)
    <2>1. /\ at[p] \in {"stale", "prepare"} /\ at'[p] \in {"prepare", "logger"}
          /\ at'[p] = "logger" => log' = {} \/ leftover'
          /\ serving' = serving /\ port' = port
      BY <1>1, <1>3 DEF RemoveStale, PrepareLogDir, GoTo, AppTyped
    <2>2. serving'[p] = "no" /\ p \in Starting /\ p \in Holders
      BY <1>1, <2>1, Kinds DEF AppTyped, Leaving, Taking
    <2>3. p \notin Leaving' /\ p \notin Running'
      BY <2>1 DEF Leaving, Running
    <2>4. QED BY <1>2, <2>1, <2>2, <2>3, AppStep DEF Taking
  <1>4. CASE SetupLogger(p)
    <2>1. /\ at[p] = "logger" /\ at'[p] = "open" /\ log' = log \cup {p}
          /\ serving'[p] = "bind" /\ leftover' = leftover
      BY <1>1, <1>4 DEF SetupLogger, GoTo, AppTyped
    <2>2. p \in Starting /\ p \in Holders
      BY <1>1, <2>1, Kinds DEF Taking
    <2>3. p \notin Leaving' /\ p \notin Running'
      BY <2>1 DEF Leaving, Running
    <2>4. FilesHeld => OwnLog(p)'
      BY <2>1 DEF FilesHeld, OwnLog
    <2>5. QED BY <1>2, <2>1, <2>2, <2>3, <2>4, AppStep DEF Taking
  <1>5. CASE OpenWindow(p)
    <2>1. /\ at[p] = "open" /\ at'[p] = "running" /\ UNCHANGED files
          /\ serving' = serving /\ port' = port
      BY <1>1, <1>5 DEF OpenWindow, GoTo, AppTyped
    <2>2. p \in Starting /\ p \in Holders
      BY <1>1, <2>1, Kinds DEF Taking
    <2>3. p \notin Leaving'
      BY <2>1 DEF Leaving
    <2>4. serving[p] \in {"no", "bind", "lock", "up"} /\ (serving[p] \in {"lock", "up"} => port[p] \in Ports)
      BY <1>1 DEF AppTyped
    <2>5. FilesHeld => OwnLog(p)' /\ (serving[p] = "up" => lock' = port[p])
      BY <2>1 DEF FilesHeld, files, OwnLog
    <2>6. QED BY <1>2, <2>1, <2>2, <2>3, <2>4, <2>5, AppStep DEF Taking
  <1>6. CASE Bind(p) \/ WriteLockFile(p)
    <2>1. /\ serving[p] \in {"bind", "lock"} /\ serving'[p] \in {"lock", "up"}
          /\ at' = at /\ log' = log /\ leftover' = leftover
          /\ serving'[p] = "up" => lock' = port'[p]
      BY <1>1, <1>6 DEF Bind, WriteLockFile, AppTyped
    <2>2. port'[p] \in Ports
      <3>1. CASE Bind(p)
        BY <1>1, <3>1 DEF Bind, Ports, AppTyped
      <3>2. CASE WriteLockFile(p)
        BY <1>1, <3>2 DEF WriteLockFile, AppTyped
      <3>3. QED BY <1>6, <3>1, <3>2
    <2>3. at[p] \in {"open", "running"} \/ p \in Leaving
      BY <1>1, <2>1 DEF AppTyped
    <2>4. p \in Holders /\ (p \in Starting \/ p \in Leaving) /\ p \notin Running
      BY <1>1, <2>1, <2>3, Kinds DEF Taking
    <2>5. /\ p \in Leaving' <=> p \in Leaving
          /\ at[p] \in {"open", "running", "archive", "unlock", "archive again", "unlock again"}
          /\ p \in Leaving => p \notin Starting' /\ p \notin Running'
      BY <2>1, <2>3 DEF Leaving, Starting, Running
    <2>6. FilesHeld => (at[p] \in {"open", "running"} => OwnLog(p)')
      BY <2>1 DEF FilesHeld, OwnLog
    <2>7. QED BY <1>2, <2>1, <2>2, <2>4, <2>5, <2>6, AppStep DEF Taking
  <1>7. QED BY <1>3, <1>4, <1>5, <1>6

(* It ends. *)
LEMMA EndKeeps ==
  ASSUME AppInv, NEW p \in Procs,
         Quit(p) \/ Archive(p) \/ Unlock(p) \/ UnlockAgain(p) \/ Crash(p)
  PROVE  AppInv'
  <1>1. AppTyped
    BY DEF AppInv
  <1>2. /\ raced' \in BOOLEAN /\ (~raced' => ~raced)
        /\ DOMAIN at' = Procs /\ DOMAIN seen' = Procs /\ DOMAIN serving' = Procs
        /\ DOMAIN port' = Procs
        /\ \A q \in Procs \ {p} : /\ at'[q] = at[q] /\ serving'[q] = serving[q]
                                  /\ port'[q] = port[q] /\ seen'[q] = seen[q]
    BY <1>1, AppFrame
  <1>3. CASE Quit(p)
    <2>1. /\ at[p] = "running" /\ at'[p] = "archive" /\ UNCHANGED files
          /\ serving' = serving /\ port' = port
          /\ ~raced' => Starting \subseteq {p}
      BY <1>1, <1>2, <1>3 DEF Quit, GoTo, AppTyped
    <2>2. p \in Holders
      BY <1>1, <2>1, Kinds DEF Taking
    <2>3. p \in Leaving' /\ p \notin Starting' /\ p \notin Running'
      BY <2>1 DEF Leaving, Starting, Running
    <2>4. serving[p] \in {"no", "bind", "lock", "up"} /\ (serving[p] \in {"lock", "up"} => port[p] \in Ports)
      BY <1>1 DEF AppTyped
    <2>5. QED BY <1>2, <2>1, <2>2, <2>3, <2>4, AppStep DEF Taking
  <1>4. CASE Archive(p) \/ Unlock(p)
    <2>1. /\ at[p] \in {"archive", "unlock", "archive again"}
          /\ at'[p] \in {"unlock", "archive again", "unlock again"}
          /\ serving' = serving /\ port' = port
      BY <1>1, <1>4 DEF Archive, Unlock, GoTo, AppTyped
    <2>2. p \in Leaving /\ p \in Holders
      BY <1>1, <2>1, Kinds
    <2>3. p \in Leaving' /\ p \notin Starting' /\ p \notin Running'
      BY <2>1 DEF Leaving, Starting, Running
    <2>4. serving[p] \in {"no", "bind", "lock", "up"} /\ (serving[p] \in {"lock", "up"} => port[p] \in Ports)
      BY <1>1 DEF AppTyped
    <2>5. QED BY <1>2, <2>1, <2>2, <2>3, <2>4, AppStep DEF Taking
  <1>5. CASE UnlockAgain(p) \/ Crash(p)
    <2>1. /\ at'[p] \in Ended /\ serving'[p] = "no"
          /\ at[p] = "unlock again" \/ UNCHANGED files
      BY <1>1, <1>5 DEF UnlockAgain, Crash, GoTo, Over, AppTyped, Ended
    <2>2. at[p] = "unlock again" => p \in Holders
      BY <1>1, Kinds
    <2>3. p \notin Leaving' /\ p \notin Starting' /\ p \notin Running' /\ p \notin Holders'
      BY <2>1 DEF Leaving, Starting, Running, Holders, Ended, Taking
    <2>4. QED BY <1>2, <2>1, <2>2, <2>3, AppStep DEF Ended
  <1>6. QED BY <1>3, <1>4, <1>5

LEMMA AppInvariance == AppSpec => []AppInv
  <1>1. AppInit => AppInv
    BY DEF AppInit, AppInv, AppTyped, OneHolder, FilesHeld, AskedRunning, Holders, Starting, Leaving,
           Running, Ended, Taking
  <1>2. AppInv /\ [AppNext]_appVars => AppInv'
    <2> SUFFICES ASSUME AppInv, [AppNext]_appVars PROVE AppInv'
      OBVIOUS
    <2>1. ASSUME \/ UNCHANGED appVars
                 \/ \E p \in Procs : ShowWindow(p) \/ CloseToTray(p) \/ ToggleTray(p)
          PROVE  AppInv'
      <3>1. UNCHANGED <<at, seen, serving, port, lock, log, leftover, raced>>
        BY <2>1 DEF appVars, ShowWindow, CloseToTray, ToggleTray, files
      <3>2. UNCHANGED <<Leaving, Running>>
        BY <3>1 DEF Leaving, Running
      <3>3. UNCHANGED <<Starting, Holders>>
        BY <3>1, <3>2 DEF Starting, Holders
      <3>4. AppTyped'
        BY <3>1, <3>2 DEF AppInv, AppTyped
      <3>5. (OneHolder /\ FilesHeld /\ AskedRunning)' <=> OneHolder /\ FilesHeld /\ AskedRunning
        BY <3>1, <3>2, <3>3 DEF OneHolder, FilesHeld, OwnLog, AskedRunning
      <3>6. QED BY <3>1, <3>4, <3>5 DEF AppInv
    <2>2. QED BY <2>1, AppNextCases, LookKeeps, NotifyKeeps, PrepareKeeps, EndKeeps
  <1>3. QED BY <1>1, <1>2, PTL DEF AppSpec

(* For any number of starts and crashes: unless a start met another one, an  *)
(* end or a late answer, one application runs, the lock file leads to it,    *)
(* and it logs to the live log, which is its own alone if the start could    *)
(* move an earlier one away (launcher.rs:45-173, api.rs:36-39).              *)
THEOREM OnlyOneInstance == AppSpec => []OneInstance
  <1>1. AppInv => OneInstance
    <2>1. SUFFICES ASSUME AppInv, ~raced
                   PROVE  /\ Cardinality(Running) <= 1
                          /\ \A p \in Running : lock = port[p] /\ OwnLog(p)
      BY DEF OneInstance
    <2>2. \A p \in Running : p \in Procs /\ at[p] = "running" /\ serving[p] = "up" /\ p \in Holders
      BY DEF Running, Holders, Taking
    <2>3. \A p, q \in Running : p = q
      BY <2>1, <2>2 DEF AppInv, OneHolder
    <2>4. Cardinality(Running) <= 1
      <3>1. CASE Running = {}
        BY <3>1, FS_EmptySet
      <3>2. ASSUME NEW p \in Running PROVE Cardinality(Running) <= 1
        <4>1. Running = {p}
          BY <2>3
        <4>2. Cardinality({p}) = 1
          BY FS_Singleton
        <4>3. QED BY <4>1, <4>2
      <3>3. QED BY <3>1, <3>2
    <2>5. QED BY <2>1, <2>2, <2>4 DEF AppInv, FilesHeld
  <1>2. QED BY <1>1, AppInvariance, PTL
=============================================================================
