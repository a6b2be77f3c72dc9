---------------------------- MODULE DesktopScopes ----------------------------
(***************************************************************************)
(* The scopes of the desktop application: the web sites that asked for, or *)
(* got, control of it (desktop/src/daemon.rs, daemon/api.rs).  They live   *)
(* behind an async RwLock and in scopes.toml, which every handler rewrites *)
(* in place after its change, and the application loads when it starts.    *)
(*                                                                         *)
(* persist_scopes writes the file while it holds the lock for reading, so  *)
(* two writes may overlap but no change comes between a copy and its file. *)
(***************************************************************************)
CONSTANTS Scopes,   \* hosts
          Infos,    \* name, features and settings a site gives of itself
          Unwritable,  \* those TOML has no text for: settings are any JSON
          Pages,    \* slots of concurrent API requests
          Users,    \* slots of concurrent user actions
          None, Blank, Torn

Tasks  == Pages \cup Users
Entry  == [state : {"pending", "allowed"}, info : Infos]
Lists  == [Scopes -> Entry \cup {None}]
Nobody == [s \in Scopes |-> None]

ASSUME InfoAssumption == Unwritable \subseteq Infos
ASSUME SlotAssumption == Pages \cap Users = {}
ASSUME SentinelAssumption ==
  None \notin Entry /\ Blank \notin Lists /\ Torn \notin Lists /\ Blank # Torn

VARIABLES up,       \* the application runs
          loading,  \* load_persisted_state: "file", "apply", or "no" when it is over
          found,    \* the list it read from the file
          earlier,  \* history: what was in the file when the application started
          scopes,   \* ServerState.scopes
          pc,       \* per task: the await it is at, or "writing"
          copy,     \* per task: the text it is writing
          disk,     \* contents of scopes.toml; Blank when truncated or missing
          owed,     \* history: a change was given up, or a write failed
          approved  \* history: sites the user accepted, until a saved removal

startup == <<loading, found, earlier>>
vars    == <<up, startup, scopes, pc, copy, disk, owed, approved>>

Init == /\ up = TRUE
        /\ loading = "file" /\ found = Nobody /\ earlier = Nobody
        /\ scopes = Nobody
        /\ pc = [t \in Tasks |-> "idle"] /\ copy = [t \in Tasks |-> Nobody]
        /\ disk = Blank
        /\ owed = FALSE /\ approved = {}

Writers == {t \in Tasks : pc[t] = "writing"}
Damaged == {Blank, Torn}

(* write_scopes_to_disk: when toml::to_string fails the text is empty. *)
Text(list) ==
  IF \E s \in Scopes : list[s] # None /\ list[s].info \in Unwritable THEN Blank ELSE list

(* load_persisted_state: a missing or unparsable file is an empty list. *)
Read(text) == IF text \in Damaged THEN Nobody ELSE text
Load == Read(disk)

Goto(t, to) == pc' = [pc EXCEPT ![t] = to]

WriteLock_Unheld(t) == up /\ pc[t] = "idle"   \* plausible bug: persist copies and unlocks

(* scopes.write(): granted when no persist holds the lock for reading. *)
WriteLock(t) == up /\ pc[t] = "idle" /\ Writers = {}

-----------------------------------------------------------------------------
(* request_control: a site that is known already is not asked about again. *)
RequestControl(t, s, i) ==
  /\ WriteLock(t)
  /\ scopes[s] = None
  /\ scopes' = [scopes EXCEPT ![s] = [state |-> "pending", info |-> i]]
  /\ Goto(t, "persist")
  /\ UNCHANGED <<up, startup, copy, disk, owed, approved>>

UpdateWebsiteInfo_Whole(t, s, i) ==   \* plausible bug: takes over the body's state
  /\ WriteLock(t)
  /\ scopes[s] # None
  /\ \E given \in {"pending", "allowed"} :
       scopes' = [scopes EXCEPT ![s] = [state |-> given, info |-> i]]
  /\ Goto(t, "persist")
  /\ UNCHANGED <<up, startup, copy, disk, owed, approved>>

(* The body is a whole ScopeData; its host and state are not looked at. *)
UpdateWebsiteInfo(t, s, i) ==
  /\ WriteLock(t)
  /\ scopes[s] # None
  /\ scopes' = [scopes EXCEPT ![s].info = i]
  /\ Goto(t, "persist")
  /\ UNCHANGED <<up, startup, copy, disk, owed, approved>>

(* The user accepts a site; one that is gone is persisted all the same. *)
AllowScope(t, s) ==
  /\ WriteLock(t)
  /\ IF scopes[s] = None
     THEN UNCHANGED <<scopes, approved>>
     ELSE /\ scopes' = [scopes EXCEPT ![s].state = "allowed"]
          /\ approved' = approved \cup {s}
  /\ Goto(t, "persist")
  /\ UNCHANGED <<up, startup, copy, disk, owed>>

(* The user declines or removes a site.  The instances are next, under their *)
(* own lock; DesktopInstances has that part.                                 *)
RemoveScope(t, s) ==
  /\ WriteLock(t)
  /\ scopes[s] # None
  /\ scopes' = [scopes EXCEPT ![s] = None]
  /\ Goto(t, "sweep")
  /\ UNCHANGED <<up, startup, copy, disk, owed, approved>>

SweepInstances(t) ==
  /\ pc[t] = "sweep"
  /\ Goto(t, "persist")
  /\ UNCHANGED <<up, startup, scopes, copy, disk, owed, approved>>

(* shutdown saves the scopes whether they changed or not. *)
Shutdown(t) ==
  /\ up /\ pc[t] = "idle"
  /\ Goto(t, "persist")
  /\ UNCHANGED <<up, startup, scopes, copy, disk, owed, approved>>

-----------------------------------------------------------------------------
(* persist_scopes and persist_to. *)

(* The read lock, the text, and std::fs::write up to its O_TRUNC. *)
BeginWrite(t) ==
  /\ pc[t] = "persist"
  /\ Goto(t, "writing")
  /\ copy' = [copy EXCEPT ![t] = Text(scopes)]
  /\ disk' = Blank
  /\ UNCHANGED <<up, startup, scopes, owed, approved>>

(* The rest of fs::write.  Over the same text, or after a truncation, the    *)
(* file ends up whole; over another one, maybe not.  While somebody else     *)
(* still writes, its truncation may have left a hole.                        *)
Fresh(t) == disk \in {Blank, copy[t]}

Written(t) == {copy[t]} \cup (IF Fresh(t) THEN {} ELSE {Torn})
                        \cup (IF Writers = {t} THEN {} ELSE {Blank})

Done(t) == Goto(t, "idle") /\ copy' = [copy EXCEPT ![t] = Nobody]

EndWrite(t) ==
  /\ pc[t] = "writing"
  /\ disk' \in Written(t)
  /\ owed' = (owed /\ ~Fresh(t))
  /\ approved' = IF loading = "no" THEN {s \in approved : scopes[s] # None} ELSE approved
  /\ Done(t)
  /\ UNCHANGED <<up, startup, scopes>>

(* persist_to logs an error of create_dir_all or of fs::write and goes on. *)
NoDirectory(t) ==
  /\ pc[t] = "persist"
  /\ Goto(t, "idle")
  /\ owed' = TRUE
  /\ UNCHANGED <<up, startup, scopes, copy, disk, approved>>

(* Some of the text is in the file, which may parse as a shorter list. *)
Cut(text) ==
  IF text = Blank THEN {Blank}
  ELSE {Torn} \cup {[s \in Scopes |-> IF s \in kept THEN text[s] ELSE None] :
                      kept \in SUBSET Scopes}

WriteFails(t) ==
  /\ pc[t] = "writing"
  /\ disk' \in {disk} \cup Cut(copy[t])
  /\ owed' = TRUE
  /\ Done(t)
  /\ UNCHANGED <<up, startup, scopes, approved>>

-----------------------------------------------------------------------------
(* The page is closed and the server drops its request where it waits. *)
Abandon(t) ==
  /\ pc[t] = "persist"
  /\ Goto(t, "idle")
  /\ owed' = TRUE
  /\ UNCHANGED <<up, startup, scopes, copy, disk, approved>>

(* The application ends, with or without a shutdown before, and the threads  *)
(* that run handlers with it; then it starts again.                          *)
Exit == /\ up
        /\ up' = FALSE
        /\ loading' = "no" /\ found' = Nobody /\ earlier' = Nobody
        /\ scopes' = Nobody
        /\ pc' = [t \in Tasks |-> "idle"] /\ copy' = [t \in Tasks |-> Nobody]
        /\ UNCHANGED <<disk, owed, approved>>

(* spawn_background: from here on pages are served, the user has no window.  *)
Start == /\ ~up
         /\ up' = TRUE
         /\ loading' = "file" /\ earlier' = Load
         /\ UNCHANGED <<found, scopes, pc, copy, disk, owed, approved>>

(* load_persisted_state, which does not look at what memory holds by now.    *)
ReadFile == /\ up /\ loading = "file"
            /\ loading' = "apply" /\ found' = Load
            /\ UNCHANGED <<up, earlier, scopes, pc, copy, disk, owed, approved>>

ApplyFile == /\ up /\ loading = "apply" /\ Writers = {}
             /\ loading' = "no" /\ found' = Nobody /\ earlier' = Nobody
             /\ scopes' = found
             /\ owed' = (found # Load)
             /\ UNCHANGED <<up, pc, copy, disk, approved>>

Api(t) == \E s \in Scopes, i \in Infos : RequestControl(t, s, i) \/ UpdateWebsiteInfo(t, s, i)

User(t) == /\ loading = "no"
           /\ Shutdown(t) \/ \E s \in Scopes : AllowScope(t, s) \/ RemoveScope(t, s)

Persist(t) == BeginWrite(t) \/ EndWrite(t) \/ NoDirectory(t) \/ WriteFails(t)

Next == \/ \E t \in Pages : Api(t) \/ Abandon(t)
        \/ \E t \in Users : User(t) \/ SweepInstances(t)
        \/ \E t \in Tasks : Persist(t)
        \/ Exit \/ Start \/ ReadFile \/ ApplyFile

Spec == Init /\ [][Next]_vars

-----------------------------------------------------------------------------
(* Properties. *)

(* Types of ServerState.scopes, of the handlers and of the file. *)
TypeOK ==
  /\ up \in BOOLEAN /\ owed \in BOOLEAN
  /\ loading \in {"no", "file", "apply"} /\ found \in Lists /\ earlier \in Lists
  /\ scopes \in Lists
  /\ pc \in [Tasks -> {"idle", "sweep", "persist", "writing"}]
  /\ copy \in [Tasks -> Lists \cup {Blank}]
  /\ disk \in Lists \cup Damaged
  /\ approved \subseteq Scopes

Quiet == up /\ loading = "no" /\ ~owed /\ \A t \in Tasks : pc[t] = "idle"

(* daemon.rs:239-295.  When no handler is under way the file has the list as *)
(* it is in memory, in whatever order the handlers overlapped, if that list  *)
(* has a text, and unless since the last good write a write failed, a closed *)
(* page left its change, or a page wrote while the file was being loaded.    *)
ScopesOnDisk == Quiet /\ Text(scopes) = scopes => Load = scopes

(* daemon.rs:268: a change "Immediately persists the current scopes to       *)
(* `scopes.toml`".  This says so of every list.  One that toml::to_string    *)
(* refuses (daemon.rs:244-247) empties the file instead: it does not hold.   *)
EveryListOnDisk == Quiet => Load = scopes

(* daemon.rs:188, main.rs:39: the start "Loads persisted config and scopes   *)
(* into the shared state".  What is about to be put there has every site an  *)
(* earlier session persisted.  A page that is served before the load         *)
(* (main.rs:37-41) writes its own list over that file: it does not hold.     *)
EarlierIsLoaded ==
  loading = "apply" => \A s \in Scopes : earlier[s] # None => found[s] # None

Allowed(list) == {s \in Scopes : list[s] # None /\ list[s].state = "allowed"}

(* api.rs:286-303, daemon.rs:381-418.  No site is in control unless the user *)
(* accepted it; once its removal was saved, not without a new acceptance,    *)
(* through crashes and whatever a restart finds in the file.                 *)
AllowedWasApproved == Allowed(scopes) \cup Allowed(Load) \subseteq approved

(* What makes them inductive: a text being written is the list in memory,    *)
(* unless something failed the file holds nothing else, and that text when   *)
(* nobody is at work; what is in the file has a text, and so has the list    *)
(* that was read from it.                                                    *)
CopyIsCurrent ==
  \A t \in Writers : copy[t] = Text(scopes) /\ (owed \/ disk \in {Blank, Text(scopes)})

DiskIsCurrent == Quiet => Load = Read(Text(scopes))

DownIsIdle == ~up => scopes = Nobody /\ \A t \in Tasks : pc[t] = "idle"

DiskIsText == disk \in Damaged \/ Text(disk) = disk

FoundIsApproved ==
  loading = "apply" => Text(found) = found /\ Allowed(found) \subseteq approved

IInv == /\ TypeOK /\ CopyIsCurrent /\ DownIsIdle /\ DiskIsText /\ FoundIsApproved
        /\ DiskIsCurrent /\ AllowedWasApproved
=============================================================================
