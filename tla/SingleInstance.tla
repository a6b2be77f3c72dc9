--------------------------- MODULE SingleInstance ---------------------------
(***************************************************************************)
(* Starts and ends of the desktop application (desktop/src/launcher.rs,    *)
(* main.rs): a start that finds the lock file asks the application behind  *)
(* it for its window and leaves; otherwise it becomes the application,     *)
(* with a log and a lock file of its own.  Nothing but these two files and *)
(* one HTTP request relates the processes.                                 *)
(***************************************************************************)
EXTENDS Naturals, FiniteSets

CONSTANTS MaxStarts,    \* bound: starts of the program
          MaxCrashes,   \* bound: of these, how many crash
          Absent, Truncated

ASSUME BoundAssumption == MaxStarts \in Nat /\ MaxCrashes \in Nat

Procs == 1..MaxStarts    \* in the order they start
Main  == 0               \* port 3307; the random port of a process is its number
Ports == {Main} \cup Procs

ASSUME NoPortAssumption == Absent \notin Ports

VARIABLES at,       \* per process: where main is
          seen,     \* per process: the port it read
          serving,  \* per process: bind, lock, or API server up
          port,     \* per process: the port it listens on
          lock,     \* contents of .rx.is.alive
          log,      \* processes that wrote to logs/wsrx.log; {} if there is none
          leftover, \* history: a start could not move the log it found away
          window,   \* processes with a window
          popup,    \* processes with a Popup in their event channel
          tray,     \* the setting running_in_tray, in config.toml
          raced,    \* history: a start met another start, an end, or a slow answer
          deaf      \* history: a Popup reached a process that was about to end

files   == <<lock, log, leftover>>
shown   == <<window, popup, tray>>
appVars == <<at, seen, serving, port, files, shown, raced, deaf>>

AppInit == /\ at = [p \in Procs |-> "off"] /\ seen = [p \in Procs |-> Absent]
           /\ serving = [p \in Procs |-> "no"] /\ port = [p \in Procs |-> Absent]
           /\ lock = Absent /\ log = {} /\ leftover = FALSE
           /\ window = {} /\ popup = {} /\ tray \in BOOLEAN
           /\ raced = FALSE /\ deaf = FALSE

GoTo(p, to) == at' = [at EXCEPT ![p] = to]

Leaving  == {p \in Procs : at[p] \in {"archive", "unlock", "archive again", "unlock again"}}
Running  == {p \in Procs : at[p] = "running" /\ serving[p] = "up"}
Ended    == {"gone", "crashed"}
Starting == {p \in Procs : at[p] \notin Ended \cup {"off"}} \ (Leaving \cup Running)

-----------------------------------------------------------------------------
(* try_notify_existing_instance. *)

StartProgram(p) ==
  /\ at[p] = "off" /\ \A q \in 1..(p - 1) : at[q] # "off"
  /\ GoTo(p, "look")
  /\ raced' = (raced \/ Starting # {} \/ Leaving # {})
  /\ UNCHANGED <<seen, serving, port, files, shown, deaf>>

NoLock(p) ==
  /\ at[p] = "look" /\ lock = Absent
  /\ GoTo(p, "prepare")
  /\ UNCHANGED <<seen, serving, port, files, shown, raced, deaf>>

LockExists(p) ==
  /\ at[p] = "look" /\ lock # Absent
  /\ GoTo(p, "read")
  /\ UNCHANGED <<seen, serving, port, files, shown, raced, deaf>>

(* remove_lock_file prints an error and goes on: the file may stay. *)
RemoveLock == lock' \in {Absent, lock} /\ UNCHANGED <<log, leftover>>

(* A file that is gone by now, or has no number in it, is removed. *)
ReadLock(p) ==
  /\ at[p] = "read"
  /\ IF lock \in Ports
     THEN seen' = [seen EXCEPT ![p] = lock] /\ GoTo(p, "notify") /\ UNCHANGED files
     ELSE RemoveLock /\ GoTo(p, "prepare") /\ UNCHANGED seen
  /\ UNCHANGED <<serving, port, shown, raced, deaf>>

Behind(p) == {q \in Procs : serving[q] = "up" /\ port[q] = seen[p]}

(* popup_window puts the event into the channel, of a pump that may have     *)
(* stopped, and answers 200; the answer may be lost to the timeout.          *)
Notify(p) ==
  /\ at[p] = "notify"
  /\ \E q \in Behind(p) :
       /\ popup' = popup \cup {q}
       /\ deaf' = (deaf \/ q \in Leaving)
  /\ \/ GoTo(p, "gone") /\ UNCHANGED raced
     \/ GoTo(p, "stale") /\ raced' = TRUE
  /\ UNCHANGED <<seen, serving, port, files, window, tray>>

NotifyFails(p) ==
  /\ at[p] = "notify"
  /\ GoTo(p, "stale")
  /\ raced' = (raced \/ Behind(p) # {})
  /\ UNCHANGED <<seen, serving, port, files, shown, deaf>>

RemoveStale_Not(p) ==   \* plausible bug: gives up when nobody answers
  /\ at[p] = "stale"
  /\ GoTo(p, "gone")
  /\ UNCHANGED <<seen, serving, port, files, shown, raced, deaf>>

RemoveStale(p) ==
  /\ at[p] = "stale"
  /\ RemoveLock
  /\ GoTo(p, "prepare")
  /\ UNCHANGED <<seen, serving, port, shown, raced, deaf>>

-----------------------------------------------------------------------------
(* The start of the application. *)

PrepareLogDir_Keeps(p) ==   \* plausible bug: only prunes
  /\ at[p] = "prepare"
  /\ GoTo(p, "logger")
  /\ UNCHANGED <<seen, serving, port, files, shown, raced, deaf>>

(* prepare_log_dir renames the log that an earlier session left, or prints   *)
(* that it cannot; the start goes on with that log then.                     *)
PrepareLogDir(p) ==
  /\ at[p] = "prepare"
  /\ \/ log' = {} /\ leftover' = FALSE
     \/ log # {} /\ UNCHANGED log /\ leftover' = TRUE
  /\ GoTo(p, "logger")
  /\ UNCHANGED <<seen, serving, port, lock, shown, raced, deaf>>

(* logging::setup, which appends, then spawn_background. *)
SetupLogger(p) ==
  /\ at[p] = "logger"
  /\ log' = log \cup {p}
  /\ GoTo(p, "open")
  /\ serving' = [serving EXCEPT ![p] = "bind"]
  /\ UNCHANGED <<seen, port, lock, leftover, shown, raced, deaf>>

OpenWindow(p) ==
  /\ at[p] = "open"
  /\ window' = window \cup {p}
  /\ GoTo(p, "running")
  /\ UNCHANGED <<seen, serving, port, files, popup, tray, raced, deaf>>

(* api::serve, in a task of its own; any program may hold the preferred port. *)
(* write_lock_file truncates, then writes; an error ends the process, which   *)
(* is a Crash before or after the truncation.                                 *)
Bind(p) ==
  /\ serving[p] = "bind"
  /\ \E free \in {p, Main} :
       /\ \A q \in Procs : port[q] # free
       /\ port' = [port EXCEPT ![p] = free]
  /\ serving' = [serving EXCEPT ![p] = "lock"]
  /\ lock' = Truncated
  /\ UNCHANGED <<at, seen, log, leftover, shown, raced, deaf>>

WriteLockFile(p) ==
  /\ serving[p] = "lock"
  /\ lock' = port[p]
  /\ serving' = [serving EXCEPT ![p] = "up"]
  /\ UNCHANGED <<at, seen, port, log, leftover, shown, raced, deaf>>

-----------------------------------------------------------------------------
(* The window, and the end. *)

(* UiEvent::Popup: the window is raised, or opened again. *)
ShowWindow(p) ==
  /\ at[p] = "running" /\ p \in popup
  /\ popup' = popup \ {p}
  /\ window' = window \cup {p}
  /\ UNCHANGED <<at, seen, serving, port, files, tray, raced, deaf>>

CloseToTray(p) ==
  /\ at[p] = "running" /\ p \in window /\ tray
  /\ window' = window \ {p}
  /\ UNCHANGED <<at, seen, serving, port, files, popup, tray, raced, deaf>>

ToggleTray(p) ==
  /\ at[p] = "running" /\ p \in window
  /\ tray' = ~tray
  /\ UNCHANGED <<at, seen, serving, port, files, window, popup, raced, deaf>>

(* The window is closed without a tray, or the tray's menu says Quit.  What  *)
(* is in the channel then is never looked at.                                *)
Quit(p) ==
  /\ at[p] = "running" /\ (tray \/ p \in window)
  /\ GoTo(p, "archive")
  /\ window' = window \ {p}
  /\ deaf' = (deaf \/ p \in popup)
  /\ raced' = (raced \/ Starting \ {p} # {})
  /\ UNCHANGED <<seen, serving, port, files, popup, tray>>

(* shutdown, once for itself and once from on_app_quit; either step may fail, *)
(* which is printed, and leave its file to the next start.                    *)
Archive(p) ==
  /\ at[p] \in {"archive", "archive again"}
  /\ log' \in {{}, log}
  /\ GoTo(p, IF at[p] = "archive" THEN "unlock" ELSE "unlock again")
  /\ UNCHANGED <<seen, serving, port, lock, leftover, shown, raced, deaf>>

Unlock(p) ==
  /\ at[p] = "unlock"
  /\ RemoveLock
  /\ GoTo(p, "archive again")
  /\ UNCHANGED <<seen, serving, port, shown, raced, deaf>>

Over(p) == /\ serving' = [serving EXCEPT ![p] = "no"]
           /\ port' = [port EXCEPT ![p] = Absent]
           /\ window' = window \ {p} /\ popup' = popup \ {p}
           /\ deaf' = (deaf \/ p \in popup)

UnlockAgain(p) ==
  /\ at[p] = "unlock again"
  /\ RemoveLock
  /\ GoTo(p, "gone") /\ Over(p)
  /\ UNCHANGED <<seen, tray, raced>>

Crash(p) ==
  /\ at[p] \notin Ended \cup {"off"}
  /\ Cardinality({q \in Procs : at[q] = "crashed"}) < MaxCrashes
  /\ GoTo(p, "crashed") /\ Over(p)
  /\ UNCHANGED <<seen, files, tray, raced>>

Launch(p) == \/ NoLock(p) \/ LockExists(p) \/ ReadLock(p)
             \/ Notify(p) \/ NotifyFails(p) \/ RemoveStale(p)
             \/ PrepareLogDir(p) \/ SetupLogger(p) \/ OpenWindow(p)

Serve(p) == Bind(p) \/ WriteLockFile(p)

End(p) == Archive(p) \/ Unlock(p) \/ UnlockAgain(p)

AppNext == \E p \in Procs :
          \/ StartProgram(p) \/ Launch(p) \/ Serve(p)
          \/ ShowWindow(p) \/ CloseToTray(p) \/ ToggleTray(p) \/ Quit(p)
          \/ End(p) \/ Crash(p)

AppSpec == AppInit /\ [][AppNext]_appVars

(* A program that can go on does, and the pump takes its events. *)
FairAppSpec == AppSpec /\ \A p \in Procs : /\ WF_appVars(Launch(p)) /\ WF_appVars(Serve(p))
                                     /\ WF_appVars(End(p)) /\ WF_appVars(ShowWindow(p))

-----------------------------------------------------------------------------
(* Properties. *)

(* The live log of p holds nothing of an earlier session, unless the start   *)
(* of p could not move that away.                                            *)
OwnLog(p) == p \in log /\ (log = {p} \/ leftover)

(* launcher.rs:45-173, api.rs:36-39.  Unless a start met another one, an end, *)
(* or no answer within two seconds, one application runs, the lock file leads *)
(* to it, whatever earlier ends and crashes left behind, and it logs to the   *)
(* live log, its own but for a rename that failed when it started.            *)
OneInstance ==
  ~raced => /\ Cardinality(Running) <= 1
            /\ \A p \in Running : lock = port[p] /\ OwnLog(p)

(* main.rs:22-24, 132-151, launcher.rs:57-67.  Whoever starts the program     *)
(* gets to see a window, its own or that of the application that runs,        *)
(* stale lock files and closed windows notwithstanding, if it does not crash  *)
(* and the application is not just ending.                                    *)
StartShows ==
  \A p \in Procs : at[p] = "look" ~> window # {} \/ at[p] = "crashed" \/ deaf

(* What makes it inductive.  A process that took no application for running   *)
(* owns the files until it ends: nothing else does, starts, or ends then.     *)
Taking  == {"stale", "prepare", "logger", "open", "running"}
Holders == Leaving \cup {p \in Procs : at[p] \in Taking}

AppTyped ==
  /\ raced \in BOOLEAN
  /\ DOMAIN at = Procs /\ DOMAIN seen = Procs /\ DOMAIN serving = Procs /\ DOMAIN port = Procs
  /\ \A p \in Procs :
       /\ at[p] \in Ended \cup Taking \cup {"off", "look", "read", "notify"} \/ p \in Leaving
       /\ serving[p] \in {"no", "bind", "lock", "up"}
       /\ serving[p] # "no" => at[p] \in {"open", "running"} \/ p \in Leaving
       /\ serving[p] \in {"lock", "up"} => port[p] \in Ports

OneHolder ==
  /\ \A p, q \in Holders : p = q
  /\ \A p, q \in Starting : p = q
  /\ Starting = {} \/ Leaving = {}

FilesHeld ==
  \A p \in Procs :
    /\ at[p] = "logger" => log = {} \/ leftover
    /\ at[p] \in {"open", "running"} => OwnLog(p) /\ (serving[p] = "up" => lock = port[p])

(* A start that asks, asks the application that runs. *)
AskedRunning == \A p \in Procs, q \in Running : at[p] = "notify" => seen[p] = lock

AppInv == AppTyped /\ (~raced => OneHolder /\ FilesHeld /\ AskedRunning)
=============================================================================
