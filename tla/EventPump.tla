------------------------------ MODULE EventPump ------------------------------
(***************************************************************************)
(* The events of the desktop application, from the daemon's tasks to the   *)
(* window (desktop/src/main.rs, ui/root.rs).  The pump runs on the UI      *)
(* thread and drains the channel without a pause while it collects log     *)
(* lines; the senders run beside it.  The window keeps copies of what it   *)
(* shows, and may be closed to the tray and opened again.                  *)
(***************************************************************************)
EXTENDS Naturals, Sequences

CONSTANTS MaxLogs,      \* lines that are kept (1000)
          Port,         \* the port of the API server
          Closed,       \* no window
          MaxLines,     \* bound: lines of wsrx.log
          MaxChanges,   \* bound: changes of scopes or instances
          MaxPopups,    \* bound: requests for the window
          MaxQueue      \* bound: events in the channel, which has no limit

ASSUME PumpAssumption == /\ MaxLogs \in Nat \ {0} /\ Port \in Nat \ {0}
                         /\ {MaxLines, MaxChanges, MaxPopups, MaxQueue} \subseteq Nat

(* What a window copies of the shared state. *)
Views == [lists : Nat, port : Nat, updates : BOOLEAN, logs : Seq(Nat), editor : Seq(Nat)]

ASSUME ClosedAssumption == Closed \notin Views

VARIABLES app,        \* "starting", "running", "over"
          lists,      \* version of scopes and instances
          port, updates, logs, tray,   \* the rest of the shared state
          lines,      \* lines that stream_logs has read
          owed,       \* handlers between their change and their Refresh
          silent,     \* history: a change without a Refresh, not shown yet
          online,     \* api::serve: "binding", "bound", "told"
          checked,    \* check_for_updates is over
          popups,     \* requests for the window so far
          queue,      \* the event channel
          batch,      \* lines the pump has collected; <<>> outside a drain
          view,       \* the window's copies, or Closed
          edits       \* texts on their way into the window's editor

shared == <<lists, port, updates, logs, tray>>
tasks  == <<lines, owed, online, checked, popups>>
pumpVars == <<app, shared, tasks, silent, queue, batch, view, edits>>

Log(n)        == [kind |-> "Log", line |-> n]
HasUpdates(v) == [kind |-> "HasUpdates", value |-> v]
Online        == [kind |-> "Online"]
Refresh       == [kind |-> "Refresh"]
Popup         == [kind |-> "Popup"]
Quit          == [kind |-> "Quit"]

Newest(s) == IF Len(s) <= MaxLogs THEN s ELSE SubSeq(s, Len(s) - MaxLogs + 1, Len(s))

PumpInit == /\ app = "starting"
            /\ lists = 0 /\ port = 0 /\ updates = FALSE /\ logs = <<>> /\ tray \in BOOLEAN
            /\ lines = 0 /\ owed = 0 /\ online = "binding" /\ checked = FALSE /\ popups = 0
            /\ silent = FALSE /\ queue = <<>> /\ batch = <<>>
            /\ view = Closed /\ edits = <<>>

IsOpen == view # Closed

Send(e) == Len(queue) < MaxQueue /\ queue' = Append(queue, e)

-----------------------------------------------------------------------------
(* The tasks of the daemon. *)

BindApi ==
  /\ online = "binding"
  /\ port' = Port /\ online' = "bound"
  /\ UNCHANGED <<app, lists, updates, logs, tray, lines, owed, checked, popups,
                 silent, queue, batch, view, edits>>

TellOnline ==
  /\ online = "bound"
  /\ online' = "told"
  /\ Send(Online)
  /\ UNCHANGED <<app, shared, lines, owed, checked, popups, silent, batch, view, edits>>

StreamLog ==
  /\ lines < MaxLines
  /\ lines' = lines + 1
  /\ Send(Log(lines'))
  /\ UNCHANGED <<app, shared, owed, online, checked, popups, silent, batch, view, edits>>

CheckForUpdates ==
  /\ ~checked
  /\ checked' = TRUE
  /\ \E v \in BOOLEAN : Send(HasUpdates(v))
  /\ UNCHANGED <<app, shared, lines, owed, online, popups, silent, batch, view, edits>>

(* A handler, or the latency loop, changes scopes or instances: it persists  *)
(* them or pings the rest of them before it says so.                         *)
Change ==
  /\ lists < MaxChanges
  /\ lists' = lists + 1 /\ owed' = owed + 1
  /\ UNCHANGED <<app, port, updates, logs, tray, lines, online, checked, popups,
                 silent, queue, batch, view, edits>>

Announce ==
  /\ owed > 0
  /\ owed' = owed - 1
  /\ Send(Refresh)
  /\ UNCHANGED <<app, shared, lines, online, checked, popups, silent, batch, view, edits>>

(* The page went away and its handler with it. *)
DropAnnounce ==
  /\ owed > 0
  /\ owed' = owed - 1 /\ silent' = TRUE
  /\ UNCHANGED <<app, shared, lines, online, checked, popups, queue, batch, view, edits>>

(* The first ping of a new instance tells nobody. *)
FirstPing ==
  /\ lists < MaxChanges
  /\ lists' = lists + 1 /\ silent' = TRUE
  /\ UNCHANGED <<app, port, updates, logs, tray, tasks, queue, batch, view, edits>>

(* POST /popup, or the tray icon. *)
AskPopup ==
  /\ app # "over" /\ popups < MaxPopups
  /\ popups' = popups + 1
  /\ Send(Popup)
  /\ UNCHANGED <<app, shared, lines, owed, online, checked, silent, batch, view, edits>>

(* The menu of the tray icon. *)
AskQuit ==
  /\ tray /\ app = "running"
  /\ \A i \in 1..Len(queue) : queue[i] # Quit
  /\ Send(Quit)
  /\ UNCHANGED <<app, shared, tasks, silent, batch, view, edits>>

-----------------------------------------------------------------------------
(* The window. *)

FreshView_Offline ==   \* plausible bug: the port is left to the event
  [lists |-> lists, port |-> 0, updates |-> updates, logs |-> logs, editor |-> logs]

FreshView == [lists |-> lists, port |-> port, updates |-> updates,
              logs |-> logs, editor |-> logs]

OpenFirst ==
  /\ app = "starting"
  /\ app' = "running" /\ view' = FreshView /\ silent' = FALSE
  /\ UNCHANGED <<shared, tasks, queue, batch, edits>>

(* What the user and the executor do to the UI thread, between two runs of   *)
(* the pump.                                                                 *)
Idle == app = "running" /\ batch = <<>>

(* A text still on its way belongs to an editor that is gone. *)
CloseToTray ==
  /\ Idle /\ IsOpen /\ tray
  /\ view' = Closed /\ edits' = <<>>
  /\ UNCHANGED <<app, shared, tasks, silent, queue, batch>>

CloseAndQuit ==
  /\ Idle /\ IsOpen /\ ~tray
  /\ app' = "over" /\ view' = Closed /\ edits' = <<>>
  /\ UNCHANGED <<shared, tasks, silent, queue, batch>>

ToggleTray ==
  /\ Idle /\ IsOpen
  /\ tray' = ~tray
  /\ UNCHANGED <<app, lists, port, updates, logs, tasks, silent, queue, batch, view, edits>>

ChangePage ==
  /\ Idle /\ IsOpen
  /\ view' = [view EXCEPT !.lists = lists] /\ silent' = FALSE
  /\ UNCHANGED <<app, shared, tasks, queue, batch, edits>>

SetEditor ==
  /\ Idle /\ edits # <<>>
  /\ view' = [view EXCEPT !.editor = Head(edits)]
  /\ edits' = Tail(edits)
  /\ UNCHANGED <<app, shared, tasks, silent, queue, batch>>

-----------------------------------------------------------------------------
(* process_event.  Without a window, Online and Refresh come to nothing. *)

Show(f, v) == IF IsOpen THEN view' = [view EXCEPT ![f] = v] ELSE UNCHANGED view

ProcessQuit(e) ==
  /\ e = Quit
  /\ app' = "over" /\ view' = Closed /\ edits' = <<>> /\ batch' = <<>>
  /\ UNCHANGED <<shared, silent>>

ProcessPopup_OnlyRaises(e) ==   \* plausible bug: the stored handle passes for a window
  /\ e = Popup
  /\ UNCHANGED <<app, shared, silent, batch, view, edits>>

ProcessPopup(e) ==
  /\ e = Popup
  /\ IF IsOpen THEN UNCHANGED <<view, silent>> ELSE view' = FreshView /\ silent' = FALSE
  /\ UNCHANGED <<app, shared, batch, edits>>

ProcessHasUpdates(e) ==
  /\ e.kind = "HasUpdates"
  /\ updates' = e.value
  /\ Show("updates", e.value)
  /\ UNCHANGED <<app, lists, port, logs, tray, silent, batch, edits>>

ProcessOnline(e) ==
  /\ e = Online
  /\ Show("port", Port)
  /\ UNCHANGED <<app, shared, silent, batch, edits>>

ProcessRefresh(e) ==
  /\ e = Refresh
  /\ Show("lists", lists)
  /\ silent' = (silent /\ ~IsOpen)
  /\ UNCHANGED <<app, shared, batch, edits>>

Collect_Restarts(e) ==   \* plausible bug: each line starts a batch of its own
  /\ e.kind = "Log"
  /\ batch' = <<e.line>>
  /\ UNCHANGED <<app, shared, silent, view, edits>>

Collect(e) ==
  /\ e.kind = "Log"
  /\ batch' = Append(batch, e.line)
  /\ UNCHANGED <<app, shared, silent, view, edits>>

(* recv, and try_recv while lines are collected. *)
Receive ==
  /\ app = "running" /\ queue # <<>>
  /\ queue' = Tail(queue)
  /\ LET e == Head(queue)
     IN \/ ProcessQuit(e) \/ ProcessPopup(e) \/ ProcessHasUpdates(e)
        \/ ProcessOnline(e) \/ ProcessRefresh(e) \/ Collect(e)
  /\ UNCHANGED tasks

(* UiEvent::Logs, with handle_logs. *)
FlushLogs ==
  /\ app = "running" /\ batch # <<>> /\ queue = <<>>
  /\ logs' = Newest(logs \o batch)
  /\ batch' = <<>>
  /\ IF IsOpen
     THEN LET kept == Newest(view.logs \o batch)
          IN view' = [view EXCEPT !.logs = kept] /\ edits' = Append(edits, kept)
     ELSE UNCHANGED <<view, edits>>
  /\ UNCHANGED <<app, lists, port, updates, tray, tasks, silent, queue>>

Daemon == \/ BindApi \/ TellOnline \/ StreamLog \/ CheckForUpdates
          \/ Change \/ Announce \/ DropAnnounce \/ FirstPing

Window == \/ AskPopup \/ AskQuit \/ OpenFirst \/ CloseToTray \/ CloseAndQuit
          \/ ToggleTray \/ ChangePage \/ SetEditor

Pump == Receive \/ FlushLogs

PumpNext == (app # "over" /\ Daemon) \/ Window \/ Pump

PumpSpec == PumpInit /\ [][PumpNext]_pumpVars

FairPumpSpec == PumpSpec /\ WF_pumpVars(OpenFirst) /\ WF_pumpVars(Pump)

-----------------------------------------------------------------------------
(* Properties. *)

Queued(e) == \E i \in 1..Len(queue) : queue[i] = e

LastLine(s)    == IF s = <<>> THEN 0 ELSE s[Len(s)]
Consecutive(s) == \A i \in 2..Len(s) : s[i] = s[i - 1] + 1

(* The lines in channel q are those after line n up to line m, in order. *)
LogsOf(q) == {i \in 1..Len(q) : q[i].kind = "Log"}

Follows(q, n, m) ==
  /\ n <= m
  /\ \A i \in LogsOf(q) : q[i].line \in (n + 1)..m
  /\ \A l \in (n + 1)..m : \E i \in LogsOf(q) : q[i].line = l
  /\ \A i, j \in LogsOf(q) : i < j => q[i].line < q[j].line

(* main.rs:132-188, root.rs:65-69, 124-145.  However often the window is      *)
(* closed and opened while events are on their way, it shows the port, the    *)
(* update flag and the lists of the daemon as soon as their events are        *)
(* handled, but for changes that nobody announces.                            *)
ViewCurrent ==
  IsOpen => /\ view.updates = updates
            /\ online = "told" /\ ~Queued(Online) => view.port = port
            /\ owed = 0 /\ ~Queued(Refresh) /\ ~silent => view.lists = lists

(* main.rs:69-93, 152-169, root.rs:164-186.  The lines of wsrx.log reach the  *)
(* shared buffer in their order and without a gap, whatever is handled        *)
(* between them, and those that did not are on their way; a window, reopened  *)
(* or not, has the same lines, and its editor the same text once nothing is   *)
(* on its way to it.                                                          *)
LogsInOrder ==
  app # "over" =>
    /\ Len(logs) <= MaxLogs
    /\ Consecutive(logs \o batch)
    /\ Follows(queue, LastLine(logs \o batch), lines)
    /\ IsOpen => /\ view.logs = logs
                 /\ edits = <<>> => view.editor = logs

(* main.rs:132-151, 71-73.  Who asks for the window gets it, or the end of    *)
(* the application, however many lines are streamed.                          *)
PopupShows == Queued(Popup) ~> IsOpen \/ app = "over"

(* What makes them inductive. *)
Events == [kind : {"Log"}, line : Nat] \cup [kind : {"HasUpdates"}, value : BOOLEAN]
            \cup {Online, Refresh, Popup, Quit}

PumpTyped ==
  /\ lists \in Nat /\ port \in Nat /\ updates \in BOOLEAN /\ silent \in BOOLEAN
  /\ lines \in Nat /\ owed \in Nat
  /\ logs \in Seq(Nat) /\ batch \in Seq(Nat)
  /\ queue \in Seq(Events)
  /\ view \in Views \cup {Closed}
  /\ edits \in Seq(Seq(Nat))

(* The port is set before its event is sent, and the text that comes last to  *)
(* an editor is the window's.                                                 *)
PortSet   == online # "binding" => port = Port
EditsLast == edits # <<>> => IsOpen /\ edits[Len(edits)] = view.logs

PumpInv == PumpTyped /\ PortSet /\ EditsLast /\ ViewCurrent /\ LogsInOrder
=============================================================================
