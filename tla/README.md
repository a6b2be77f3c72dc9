# A verification development for LabStreamGate (wsrx)

LabStreamGate tunnels TCP over WebSocket.  One binary, `wsrx`, is a gateway
(`serve`), a local daemon that opens TCP ports for remote WebSockets (`daemon`),
and a one-shot client (`connect`).  A desktop application wraps the local side
in a window and an HTTP API for web pages, and a small TypeScript client talks
to that API from the browser.

The modules here are TLA+ translations of that code.  TLC checks them on small
instances and TLAPS proves the safety results for every value of the constants.
Paths below are relative to `src/crates/wsrx/src` unless they say otherwise;
line numbers are those of the commit in the repository.

## 1. The system

### Gateway: `cli/serve.rs`, `cli/capture.rs`, `proxy.rs`

| part | state it keeps | operations |
| --- | --- | --- |
| tunnel registry | `connections`: key -> record with target and expiry, in an async `RwLock`; `<state_file>` and `<state_file>.tmp` | `launch_tunnel`, `close_tunnel`, `get_tunnels`, `active_record`, the task of `spawn_expiry_cleanup`, `load_registry`, `persist_registry` |
| connection gate | `per_tunnel_connections` (a mutex around counters), `connection_slots` (a semaphore), the locals of each `process_traffic` | lookup, two permits, upgrade, target connection, proxying under a time limit, audit, release |
| proxy | two forwarding futures, their byte counters, a `CancellationToken` | `proxy_stream_observed`, `forward_observed`, the conversions of `Message` |
| capture session | two atomics, a bounded channel, a pcap file | `observe`, `write_capture`, `finish` |
| audit file | one JSONL file per instance and its rotated predecessor, `audit_lock` | `append_audit` |
| capture retention | the pcap files of all sessions | `spawn_retention_cleanup`, `cleanup_captures` |
| HTTP surface | none | routing, bearer token, allowed target hosts, health, ping |

A request for a tunnel is looked up in the registry (evicting an expired
record), passes the two limits, is upgraded, and becomes a task that connects to
the target, starts a capture when the record asks for one, runs the proxy with
the capture's observer, waits for the capture's writer, appends one line to the
audit file, and returns its permits.  The record was cloned at the lookup, so
closing a tunnel does not reach its connections.

### Local side: `tunnel.rs`, `cli/daemon.rs`, `cli/connect.rs`

| part | state | operations |
| --- | --- | --- |
| tunnel | a listener inside a spawned accept loop, a token, one spawned link per connection | `Tunnel::new`, `Drop` |
| daemon's pool | local address -> tunnel, in an async `RwLock` | `launch_tunnel`, `close_tunnel`, `get_tunnels` |
| origins | allowed and pending origins behind two locks | five handlers |
| heartbeat | the time of the last heartbeat, initialised lazily | `update_heartbeat`, `heartbeat_watchdog` |

Dropping a tunnel cancels the token its links share and asks the runtime to
abort the accept loop; both take effect later.

### Desktop: `src/crates/desktop/src`

| part | state | operations |
| --- | --- | --- |
| instances | a list of instances, each with a tunnel, in an async `RwLock` | `launch_instance`, `close_instance`, `remove_instance`, `remove_scope`, `latency_loop`, `pingfall` |
| scopes | the web sites that asked for, or got, control, in another `RwLock`; `scopes.toml` | `request_control`, `update_website_info`, `allow_scope`, `remove_scope`, `load_persisted_state`, `shutdown` |

These are `daemon.rs`, `daemon/api.rs` and `daemon/workers.rs`.  Pages reach them
over HTTP and act for their own scope, the user through the window for any.

| part | state | operations |
| --- | --- | --- |
| single instance (`launcher.rs`, `main.rs`) | the lock file with the API's port, the live log | a start, `try_notify_existing_instance`, `prepare_log_dir`, `write_lock_file`, `shutdown` |
| event pump (`main.rs`, `ui/root.rs`, `tray.rs`) | an unbounded channel, the shared log buffer, the window's copies of what it shows | senders in the daemon; `recv`/`try_recv`, `process_event`, `handle_event`, `handle_logs`; closing to the tray and opening again |
| settings | `config.toml`, written by the user interface only | the switches of `ui/settings.rs` and `ui/title_bar.rs` |

### Browser: `src/packages/client/src/index.ts`

One class that polls the desktop API and keeps a connection state, the last
instances seen, and subscribers.  Everything is asynchronous: methods of the
page, and a timer whose callback does not wait for its predecessor.

### What is hard, and what correctness means

* **Registry.**  Every mutation releases the map's lock before it persists, all
  persists share one temporary file, and requests are dropped when clients hang
  up.  Correct means: the published file can always be read back unless persists
  collided, a persist that ran alone leaves exactly the registry on disk, a live
  tunnel disappears only for a reason, an expired one disappears, and no handler
  waits for ever.
* **Gate.**  Two limits are taken one after the other, and there are more than a
  dozen ways out.  Correct means: each limit holds at every moment, nothing
  leaks and nothing is returned twice, and whatever was upgraded is audited
  before it stops counting.
* **Proxy.**  Two directions, a token and two peers may end the connection at
  any await.  Correct means: bytes keep their order, the audit's byte counts are
  those of delivered messages, and one blocked direction cannot keep the
  connection alive.
* **Capture.**  A synchronous observer feeds an asynchronous writer through a
  bounded channel, under a byte limit, onto a disk that may fail.  Correct
  means: no byte is lost silently, the file is complete when the audit says so,
  and the handshake always ends.
* **Tunnel and pool.**  Cancellation and abort race with an accept loop and with
  links that are still connecting.  Correct means: listeners and entries agree
  except while an abort is under way, a closed tunnel's connections end and its
  address becomes free.
* **Instances.**  Launches bind before they look at the list, closes look at the
  list and act after they have let go of it, the latency loop acts on a snapshot
  by address.  Correct means: an address names one instance, and an instance
  leaves the list for a reason of its own.
* **Scopes.**  Every handler rewrites one file in place after it has released
  the lock, and pages hang up.  Correct means: once nobody is at work the file
  says what memory says, and no site is ever in control, restarts included, that
  the user did not accept.
* **Startup of the desktop.**  The API server runs before `scopes.toml` is loaded.
  Correct means the same as for scopes, pages that come in between included.
* **Origins and heartbeat.**  Handlers block threads on two locks and duplicates
  may be pushed; a clock is truncated and started lazily.  Correct means: no
  deadlock, no origin in both lists, a revocation leaves nothing behind, the
  daemon neither leaves an owner that beats in time nor outlives one that is gone.
* **Gateway files.**  The rotation of the audit file is three operations, the
  retention works from a listing that is being overtaken.  Correct means: a
  crash or a failing step costs no accepted line but a rotated generation, and a
  capture is removed for its age or for the limit only.
* **Single instance.**  Processes relate by two files and one request.  Correct
  means: one application runs unless starts or ends race, the lock leads to it,
  the live log is its own, and whoever starts the program sees a window.
* **Event pump.**  A window that comes and goes shows copies that events keep
  current; log lines are collected while other events overtake them.  Correct
  means: the copies agree with the daemon once the events are handled, lines keep
  their order, no flood of lines starves a popup.
* **Browser client.**  Answers are applied in the order of arrival, whatever was
  asked in between.  Correct means: the cache is the application's list when
  nothing else is under way, the state settles, and somebody keeps polling.

## 2. The modules

### `TunnelRegistry`

`registry` is `GlobalState.connections`.  A handler is a task with a program
counter at each of its awaits:

| code | action |
| --- | --- |
| `launch_tunnel`, `close_tunnel` up to the persist | `LaunchTunnel`, `CloseTunnel` |
| `active_record`: read, then write lock | `ActiveRecord`, `Evict` |
| `remove_expired` (from `get_tunnels` and the cleaner) | `RemoveExpired` |
| `persist_registry`: snapshot, create, write, rename | `Snapshot`, `Open`, `Write`, `Rename`, `RenameMissing` |
| an I/O error at any of these | `PersistError` |
| the client hangs up (hyper drops the handler's future) | `Abandon` |
| the process dies; `launch` with `load_registry` | `Crash`, `Restart` |

A file is a registry, `Missing`, `Blank` (just truncated) or `Torn` (not JSON).
A descriptor (`fd`) follows its file through the rename of another handler:
`fs::write` of a slow persist can end up in the published file.  `Overlay` says
what a write at offset 0 over another text can leave.  A write or a rename handed
to the blocking pool goes on when its request is dropped (`abandoned`), and such
a rename publishes whatever the shared temporary file holds by then; that persist
is under way until it is done, so one that starts meanwhile is not alone.
The work of one persist is one step for each await, because nothing is locked
between them.

One thing is coarser than the code: `LaunchTunnel` looks whether the expiry is in
the future and inserts in one step, while the code waits for the write lock in
between (`cli/serve.rs:306-329`).  A launch that waits through the second in which
it expires would insert an expired record, which then leaves like any other
(`ExpiredLeaves`).

`alone` and `trust` are history variables.  `trust` is what the published file
owes to persists that met no other persist: "exact" after such a persist was
renamed and until the next change, "whole" while nothing has collided since,
"none" after two overlapped.

Data left out: the text of keys and targets and `validate_key`,
`validate_target` (inputs are the ones that passed); the instance, challenge, user
and competition ids of a record, which only the audit reports; response bodies.
The record's `capture` flag belongs to the gate.  A state file is taken to be
configured: without one `persist_registry` returns at once.

### `ConnectionGate` and `Admission`

`ConnectionGate` is `process_traffic`, one program counter per connection.  The
registry is reduced to the set of keys a lookup accepts, which `Open` and `Close`
change at any time; `TunnelRegistry` has its detail.  `AcquireTunnel` and
`AcquireSlot` are two steps because other requests run between them.
`UpgradeFails` is the closure of `on_upgrade` dropped unrun.  `StartCapture` may
fail, in which case the traffic flows uncaptured.  `ConnectionTimeout` drops the
proxy in the middle of its work.  `LockAudit`/`AppendAudit` hold `audit_lock`
across awaits; an append may fail and lose the line (`GatewayFiles` has its steps).  The permits return one at a
time, in either order.

`Admission` is what the gate promises: connections enter a tunnel only while both
limits have room.  `ConnectionGate` implements it under the mapping `liveConns`
(a connection is live while it owns both permits), which is the property
`ImplementsAdmission`.

### `Proxy`

Two instances of `forward_observed` in one `select!` with the token.  `Take` is
`stream.next()` plus counting and observing, `Send` is `sink.send().await`, and
these are two steps, because anything may end the connection between them.  A
message has a kind; `IsPayload` and `Payload` are the `From` conversions and the
sinks: text becomes binary, control messages are swallowed.  `DeliveredInOrder`
promises binary messages only, and allows the text that the code forwards;
`OnlyBinaryTunneled` is what the comment says instead, and a run violates it.  Buffer sizes and
frames are abstracted to whole messages.

### `Capture`

`Observe` is `CaptureObserver::observe`, in its three outcomes `OverLimit`,
`Accept`, `Refuse`.  The compare-and-exchange loop is one step because both
directions run in the proxy's task.  `Writer` is `write_capture`; a message of
the connection is written in chunks, one packet each.  tokio's `File` reports a
failed write at the next operation, hence `diskError`.  `Finish` travels through
the same bounded channel as the packets.  A packet is `[id, from, to]`, the bytes
`from+1..to` of message `id`; headers and time stamps are left out.  `BytesOf` is
the set of the bytes of some packets, so that sums of lengths are cardinalities.

### `TunnelPool`

The daemon's pool and the tunnels in it.  `Launch` and `Close` are one step each
because they hold the pool's write lock; `Dropped` is `impl Drop for Tunnel`.
The accept loop has its three places, `accepting`, `accepted` (connection in
hand, token not yet looked at) and `checked` (looked at, link not yet spawned).
An abort lands only at an await (`AbortLands`).  `PeerGone` is the `unwrap` of
`peer_addr` (tunnel.rs:69): the workspace is built with `panic = "abort"`
(`src/Cargo.toml:18`), so a connection reset before it is looked at ends the
process.  `Connect` is `connect_async`, which has neither a time limit nor the
token.

### `GatewayFiles`

What the gateway leaves on disk, in two parts that share the connections.

| code | action |
| --- | --- |
| `CaptureSession::start`, the writer, `finish` | `StartCapture` or `NoCapture`, `WriteCapture`, `FinishCapture` |
| `append_audit`: lock and size; remove; rename; append | `LockAudit`; `RemoveRotated`; `Rename`; `AppendLine`, `TearLine` |
| an error at any of these (`write_audit` logs it) | `AuditFails` |
| `cleanup_capture_files`: `collect_pcaps`; age; size | `StartCleanup`, `ListFile`, `SkipFile` (its metadata cannot be read), `ListingFails`, `EndListing`; `RemoveOld`, `EndAge`; `RemoveOldest`, `EndCleanup` |
| the process dies | `Crash` |

`audit.lines` are sets of connections: a torn line is glued to the next one, so
one line of text may be those of two connections.  `written` is a history
variable of the lines that got one of their own, and `Keeps` says which of them
a file has.  `listing` is what the cleanup knows, file by file as it saw them;
`total` is its own sum, to be compared with `SizeOf` what is left of the listing.

### `Controller`

The origins and the heartbeat of `wsrx daemon`.  Each of the two std `RwLock`s is
taken in a step of its own (`Lock`), because handlers run in several threads and
block; `Order` is the sequence in which a handler takes them, `held` how far it
has come, `Holds` and `Free` what the locks allow.  With all its locks a handler
does its work and answers in one step.

| code | action |
| --- | --- |
| a request reaches its handler | `Receive` |
| `ALLOWED_ORIGINS.read/write`, `PENDING_ORIGINS.read/write` | `Lock` |
| `add_pending_origin`: after the first, after the second lock | `Lock` (answers ACCEPTED), `AddPending` |
| `add_allowed_origin`, `remove_allowed_origin` | `AddAllowed`, `RemoveAllowed` |
| `get_origins`, `get_cors_status`, the CORS predicate | `Look` |
| `update_heartbeat` | `UpdateHeartbeat` |
| `heartbeat_watchdog`: sleep; pass; exit | `Tick`; `CheckPasses`; `Exit` |

An origin counts how often it is in a vector, because `add_allowed_origin` pushes
without looking.  The clock has `Ticks` to a second, `Seconds` truncates like
`num_seconds`, `quiet` is `HEARTBEAT_TIME` seen from now and `None` until the
`Lazy` is first looked at, and a sleep may end up to `Slack` late.  Wall clock
and elapsed time are one: an adjusted system clock is not modelled.  The
workspace is built with `panic = "abort"`, so no lock is ever poisoned.

### `DesktopScopes`

`scopes` is `ServerState.scopes`, with `None` for a site that is not in the list
(hosts are unique: `request_control` looks first).  The body of a page is an
`Infos` value; `state` and `host` of the body are ignored.

| code | action |
| --- | --- |
| `request_control`, `update_website_info` up to the persist | `RequestControl`, `UpdateWebsiteInfo` |
| `allow_scope`, `remove_scope` | `AllowScope`; `RemoveScope`, `SweepInstances` |
| `shutdown` | `Shutdown` |
| `persist_scopes` and `persist_to`: lock and truncate; write | `BeginWrite`, `EndWrite` |
| an error of `create_dir_all`, of `fs::write` | `NoDirectory`, `WriteFails` |
| a page hangs up | `Abandon` |
| `main`: the API server comes up; `load_persisted_state` reads, then assigns | `Start`; `ReadFile`, `ApplyFile` |
| the process ends | `Exit` |

`spawn_background` precedes `load_persisted_state` (`main.rs:37-41`), so pages may
change and persist scopes before and between the two steps of the load; the user
may not, the window is opened later.

`persist_scopes` holds the lock for reading while it writes, so `WriteLock` waits
for `Writers`; this is what makes overlapping writes harmless.  `Text` is
`toml::to_string`, which fails for `Unwritable` infos (settings are arbitrary
JSON) and then yields an empty text.  `Cut` is what a failed write leaves: no
TOML, or the first entries.  `owed` excuses a file that is behind because a write
failed, a page left before its persist, or the load replaced what pages had
asked for; `approved` remembers whom the user accepted, `earlier` what the file
said when the application started.  `ScopesOnDisk` speaks of lists that have a text
and owe nothing; `EveryListOnDisk` and `EarlierIsLoaded` say what the comments say
without these exceptions, and two runs violate them.  The pages' answers and
the events to the window are left out.

### `DesktopInstances`

Instances carry an identity, which stands for their place in the list: what a
handler or the latency loop remembers can be told from what took its address.
`listener` says who listens where; a removed instance keeps its address until its
loop is aborted, and one whose `accept()` failed is listed without it (`Unbind`).

| code | action |
| --- | --- |
| `launch_instance`: bind; then, locked, its three outcomes | `Bind`; `LaunchTaken`, `LaunchReused`, `LaunchNew` |
| `close_instance`: check; then `remove_instance` | `CloseCheck`, `RemoveInstance` |
| the user removes a row that was drawn earlier | the same two |
| `remove_scope`: one lock, then the other | `RemoveScope`, `Sweep` |
| `latency_loop`: snapshot; one ping and `pingfall`'s decision; its removal | `StartRound`, `Ping`, `Pingfall` |
| a page hangs up between bind or check and the lock | `Abandon` |

`pingfall` holds the scopes for reading until its removal is done, so nobody
writes the scopes meanwhile (`falling = None`).  Whether a failed ping removes
is chosen freely, because the features and settings that decide are the site's.
Labels and latencies are left out; nothing here depends on them.  `ScopeSwept`
is about the instances that are there at the sweep: a page whose launch was let
through before its scope was taken may still add one after it.

### `SingleInstance`

Processes `1..MaxStarts` start in this order.  They share the lock file (`lock`: no
file, `Truncated` until it is written, or a port) and the live log (`log`: who
writes to it).  Removing the lock file and renaming the log may fail, which
the code prints and passes over: `leftover` is the history of a start that found
a log it could not rename, and that is logging to it (`launcher.rs:170-172`).

| code | action |
| --- | --- |
| `try_notify_existing_instance`: exists; read; POST; remove | `NoLock`, `LockExists`; `ReadLock`; `Notify`, `NotifyFails`; `RemoveStale` |
| `prepare_log_dir`, `logging::setup` | `PrepareLogDir`, `SetupLogger` |
| `api::serve`: bind, `write_lock_file` | `Bind`, `WriteLockFile` |
| `open_main_window`; `UiEvent::Popup` | `OpenWindow`; `ShowWindow` |
| close to the tray; the switch in the settings | `CloseToTray`; `ToggleTray` |
| window closed without tray, or Quit | `Quit` |
| `shutdown`, and again from `on_app_quit` | `Archive`, `Unlock`; `Archive`, `UnlockAgain` |
| the process is killed | `Crash` |

`Notify` may carry the popup and yet report failure, when the answer comes after
the two seconds of the client.  `raced` marks that a start met another start, an
end, or such a late answer; `deaf` that a popup reached a process that no longer
takes events.  The properties exempt these and, for the log alone, `leftover`; the
module shows that nothing else needs an exemption.  Nobody but the application
is taken to answer a POST on the port of a stale lock file with success.

### `EventPump`

The channel `queue`, the senders, the pump, and the window's copies `view`.

| code | action |
| --- | --- |
| `api::serve`; `stream_logs`; `check_for_updates` | `BindApi`, `TellOnline`; `StreamLog`; `CheckForUpdates` |
| a handler or the latency loop changes a list; its `Refresh` | `Change`; `Announce`, `DropAnnounce` |
| the task of `launch_instance` for the first ping, which sends none | `FirstPing` |
| `popup_window`, the tray icon | `AskPopup`, `AskQuit` |
| the window opens, closes, changes pages; the setting | `OpenFirst`, `CloseToTray`, `CloseAndQuit`, `ChangePage`, `ToggleTray` |
| `recv`, `try_recv` and `process_event` | `Receive` with `Process...` and `Collect` |
| `UiEvent::Logs` when the channel is empty; the editor's task | `FlushLogs`; `SetEditor` |

The pump runs on the UI thread and does not yield while it drains the channel, so
the user's actions wait for an empty `batch`; senders do not.  `lists` is a version
number for scopes and instances.  `silent` marks a change that nobody announced
(the first ping; a page that hung up between its change and its `Refresh`).

### `BrowserClient`

`calls` are requests in flight, each with its answer once the application gave it,
and who awaits it (`via`).  Page, timer, application and network each have their
actions; `Arrive...` are the continuations after each `await`.

| code | action |
| --- | --- |
| `connect`: version; check; POST; check; `tick` | `Connect`, `ArriveVersion`, `ArriveCheck`, `ArriveRequest` |
| the timer's callback: check; sync; the counter | `Fire`, `ArrivePoll`, `ArriveSync`, `Advance` |
| `sync`, `add`, `delete` | `Sync`, `Add`, `Delete`, `ArriveSync`, `ArriveAdd`, `ArriveDelete` |
| the desktop's API (`daemon/api.rs`) | `Serve...` |
| the user, `pingfall` | `UserAllows`, `UserRemoves`, `InstanceGoes` |
| a request or answer is lost; ky sends it again | `Lose` |

`exact` says that the cache owes the application's list: since a sync that met no
other data call or change.  `crossed` says that a poll which stopped the timer was
not the only one under way.

### Proof modules and instances

`TunnelRegistryProofs`, `ConnectionGateProofs`, `ProxyProofs` and
`TunnelPoolProofs` hold the theorems of one module each.  The other four hold
those of two that have nothing else to do with each other: `CaptureProofs` of
`Capture` and `GatewayFiles`, `ControllerProofs` of `Controller` and
`BrowserClient`, `DesktopScopesProofs` of `DesktopScopes` and `SingleInstance`,
`DesktopInstancesProofs` of `DesktopInstances` and `EventPump`.  That is why the
second of each pair, and `Proxy`, name their formulas for themselves (`FilesInit`,
`ClientNext`, `AppSpec`, `pumpVars`, `ProxySpec`).  `MC*` instantiate the modules for TLC.
Operators named `X_Something` beside an operator `X` are deliberately wrong
variants of `X`, each a plausible bug; every checked property is violated when
one of them takes the place of the original (`mutants` in `PROJECT.json`).

## 3. The runs

A run takes one module, or two that share nothing, with their safety and liveness
properties on one instance.

| run | instance | shows |
| --- | --- | --- |
| `registry` | 1 key, 2 requests + cleaner, clock to 1, faults of one request and the cleaner, `FairSpec` | `FileWhole`, `DiskExact`, `LiveRecordKept`, `ExpiredLeaves` |
| `gate` | 2 connections, 2 tunnels, limits 2 and 1, `FairSpec` | `PermitsExact`, `AuditedBeforeRelease`, `ImplementsAdmission`, `ClosedDrains` |
| `pool_and_proxy` | pool: 2 addresses, 3 tunnels, 2 links | `ListenersAccounted`, `NeverReplacesLive`, `LinksEndAfterClose`, `PortFreed` |
| | proxy: 2 messages per direction | `CountedIsDelivered`, `DeliveredInOrder`, `CancelEnds`, `HalfCloseEnds` |
| `capture_and_client` | capture: 4 messages of 0..3 bytes, limit 5, channel of 2, packets of 2 | `CapturedIsAccepted`, `TruncationTold`, `AuditFindsWholeFile`, `FinishReturns` |
| | client: 2 calls in flight, 1 remote, 4 events, 1 loss, 1 retry, a sync every 2 polls | `CacheExact`, `PolledUnlessCrossed`, `Settles` |
| `gateway_files` | 3 connections, 1 line per generation, limit 2, files of up to 2, 2 on disk, 1 crash | `AuditKept`, `RemovedForLimit` |
| `controller` | 3 handlers, 1 origin, interval of 1 s in 2 ticks, lateness 1, `FairSpec` | `OriginsConsistent`, `LeftBehindEnds`, `Revoked`, `HandlersReturn`, `OwnerKept` |
| `desktop_files` | scopes: 2 sites, 2 pages, 1 user action, one writable and one unwritable info, faults, restarts | `ScopesOnDisk`, `AllowedWasApproved` |
| | single instance: 2 starts, 1 crash | `OneInstance`, `StartShows` |
| `desktop_instances` | 2 sites, 2 addresses, 1 remote, 2 handlers, 3 instances, `FairSpec` | `Unambiguous`, `RemovedForCause`, `ScopeSwept` |
| `event_pump` | 3 lines of which 2 are kept, 2 changes, 1 popup, channel of 3, `FairSpec` | `ViewCurrent`, `LogsInOrder`, `PopupShows` |

A run of two modules puts them side by side.  They share no variable, so nothing
could come of their interleaving; either goes its way while the other is in its
initial state, which explores each exactly as it is on its own, and one state
space holds both.  Its specification `BothSpec` states the fairness of each
module's own `FairSpec`, action by action, for steps taken that way.

Three runs are violated.  Each checks what a comment of the repository says, and
TLC answers with a trace of what the code does instead (section 5):

| run | instance | violates |
| --- | --- | --- |
| `proxy_text` | as in `pool_and_proxy` | `OnlyBinaryTunneled` |
| `scopes_unwritable` | as in `desktop_files`, one info unwritable | `EveryListOnDisk` |
| `scopes_early` | as in `desktop_files`, every info writable | `EarlierIsLoaded` |

### Bounds, and why they are enough

* Registry: three tasks are needed for a persist that overlaps two others; two
  requests plus the cleaner are three.  The properties speak of one key or of
  the file as a whole, so one key suffices.  The clock needs two values, before
  and after an expiry, and `MaxTime` caps it.  `Faults` names the tasks that I/O
  errors and hang-ups may meet: one request, so that the other can be its
  undisturbed counterpart.  The response of a handler is not part of the `VIEW`:
  no action and no property reads it.
* Gate: two connections meet the limit of one tunnel, or hold both slots while
  they contend for the audit lock.  The answer 503 (no slot left) is not
  met with as many slots as connections; a global limit of 1 would show it, but
  then no two connections would ever be open at once.  The theorems cover any
  limits.  One tunnel
  captures, the other does not.
* Proxy: the directions share nothing but the end of the connection; two
  messages let one be in flight while its predecessor is delivered.
  `MaxMessages` caps what a source sends.
* Capture: the limit of 5 falls inside a message of 3, a message of 3 needs two
  packets of 2, and the channel is full before the writer starts.
  `MaxMessages` and `MaxLength` bound the traffic.
* Gateway files: three lines rotate the file twice, so that a generation is
  really lost; two captures at a time let the cleanup remove one while the other
  grows, and a third may start once one is gone.  `MaxFiles`, `MaxNow`, `MaxSize` and
  `MaxCrashes` are the caps.
* Pool: three tunnels on two addresses let an address be launched again while
  the loop and links of its previous tunnel wind down.
* Controller: three threads are a reader and two writers on one lock; origins do
  not interact, so one is enough.  The clock needs no bound: the daemon exits or
  its owner beats.  An interval of 0 seconds, which the command line accepts, is
  excluded by `TimeAssumption`.
* Scopes: two pages and the user overlap three persists; two sites, because one
  change may spoil the other's entry.
* Instances: two handlers and the latency loop are three actors on one address;
  the third instance (`MaxId`) takes the address of one that is being removed
  while the second is listed.
* Single instance: two starts with a crash give a stale lock, a running, an
  ending and a starting application.  `MaxStarts` and `MaxCrashes` cap them.
* Event pump: a third line drops one of two, in the buffer and in the window;
  the channel of 3 holds a line, an event and a line.  `MaxQueue` bounds a channel
  that has no bound in the code; senders wait instead.
* Browser: two calls are what can overlap.  `MaxEvents` and `MaxLost` cap
  what the page, the user and the network do.

Deadlock is checked for the registry, the gate, the gateway's files and the
desktop's instances, which serve for ever.  It is not where the system may end or
be left alone: a connection and its capture are over, tunnels and links are used
up, `Controller` exits, the desktop application is quit, a page does nothing more.
Nor is it for scopes, which share a run with such a module; all of their handlers
end by themselves.
Symmetry is used only in runs that check no liveness property.

### Fairness

* The runtime polls a task that is ready: weak fairness of every step of a
  handler that waits for nothing outside (`Persist`, `Evict`, `Admit`, `Take`,
  `SendFinish`, `Audit`, the loop's steps).
* File operations return, well or badly: weak fairness of `Write`, `Writer`,
  `AppendAudit`.  A success is never assumed.
* Timers fire: `ConnectionTimeout` and, through `CONNECT_TIMEOUT`, `Connect` of
  the gate; the cleaner's interval of 30 seconds for `RemoveExpired`.
* tokio's mutex is a fair queue, and `audit_lock` is contended for ever by
  others: strong fairness of `LockAudit`.
* `FinishCapture` of the gate is weakly fair because `FinishReturns` holds of
  `Capture`.
* An aborted task is dropped when it next waits: `AbortLands`.
* tokio's locks are fair queues and the user's task is not dropped: weak fairness
  of `Sweep`.
* A thread blocked on a std lock that is free goes on: weak fairness of `Handle` in
  `Controller`.  Nothing stronger is assumed of std's `RwLock`, whose queue is not
  specified; requests are finite.
* A program that can go on does (`Launch`, `Serve`, `End` of `SingleInstance`), and
  the UI executor takes events from its channel (`ShowWindow`, `Pump`).  No
  fairness of senders is assumed.
* Timers fire, and a call that is not lost is answered: `Fire`, `Serve`, `Arrive`
  of `BrowserClient`.
* Nothing is assumed of peers, clients, remotes, errors and crashes.  In
  particular `Send` (a peer may never read) and `Connect` of a link (the remote
  may never answer, and nothing in the code limits the wait) have no fairness,
  and no property promises the end of a link that still connects.

## 4. What is proved

Everything is proved for any sets of keys, tasks, connections, tunnels and any
limits; the only assumptions are the named `ASSUME`s in the modules: sentinels
are distinct from data (`NoFileAssumption`, `ClosedAssumption`, `NoPortAssumption`,
`AnswerAssumption` and the like), limits and buffers are positive (the code takes
the maximum of each limit and 1), the set of connections is finite, a second has
at least one tick.  Every safety property that a passing run checks has a theorem.

| theorem | statement | argument |
| --- | --- | --- |
| `TunnelRegistryProofs!TypeCorrect` | `Spec => []TypeOK` | `TypeOK` is inductive |
| `TunnelRegistryProofs!FileAlwaysWhole`, `DiskAlwaysExact` | `[]FileWhole`, `[]DiskExact` | `IInv`, below |
| `TunnelRegistryProofs!LiveRecordsAreKept` | `LiveRecordKept` | from `TypeOK`, action by action |
| `ConnectionGateProofs!TypeCorrect`, `PermitsAlwaysExact`, `AlwaysAuditedBeforeRelease` | `[]TypeOK`, `[]PermitsExact`, `[]AuditedBeforeRelease` | `IInv`, below |
| `ConnectionGateProofs!GateImplementsAdmission` | `Spec => Abstract!Spec` | `IInv`; entering is the second permit, leaving the first one returned |
| `ProxyProofs!TypeCorrect`, `CountsAreDelivered` | `[]ProxyTypeOK`, `[]CountedIsDelivered` | `InFlight` |
| `ProxyProofs!DeliveriesAreInOrder` | `[]DeliveredInOrder` | `Numbered`, `HeldIsLast` |
| `CaptureProofs!TypeCorrect`, `TruncationIsTold`, `CapturedWithinLimit` | `[]TypeOK`, `[]TruncationTold`, the byte limit | the three together |
| `CaptureProofs!CapturedExact`, `FileIsWhole` | `[]CapturedIsAccepted`, `[]AuditFindsWholeFile` | `Numbered`, `Pipeline`, `FinishLast` |
| `CaptureProofs!AuditIsKept` | `FilesSpec => []AuditKept` | `FilesInv`, below |
| `CaptureProofs!RemovalsAreForLimit` | `FilesSpec => RemovedForLimit` | `CleanupInv`, below |
| `TunnelPoolProofs!TypeCorrect`, `ListenersAlwaysAccounted`, `LiveIsNeverReplaced` | `[]TypeOK`, `[]ListenersAccounted`, `NeverReplacesLive` | `aborting \subseteq cancelled` is added |
| `ControllerProofs!TypeCorrect`, `OriginsAlwaysConsistent`, `RevocationsHold`, `OwnersKept` | `[]TypeOK`, `[]OriginsConsistent`, `Revoked`, `OwnerKept` | `IInv`, below |
| `ControllerProofs!OwnersGoneAreNoticed` | `[]LeftBehindEnds` | `NextLook` |
| `ControllerProofs!SomebodyGoesOn` | `[]NobodyStuck` | cases on who holds how many locks |
| `ControllerProofs!CacheIsExact`, `ClientIsPolled` | `ClientSpec => []CacheExact`, `[]PolledUnlessCrossed` | `ClientInv`, below |
| `DesktopScopesProofs!TypeCorrect`, `ScopesAlwaysOnDisk`, `AllowedIsApproved` | `[]TypeOK`, `[]ScopesOnDisk`, `[]AllowedWasApproved` | `IInv`, below |
| `DesktopScopesProofs!OnlyOneInstance` | `AppSpec => []OneInstance` | `AppInv`, below |
| `DesktopInstancesProofs!TypeCorrect`, `AlwaysUnambiguous`, `RemovalsHaveCause` | `[]TypeOK`, `[]Unambiguous`, `RemovedForCause` | `IInv`, below |
| `DesktopInstancesProofs!WindowIsCurrent`, `LinesKeepTheirOrder` | `PumpSpec => []ViewCurrent`, `[]LogsInOrder` | `PumpInv`, below |

**Registry.**  `FileWhole` and `DiskExact` are not inductive: that `Rename`
publishes a whole file depends on what `Write` left in the temporary file, that on
what `Open` found, and all of it on nobody else persisting meanwhile, neither a
request nor what a dropped request has left in the blocking pool.  `IInv` adds
`TrustedIsAlone` (while the file is trusted, the only persist in progress is one
that is alone) and `AloneIsCurrent` (a persist that is alone has the registry
itself in its snapshot and later in the temporary file; its descriptor names the
temporary file).  A persist that begins beside another removes the trust for
both, so the case where something can go wrong never has to be maintained.  Time
is the other difficulty: `DiskExact` compares what a restart would load *now*,
and the lemma `LiveLater` shows that two registries with equal live parts keep
equal live parts as the clock advances.

**Gate.**  The permit counts are cardinalities of the sets of holders.  `Stages`
says what a connection owns and has recorded at every point of
`process_traffic`; with it each action changes both the counter and the set of
holders by the same connection, or neither.  `WithinLimit` is the per-tunnel
limit, needed for the guard of `Admission!Enter`.

**Proxy.**  `CountedIsDelivered` allows a difference of one message, which is
only inductive with `InFlight`: while the loop runs, the difference *is* the
payload of the message in `sink.send`.  For the order, `Numbered` says that a
message's id is its place in the stream and `HeldIsLast` that the message in
`sink.send` is the last one taken; what has been delivered then has ids below
any that is still to come.  `PayloadsDelivered` says that every
payload taken has been delivered, text included and the last one perhaps not,
which is more than `DeliveredInOrder` promises.

**Capture.**  A packet that the channel took is at any time in one of three places:
in the channel, in what the writer has left of the one it received (`Held`), in
the file.  `Pipeline` says that these are in order, each before the next, and
that together they are what was accepted unless a write failed; `Numbered` that
an accepted packet is a whole message or what the limit left of it, one for each
message; `FinishLast` that nothing is behind Finish.  When the oneshot is
answered the first two places are empty, so the file has all of it.  The byte
count is a cardinality, which grows by a packet's length because its message is a
new one (`BytesAdded`).

**Audit file.**  `AuditKept` names the two cuts, `lost` and `mid`, between what is gone,
what the rotated file has and what the new one has.  A rotation moves `lost` to
`mid` and `mid` to the end, which is only allowed because whoever is rotating
holds the lock and found a full file (`RotatesFull`).  The other lemmas are about a
line: one of its own (`KeepsWritten`), a torn one (`KeepsTorn`), or one glued to a
torn one (`KeepsMerged`).  A glued line must not pass for somebody's own;
`TornNotOwn` says that a torn line always has a connection whose line does not
count, and `DoneMentioned` that a connection which has not appended yet is in no
line.

**Cleanup.**  The guard of the removal by size looks at `total`, the property at the
files.  `TotalExact` relates them: `total` is the size, as listed, of what is
listed and left.  It survives connections that write because a file of the
listing can only go (`FilesStay`: a connection whose file is listed has started,
and starts once), and removals that fail because they subtract nothing.
`UntriedOld` says that what was too old when it was listed still is.

**Controller.**  `Exclusive` says that the two locks exclude each other;
`AskChecked` that who holds the first lock of `add_pending_origin` found its origin
not allowed, which is still true when it pushes because every writer of the
allowed list needs that lock.  `QuietSince` says that the heartbeat clock started
no earlier than the owner was last there; with the lemma `SecondsOf` on the
truncating division it gives `OwnerKept` for every interval and resolution.
`NextLook` bounds the other direction: for each way the heartbeat clock can have
started (not yet, by the owner's last beat, by a look of the watchdog) it says to
what the age of that clock and the rest of the watchdog's sleep add up, one or two
intervals and the lateness of a sleep.

**Browser client.**  `CacheKnown` describes the distance between the cache and the
application while calls are under way: none but by the calls the application has
carried out and whose answers have not arrived (`Carried`), and if such a call is
alone, exactly its instance.  `exact` is withdrawn when a second call starts or
the application's list changes by itself, so the distance never has to be known
for two.  For the polling, `NoPollLeft` says that a client without a timer whose
answers were not overtaken is invalid and has no poll under way that could make
it anything else.

**Scopes.**  `CopyIsCurrent` says that a text being written is the text of the
list in memory (the read lock) and that, while nothing is owed, the file holds
that text or nothing.  `DiskIsCurrent` follows: at rest, a load gives what the text
of the list in memory gives, which is that list or, when it has no text, nothing;
`ScopesOnDisk` is the first case.  `FoundIsApproved` covers a text that the load has read and
not yet assigned.  `DiskIsText` says that what is in the file can be written
again, so that a restart keeps `ScopesOnDisk`.  The lemmas `AllowedInText` and
`AllowedInCut` say that neither a text nor a part of it allows a site its list
does not.

**Instances.**  `Identified` says that identities are given once and a bound
address has its binder as its listener; `Remembered` that an instance which is
still listed is the one that `close_instance`, the snapshot or `pingfall` saw.
With `Unambiguous`, whoever removes by address removes what he saw, unless that
had left the list.

**Single instance.**  `OneInstance` speaks of running processes, but a second one is
prevented long before it runs.  `Holders` are the processes that took no
application for running, from that look until they have ended; `OneHolder` says
that there is one, that one process at most is starting, and that none starts
while another leaves.  Its inductive step needs to know whom a start asked:
`AskedRunning`, the port it read is still the one in the lock file.  `FilesHeld`
follows the holder through the files, a log that could not be renamed at its start
included (`leftover`).  All three hold until `raced`.

**Event pump.**  `ViewCurrent` and `LogsInOrder` are almost inductive.  `PortSet` and
`EditsLast` add that the port is known before anybody can be told it, and that
the last text on its way to the editor is the window's.  For the lines, `Follows`
says that the lines in the channel continue those in the buffer and the batch
without a gap and up to the last one streamed, whatever other events are
between them.

**Model-checked only.**  Liveness (`ExpiredLeaves`, `ClosedDrains`,
`CancelEnds`, `HalfCloseEnds`, `FinishReturns`, `LinksEndAfterClose`,
`PortFreed`, `ScopeSwept`, `HandlersReturn`, `StartShows`, `PopupShows`, `Settles`)
is out of the prover's reach; of `HandlersReturn` the part that is safety is proved,
`NobodyStuck`.  Of data, only what can be said without recursion
is proved: sums are cardinalities, and of `Without` (`SelectSeq`) in `BrowserClient`
the proof uses only that equal lists stay equal.  Type
invariants are not listed in a run where a theorem proves them.  The
strengthenings (`FilesInv`, `CleanupInv`, `ClientInv`, `PumpInv`, `AppInv` and those
of the other modules) were found with TLC, as invariants of the same instances.

## 5. Noted while modelling

What the code does and a reader of its comments might not expect.  None of it is
excused silently: the properties name the exceptions.

Gateway.

* `persist_registry` snapshots under the lock but writes and renames outside it: of
  two overlapping persists the older snapshot may be published last, so the file
  lacks a tunnel until the next change, all requests answered with success.  The
  option's help (`main.rs:60`) says "Persist the platform tunnel registry to this
  JSON file."  `DiskExact` therefore speaks of persists that ran alone.
* A text message is tunneled as binary (`proxy.rs:94`, `:107`); the comment at
  `proxy.rs:64-65` says "Just Binary message will be tunneled, other type of
  websocket message will just be discarded."  Run `proxy_text`.
* A rename handed to the blocking pool outlives its request (`cli/serve.rs:728`): it
  may publish the emptied temporary file of the persist that follows (`trust`
  counts the two as overlapping).
* After a torn line (disk full, crash) the next accepted line continues it, and
  neither can be parsed.  When the rename of a rotation fails, the old generation
  is gone already and the line is lost (`capture.rs:168-170`).
* The cleanup may remove a file that is still being written, when the files
  together exceed the limit; its writer goes on out of sight (`capture.rs:318`).
* A chunk of 65,507 bytes makes a frame of 65,549, longer than the snapshot
  length of 65,535 in the header (`capture.rs:138`, `:202`).

Local side.

* After one error of `accept()` (`tunnel.rs:63`) a tunnel stays in the pool and in
  its listing without a listener (`AcceptFails`).
* An owner that never beats keeps the daemon for up to three intervals, because
  the clock starts at the watchdog's first look (`LeftBehindEnds`).
* The CORS predicate accepts an origin that ends with an allowed one
  (`cli/daemon.rs:113`), while the status compares them for equality
  (`cli/daemon.rs:310`).

Desktop.

* When the list of scopes cannot be serialized (`null` in the settings of one
  site, for one) an empty text is written over `scopes.toml`, those of other sites
  included (`daemon.rs:244`; the comment at `daemon.rs:268`: "Immediately persists
  the current scopes to `scopes.toml`.").  Run `scopes_unwritable`.
* A page that is served before `load_persisted_state` has read the file overwrites it
  with a list of its own, and the scopes of the last session are gone
  (`main.rs:37-41`; the comments at `main.rs:39-40` and `daemon.rs:188`).  Run
  `scopes_early`.  One that comes between the read and the assignment is forgotten.
* A rename of the live log that fails is printed and passed over
  (`launcher.rs:170-172`), so the session appends to the log of an earlier one; the
  comment at `launcher.rs:114-116` says "the current session always starts with a
  clean log" (`leftover`).
* The comment on `launch_instance` (`daemon.rs:300-301`) says that a duplicate
  remote in a scope fails; it is answered with the existing instance
  (`LaunchReused`).  `remove_instance` after the check of `close_instance` may
  remove an instance of another scope that was launched at the address in between
  (`RemovedForCause` names this exception).
* The first ping of a new instance changes its latency without a `Refresh`, and a
  page that hangs up before its `Refresh` leaves the window behind (`silent` in
  `EventPump`); the next `Refresh` or change of page repairs it.  Lines the pump has
  collected are dropped when a Quit is among the events behind them.
* Two starts at the same time, or one that meets an end or a late answer, may
  leave two applications, or one without a lock file (`raced`).

Browser.

* A poll that says invalid clears the timer; when an answer of an overlapping
  poll then says usable, the state is usable and nobody polls (`crossed`).
* `GET /version` answers a bare JSON string, whose `.version` is `undefined`, so the
  comparison in `checkVersion` never rejects; and its own error would be
  caught and thrown again as `DaemonUnavailable` (`index.ts:193-216`).
* ky repeats a DELETE whose answer was lost; the repetition fails, and the
  deleted instance stays in the cache until the next sync (`exact`).
* Comments say "every second" (`index.ts:142`, `:224`); the timer has 3000 ms.

## 6. What is not modelled, and why

* The gateway's router, bearer token and target allow list, the CLI's argument
  parsing and logger: functions of one request or of the command line, without
  state.
* `cli/connect.rs`: one accept loop like that of `tunnel.rs`.
* The bytes of pcap records, IP and UDP headers and the checksum: a fixed
  computation, which the tools that read the file check.
* Labels and latencies of instances: nothing but their display depends on them.
  `update_instance_state` stops at the first instance with the remote, so the
  same remote in a second scope never gets one.
* `config.toml` but for the tray setting: one writer, read at the start.
* Pruning of archived logs by age; the names of archives, two of which may
  collide within a second.
* Subscribers, options and getters of the browser client.
* The rendering of the views, the tray's menu, translations, `CursorTick`.
* Packaging, and the scrollbar illustration under `src/docs`.

## 7. Plan

Built, in this order: `TunnelRegistry`; `Admission` and `ConnectionGate`; `Proxy`;
`Capture`; `TunnelPool`; `DesktopScopes` and `DesktopInstances`; `Controller`;
`GatewayFiles`; `SingleInstance`; `EventPump`; `BrowserClient`.

Worth doing next:

1. Progress without liveness, like `NobodyStuck` for the two origin locks: that
   whoever waits for the audit lock, a full channel or the lock of the scopes waits
   for somebody who goes on, as state formulas with proofs.
2. Theorems about the type invariants of the modules that share a proof module.
3. An abstract file for `Capture` as a queue, which the channel, the writer and
   the disk implement.
4. An abstract view of the pool of one scope, which `DesktopInstances` implements
   and `BrowserClient` assumes.
