# MonkeySSH / MonkeyMux: a TLA+ verification project

MonkeySSH is a Flutter SSH client. On the remote host it runs **MonkeyMux**
(`src/remote/monkeymux`, Go), a helper that keeps terminal windows and native
coding-agent sessions alive while the phone is away. The part of the program
where interleavings, losses and restarts decide whether it is right is that
helper and the app's ends of its protocols. This project models it in TLA+,
checks it with TLC on small instances and proves with TLAPS, for every instance,
nearly all of the safety properties and the refinement that those runs check.

Four groups of modules follow the helper from the outside in: who serves a
session (`SessionServer`), what that server keeps (`MuxServer`), what its clients
are sent (`AttachOutput`), and the bridge of a native agent with the app's
transport to it (`AcpBridge`, `AcpSession`). `PiSessions` is the guess, made when
a server is replaced, of which conversation each window goes on with.

## 1. Inventory

### Parts, their state and their operations

| Part | Source | State | Operations |
|---|---|---|---|
| **ACP bridge daemon** | `remote/monkeymux/acp_bridge.go` | event numbering, replay window and its three counters, registered clients with a queue each, writer lease, books of pending provider requests and of client turns in flight, initialize cache, lifecycle state, provider pipes | read provider output, publish, attach (hello, replay), input, ack, status, detach, gc, stop, provider exit, protocol failure |
| **Provider process group** | `acp_process_*.go`, `awaitProviderReapReady` | leader, descendants, reap gate | poll for live members, TERM, KILL, reap |
| **App transport of a bridge** | `lib/domain/services/monkeymux_acp_bridge_service.dart` | channel and generation, last delivered number, negotiated replay stage, announced window, parked requests, input queue, reconnect attempt | open, handle each frame type, write, lose channel, reconnect, fail, close |
| **Session server** | `main.go` 1755-2560, 5503-5730 | session lock file, pid records, socket, restore file | ensure, replace, hand over, serve, shut down |
| **Windows** | `main.go` 5995-6590, 9071-9400 | window list, active and last active window, pending starts, watchers | create, select, close, exit |
| **Attach clients** | `main.go` 6613-6950, 8133-8296, 10989-11160 | write queue with gates and completions, input queue, prefix state | enqueue, write loop, coalesce, close |
| **Focus and viewport** | `main.go` 7788-8132, 9396-9600 | primary client, sizes, pending focus and resize | attach, detach, focus, resize |
| **Redraw forwarding** | `main.go` 9592-10057, 10493-10687 | paused flag, generation, buffers | pause, resume, time out, forward |
| **Terminal queries** | `main.go` 6951-7787, 10733-10988 | expected responses, pending queries | route, redeliver, defer, flush |
| **Output parser** | `main.go` 11841-12200 | parser state across reads | observe a chunk |
| **Restore** | `main.go` 2595-5500 | snapshot, candidate agent sessions | collect, assign |
| **App services** | `lib/domain/services/*` | JSON-RPC connection, session manager, SSH sessions, exec queue, transfers, settings, ... | |
| **User interface, database, platform adapters** | `lib/presentation`, `lib/data`, `android`, `ios`, ... | | |

### How they interact

```
 app: session manager -> JSON-RPC -> transport ==ssh exec channel==> acp connect
                                                                        |  unix socket
 provider <==stdin / stdout==> ACP bridge daemon (one per native window) <+
                                     ^ stop, gc, wait
 app: terminal view ==ssh channel==> attach client --> session server --> windows (PTYs)
```

The bridge and the transport exchange newline-delimited frames. The bridge
numbers what the provider prints and fans it out; the transport names the last
number it delivered when it attaches. Inside the daemon the goroutines share one
mutex (`bridge.mu`); they also wait outside it: for the provider's pipe, for the
process group, for a client's connection. The session server stops a bridge
through the bridge's socket when its window closes.

### What is hard about it

* **Visibility of an attach.** Replay and live events meet in one queue, in one
  critical section, so neither a duplicate nor a hole may appear.
* **Bounded memory with exceptions.** The window is bounded, but unanswered
  provider requests are pinned in it; eviction then compacts the middle of the
  window, and what is missing has to be told to a client that resumes there.
* **Books kept by hand.** Three counters and four sets are updated from the
  provider's output, from handlers and from the exit, in any order.
* **Endings.** Exit, malformed output, stop, gc and a stray process that holds
  stdout open may coincide.
* **Two ends that learn of a loss at different times.**
* **Helpers that share only a directory.** The lock, the pid record and the
  socket's name are files. A check and the system call that acts on it are two
  steps, and any process may die between them.
* **Three locks in the session server.** Resizes, attaches and the server's state
  have a mutex each, taken and given back several times in one operation; what
  was decided under one is applied under another.
* **Work that is put off.** A resize or a frame that meets a half-written escape
  sequence is done later, by the window's reader, when the world has moved on.
* **A query is for one client only.** Every client's terminal would answer it;
  the one that is asked may be gone before it is.

The properties that make each part right are those of section 4. `PROJECT.json`
lists the hazards line by line with the properties that cover them, and gives the
reason for those that none covers.

## 2. Modules

| Module | Models | Role |
|---|---|---|
| `AcpReplay` | the replay window: eviction, pins, the gap test, the choice of replay mode | operators |
| `AcpTrimLoop` | `trimReplayLocked` as its two loops over the slice | shows that the comprehensions of `AcpReplay` say what the loops do |
| `AcpBridge` | the daemon, extends `AcpReplay` | component |
| `AcpStream` | one numbered stream and a view of it | abstract specification |
| `AcpSession` | the app's transport over breaking channels, extends `AcpBridge` | composition, refines `AcpStream` |
| `AcpBridge_proofs` | | theorems about `AcpBridge`: types, lease, request books, exit |
| `AcpQueues_proofs`, `AcpWindow_proofs` | | theorems about `AcpBridge`: client queues, byte counters and limits of the window |
| `AcpSession_proofs` | | theorems about `AcpSession`, the refinement of `AcpStream` among them |
| `SessionServer` | `ensureServer`, `serveSession`, lock, pid files, socket name, replacement | component |
| `MuxServer` | windows, attach clients, focus and sizes of one server, with its three locks | component |
| `AttachOutput` | write queues, gates, terminal queries, replays and redraw pauses of one window | component |
| `SessionServer_proofs`, `MuxServer_proofs`, `AttachOutput_proofs` | | theorems about those |
| `FiniteFacts` | | lemmas about numbers, finite sets and their sums that several proofs need |
| `PiSessions` | `discoverPiSessions` | operators |
| `MCAcpBridge`, `MCAcpSession`, `MCSessionServer`, `MCMuxServer`, `MCAttachOutput` | | instances for TLC |
| `MCAlgorithms` | | the inputs of `AcpTrimLoop` and of `PiSessions` |

### AcpBridge and the code

State: `nextSequence`, `replay`, `replayBytes`, `pendingReplayEvents`,
`pendingReplayBytes`, `state`, `clients`, `writerClientID`, `pendingRequests`,
`inFlightTurns`, `initializeRequestIDs`, `sessionSetupRequests` are the fields of
`acpBridge`. `replay` is a function from retained numbers to events instead of a
slice. `idle` stands for "`lastActivity` is more than the idle timeout ago";
every assignment of `lastActivity` makes it false. `stdin` and `reapAllowed` are
whether the pipe is still owned and whether the leader may be reaped. Each
goroutine has a variable that says where it stands: `reader`, `waiter`,
`stopper`, and `pc[c]` with the input in hand `msg[c]` for the handler of
connection `c`. `send[c]` and `capacity[c]` are the client's channel.
`provider`, `held`, `asked`, `owed` are the environment: whether the process
group lives, whether a stranger holds its stdout, the requests it has published
and not had answered, the requests it has read and not answered. `base`, `sent`
and `disclosed` are history.

One action is one critical section, or one call that waits for something else:

| Action | Code |
|---|---|
| `ProviderOutput`, `ProviderGarbage`, `ProviderEOF` | `readProviderOutput` with `publish` |
| `FailState`, `FailPublish`, `FailClose`, `FailStop` | `failProviderProtocol` |
| `ReapProvider`, `DrainTimeout`, `ProviderExited`, `PublishExit` | `waitForProvider` |
| `StopSignal`, `StopCommand`, `StopClose`, `StopKill` | `stop` |
| `Accept`, `Hangup`, `GcCommand`, `GcStop` | `handleConnection`, `handleCommand` |
| `Attach` | `handleAttach` to the registration |
| `ReceiveInput`, `AnswerFromCache`, `PassCache`, `TrackRequest`, `WriteProvider`, `WriteFails`, `UntrackRequest`, `ObserveMessage`, `Ack`, `OtherFrame`, `Answer` | the reader loop of `handleAttach` and what it calls |
| `WriteFrame`, `DetachClient`, `CloseConnection` | `writeClient`, `detachClient`, the handler's return |
| `Age`, `ProviderDies` | time and the provider |

Payloads are abstracted to a kind (`request`, `result`, `failure`, `note`,
`state`), an id and a size. A request id is drawn fresh, as clients draw UUIDs
and providers do not reuse an id still in use. Client ids are random in the code
and are the connections here; a connection is reused only after its handler
returned. `enqueue` checks that the client is attached and then sends; the model
does both in one step (an event that slipped in between changes nothing it does
next). A provider request over the pending limits is dropped and ends the bridge
as a protocol failure, as in the code; it is not counted as asked. A client's
`ack` is stored by the code and never read: only its effect on the idle timer is
kept. After the last step of `stop` the daemon's process ends; the model lets
the other goroutines go on.

### AcpSession and the code

The transport's fields are the variables of the same name without the
underscore (`lastDelivered`, `freshBaseline`, `highWater`, `attempts`, ...);
`stage` folds `_acceptsPendingFrames` and `_directReplayInProgress`. One action
takes one frame from the queue of the connection the transport reads and runs
its handler whole (`Handle...`); a channel may break on the app's side
(`ChannelLoss`, which covers the handshake timeout), on the bridge's
(`BridgeSideLoss`), and either end learns of it on its own. `Retry` is
`_scheduleReconnect` with a backoff of `MaxAttempts` delays. `RestartApp` is a
new transport without history, with the old connection left behind. Dart
handlers run to completion between awaits, so a frame is one step; the worker
that decodes large frames re-checks the channel after it and is left out. Input
of the app is limited to replies to provider requests. The legacy handshake of a
bridge that knows no replay modes cannot occur against this bridge and is left
out. `AcpSession` composes actions of `AcpBridge` and adds nothing to them.

The provider may print anything. The bridge numbers, keeps and forwards every
line that is JSON (`acp_bridge.go:749`); the transport fails for good on one that
is no object (`bare`, in `HandleEvent`, after `EndWindow` has closed an announced
window it came right behind) and on one that is not valid UTF-8 (`garbled`, in
`Handle`). The bridge goes on with both, so the line stays in the replay and the
next transport fails on it again. The code calls this `invalidFrame` as it does a
frame that the bridge should not have sent; the model calls it `providerInvalid`,
and `NeverRejectsTheBridge` is about the others. Lines of a size that leaves no
room for the envelope within `acpMaxFrameBytes` cannot be written
(`acp_bridge.go:1768`) and end the connection on the bridge's side each time: for
safety that is `BridgeSideLoss`, and `CatchesUp` assumes that there are none.
Numbers beyond a double, which the app cannot encode again, are left out.

### SessionServer and the code

A process is a pid with a `life` (`none`, `alive`, `dead`, `reused`: a stranger has
the pid). `file["lock"]` and `file["pid"]` are the two records, `path` the inode
that the socket's name refers to. `hpc[h]` is where helper `h` stands in
`ensureServer`, `purpose[h]` for whom it is looking a record up: acquiring and
giving back the lock, the owner of the session, the outgoing server and gc all go
through the same steps `JudgeRecord`, `Recheck` and `Unlink`. `at[s]` is where
server `s` stands in `serveSession` and `close`, `rpc[s]` where its republisher
stands.

| Action | Code |
|---|---|
| `Start` | `attach` and `gc` begin |
| `InstallLock`, `LockTimeout`, `Return` | `acquireSessionLock`, `installSessionLockFile`, the unlock |
| `JudgeRecord`, `Recheck`, `Unlink` | `sessionServerOwner`, `clearStalePIDFile`, `removePIDFileIfUnchanged` |
| `ServerFound`, `ServerSilent`, `FinalCheck`, `Spawn`, `ServerStarted`, `StartTimeout` | `ensureServer` |
| `Replacement`, `Snapshot`, `HandoffWindow`, `HandoffFails`, `RequestShutdown`, `ServerExited`, `ExitTimeout` | `prepareRunningServerReplacement` |
| `ProbePath`, `ComparePath`, `UnlinkPath` | `removeAbandonedSessionSocket`, `gcCommand` |
| `ReadRestore`, `AskOther`, `ClearName`, `Listen`, `RecordPid`, `RestoreWindows`, `RestoreFails` | `serveSession`, `restoreOrCreateInitialWindow` |
| `CloseServer`, `CheckPath`, `UnlinkOwnPath`, `JoinAndForget`, `UnlinkPid` | `muxServer.close` |
| `NoticeMissing`, `Rebind`, `InstallListener`, `UndoRebind` | `republishSocketIfMissing` |
| `NativeEnds`, `Crash`, `Reuse` | agents, the operating system |

`Ownership` is what looking a record's process up may say: of a live process or a
reused pid it may be unable to tell (a lookup that runs out of time, counted in
`disturbances`), of a dead one it says that it is gone.

`Fragile` is the windows whose program may fail to start in a new server. A
restored window that does is left out; when none is left the server starts with
its initial window (`FreshWindow`), and when that fails too it gives up
(`RestoreFails`: the name and the record are removed as by a close). `refused` is
history, the windows that were left out so; once the initial window was, it stays
there, and `WindowsSurvive` is about the others.

`mishap` is history too: something has happened after which the code does not
promise to keep the windows. That is a crash or a deadline (a helper may be killed
with the snapshot in its hands), a server that could not be started or gives up
restoring, or one that ends because its last window did while another server still
runs a window that it left out (`Stranded`). `raced` is
history too: a record was removed that was written after the last look at it.
`displaced` says of which kinds (`"path"`, `"pid"`) a file was removed that, by
then, was the one of a running server; `RemoveName` and `UnlinkPid` note it.

### MuxServer and the code

The variables are the fields of `muxServer` under `mu`, with `win[w]` for a window
and its process, PTY and bridge. A goroutine is a thread with a program counter
`pc[t]` and its locals `arg[t]`; `attachMu` and `resizeMu` say which thread holds
them, a step is one critical section of `mu`. `focus` is the registered clients
in the order of their `focusSequence`, so the primary client must be its last.

| Actions | Code |
|---|---|
| `ResizeForClient`, `ResizeWithRedraw`, `RefreshPendingResize` | `resizeForClient`, `resizeWithRedraw`, `refreshPendingViewportResize` |
| `Focus`, `Interact`, `AmbiguousEscape`, `ClaimFocus`, `ReplayFocused`, `RefreshPendingFocus` | `focusAttachClient...`, `applyFocusedClientViewport`, `replayFocusedWindowToClient` |
| `BeginAttach`, `ChooseTransition`, `LockForAttach`, `LoseTransition`, `AbandonAttach`, `RegisterAttach`, `RedrawAttached`, `Disconnect`, `RemoveAttach` | `handleAttach`, `removeAttachClient` |
| `AdmitStart`, `StartProcess`, `PublishWindow`, `RejectWindow`, `KillRejected`, `ShowNewWindow` | `createWindowWithStarter` |
| `Select`, `ShowActivated`, `SelectQuietly` | `selectWindow...` |
| `BeginClose`, `StopBridge`, `StopBridgeFails`, `CommitClose`, `AnnounceClosed`, `MarkWindowClosed` | `closeWindow`, `markWindowClosed` |
| `BeginOutput`, `EndOutput`, `ResumeForwarding`, `ForceRedraw`, `RestoreGeometry` | `handleWindowOutput`, the redraw pause, the synthetic resize and its timer |
| `BeginServerClose`, `TearDown`, `EndServerClose` | `close` |
| `Ask...` | `handleControlRequest` |

`Without(c)` takes `c` out at its place in `focus`, which holds nobody twice.
Output is abstracted to whether it stopped inside an escape sequence. A size is
one number; `Temporary` is the size of a synthetic redraw. Initial clients and the
windows of a restored server come from the scenario.

### AttachOutput and the code

`client[c]` is an `attachClient`: queue, `queuedBytes`, the write in hand, the
replay mark, and as history what its terminal was shown and asked. A write has a
token when somebody waits for its completion and a gate when its delivery is
decided later. `job[t]` is a query whose writes are under way: the primary is
asked at once, every other client's write waits behind a gate, and the thread
opens one gate after the other until a write succeeded. A thread that holds
`attachMu` takes one step. What a client is shown is a set of chunks, so that a
replay and the chunks it holds can be compared.

A write that fails is taken not to have reached the terminal (`AskedOnce` depends
on it: a write of which a part arrived may be repeated to another client). A
redraw frame shows everything, whether the program repaints is fixed in a
behaviour, and identical queries, which the code deduplicates by content, are one
query. What waits for a terminal is limited to `PendingLimit`; what there is no
room for, when it arrives or when it is put back after a failed write, is given up
(`NoRoom`, `Store`) and joins `missed`. The queries of a chunk count one unit and
are stored or given up together, where the code counts bytes and takes the queries
of a chunk that nobody watches one by one (`main.go:15233`); so a chunk whose own
queries exceed the 512 bytes, of which the code keeps those that fit
(`main.go:12565`), and a half-read query longer than that (`main.go:15252`) are
left out. What the server answers itself is limited as well (`main.go:15160`):
`Emit` leaves open whether it answers. A replay mark that was passed is kept where
the code forgets it: it suppresses nothing any more. `Kept(s, K)` is the filter of
a slice by membership, `Bytes` the sum of a queue's sizes.

### PiSessions and the code

Windows and session files are sequences of records, in the order of the code's
slices; `Discovered` runs the stages of `discoverPiSessions` in their order
(processes, names in titles, activity, start times, directories, what is left),
each an assignment of sessions to windows that is taken only where it is unique.
The two tolerances of the code are whole slots of ten seconds here. What a
process's arguments say, and the contents of the files, are inputs.

## 3. Bounds

`MaxSequence` ends the provider's output, `MaxLosses` and `MaxRestarts` limit what
breaks, `WindowEvents` and `WindowSizes` the windows that are trimmed. Each `.cfg`
begins with what its instance is about. The limits of the window are scaled down
(`ReplayMaxEvents` is `acpReplayMaxBytes/acpReplayEventOverheadBytes`, 327680, in
the code: `acp_bridge.go:39`) so that both eviction passes run within four events:
with three events and three bytes, sizes 1 and 2 and a pinned request at the head,
the second pass with its seven-eighths threshold leaves holes in the middle.
`AcpTrimLoop` checks the trimming itself on every window of five events. Two
clients are enough for the lease (a holder and a rival), one client that comes
back for gaps, since clients meet only in the lease and the queues. Two
connections let a reconnect overtake its predecessor. Identity matters for at most
two provider requests and one client request: nothing in the code compares more
than two.

`MCSessionServer`: two helpers meet in every step of the lock and of the
replacement, one of them may update, the other may attach or collect garbage; an
outgoing server, possibly of an older version and without the capability to shut
down, and one that is started. `MaxDisturbances` is one: any single crash, gc or
deadline at any step, with the reuse of the pid it leaves, or the lock of a third
helper (`Crashed`) that died before, which both find. The outgoing server has
either one terminal window that may fail to start again (`Fragile`), so that its
successor is left with the initial window or, when that fails too, gives up; or two
windows, one of them native, since the hand-over treats the kinds differently, and
of these the native one may be left out. That a successor loses its last window
while the outgoing server still runs one it left out (`Stranded`) takes two native
windows or more; the run does not reach it, and the proof covers it.

`MCMuxServer` and `MCAttachOutput` run scenarios: each says with how many windows
or clients it starts and how often users and programs may attach, leave, type,
resize, manage windows, end or print, and everything that follows from it is
interleaved freely. Two clients are enough for the focus (the primary and the one
that takes over), three for the gates (asked, passed by, and let through). Each
scenario spends what its kind of interference needs: resizes against output,
closing against exit, creation against the server's end. `QueueLimit` is three
and `ChunkLimit` two, so that queues overflow and writes are coalesced;
`PendingLimit` is two, and a scenario prints three queries that nobody watches.

`MCAlgorithms` takes one window of sixty-one kinds, with or without a second of
sixteen kinds, one or two session files, and three slots of time: two candidates
and two windows are what an ambiguous assignment needs.

## 4. Runs

| Run | Checks | Shows |
|---|---|---|
| `trim_loop` | `TrimIsTheLoops`, `RestoredRightly` | the in-place loops leave exactly the window and the byte count of `AcpReplay!Trim`; no two windows get one Pi session, none one that its process did not write or that it left, and what cannot be told apart stays open |
| `bridge_delivery` | `WindowBounded`, `NoSilentGap`, `QueueFits`, `FreshAttachSeesPending` | resuming from every number in every mode: a hole in what a client gets is one it was told of, the queue primed under the lock never blocks, over its limits the window holds only unanswered requests, and a view without history starts with every unanswered request |
| `bridge_lease` | `LeaseSound`, `AskedStaysPending`, `OwedIsInFlight`, `PendingIsPinned` | two clients, one request in each direction, every loss: the lease is never stranded, no request disappears from the books |
| `bridge_lifecycle` | `TypeOK`, `CountersExact`, `ExitedIsCollectable`, `StoppedHasNoClients`, `StateOnlyAdvances` | every ending against every stage of a client's input |
| `bridge_gc` (violation) | `GcStopsOnlyIdle` | finding 1 |
| `session` | `SessionTypeOK`, `NeverRejectsTheBridge`, `PendingIsShown`, `ImplementsStream` | the bridge never sends what the transport takes for a broken helper, but for what the provider printed; a connected view knows every pending request; together they refine `AcpStream` under the mapping `published <- nextSequence`, `delivered <- lastDelivered`, `excused <- excused` |
| `session_recovers` | `CatchesUp`, `ExitAnnounced` | liveness |
| `session_nonwriter` (violation) | `NonWriterMeansAnotherClient` | finding 2 |
| `session_server` | `SessionTypes`, `LockExclusion`, `OneWorkspace`, `WindowsSurvive`, `Reachable` | two helpers are never both inside (short of the race named under Observations), short of what `mishap` notes there is one current server, every window that started again is in a server or in a snapshot on its way to one, and a session that is served is found under its name again |
| `mux_server` | `MuxTypes`, `PrimaryIsLatest`, `GridsAgree`, `PtyFits`, `ResizeWaits`, `NothingOutlivesClose`, `RemovedOnce`, `IdentityKept`, `NothingSticks` | the primary client is the latest in focus, all clients clip to the published grid and are not told of another inside a sequence, the terminal fits when all is quiet, a window is removed once and not before its bridge has stopped, no process outlives the server, and no lock is kept |
| `mux_primary` (violation) | `SettledOnPrimary` | finding 3 |
| `attach_output` | `OutputTypes`, `AskedOnce`, `NotLost`, `NoGap`, `WritersGoOn` | the queue's byte count is exact and bounded, a query is asked of one client and not lost with it (but with its window, or where as many wait as there is room for), an attached client gets all of the output, and no write loop waits for a gate that nobody decides |

Every property of a passing run has a mutant in `PROJECT.json`: a plausible bug,
written beside the definition it replaces and marked `mutant`, under which TLC
finds the property violated. Deadlock checking is off: the processes are meant to
stop and the bounds end every behaviour. `NothingSticks` and `WritersGoOn` stand
in for it: they tell a state in which everything is done from one in which a
goroutine waits.

**Fairness** (`FairSession`). Weak fairness of the daemon's own goroutines, each
of which is either runnable or waits for one of the others: the reader reaches
the end of a dead provider's output, its failure path, the waiter and a stop run
on, the drain timeout closes the pipe. Weak fairness of the handlers, of frames
on a channel that is up, of noticing at both ends that a channel is gone, and of
the reconnect timer. Nothing is assumed of the provider (it need not print or
die), of the app's user, or of the network (channels need not break, and a lost
channel is bounded only by `MaxLosses`). `BridgeSideLoss` is fair only for a
connection the transport has left: its socket closes in the end.

**Fairness** (`SessionServer!Fairness`). Weak fairness of a server's main
goroutine and of its republisher, which is a ticker: a live process goes on.
Nothing is assumed of helpers, users, agents or crashes.

### Findings

1. **gc against an attach.** `handleCommand` asks `shouldIdleShutdown` and then
   calls `stop`; each takes the lock on its own (`acp_bridge.go:1234`). A client
   that attaches in between is stopped.
2. **A reconnect is refused by its own past.** A transport whose channel broke on
   its side only reconnects while the bridge still has the old connection, which
   holds the lease; the hello says it cannot send, and the transport fails for
   good as `nonWriter`, documented as "Another attached client owns provider
   input." One app, no second client, is enough.
3. **A postponed resize outlives the focus it was for.** A client's resize meets a
   half-written sequence and is postponed (`main.go:9463`). Before the sequence
   ends the other client takes the focus; its size is the published one, so
   `focusAttachClientLocked` sees nothing to do (`main.go:8006`) and does not take
   the postponed size back. The reader then applies it: the shared terminal has
   the size of a client that is not primary, until somebody resizes. The helper's
   README says the size of the one that interacts is authoritative immediately.

### Observations

What modelling showed beside the findings; no document promises otherwise, so
none of these is a run.

* A second way to finding 3: `replayFocusedWindowToClient` that is postponed has
  already stored its size in `s.width` (`main.go:11213`); when the focus returns,
  `selectWindow` publishes that size.
* A postponed resize that is bound to a window by its theme redraw stays pending
  when another window becomes active (`main.go:9458`).
* A query read under `mu` is dropped when the active window changes before it is
  written (`main.go:10509`), and so is one for which there is no room among those
  that wait (`main.go:10842`), also when it is put back after a failed write
  (`main.go:10979`); `NotLost` excepts exactly these (`missed`).
* A line of the provider that is JSON but no object, or no UTF-8, ends the
  transport for good and leaves the bridge running: a replay that holds the line
  ends the next transport too.
* A chunk taken before a switch away and back is written after the replay that
  holds it: the client sees it twice. `NoGap` is about gaps only.
* The replay of a new window may be written after that of a later selection.
* A window created between the retirement of the last one and `go s.close()` ends
  with the server.
* `removePIDFileIfUnchanged` compares and unlinks in two system calls
  (`main.go:2522`). Two helpers that meet the lock of a crashed one may both judge
  it stale; the first clears it and installs its own, which the second then
  removes, and both are inside. The window is one system call wide. The comment
  above the function names this outcome as the one it prevents. The model has the
  race; the history variable `raced` says that it happened, and `LockExclusion`,
  `OneWorkspace` and `WindowsSurvive` except exactly those behaviours.
* Two records removed too late make a second server (`displaced`): the name of
  a running one, by gc or by an outgoing server, and its pid record, by an outgoing
  server whose read and unlink (`main.go:2235`) were two steps. A helper then finds
  neither and starts another. The pid record alone is enough when lookups and
  queries run out of time besides (`disturbances`): a helper that got no answer
  twice starts a server, which asks who answers (`main.go:5523`) while nobody does
  and removes the name (`main.go:5528`) of one that has come up since. The run's
  instance is too small for both: the attempt to prove `OneWorkspace` found them,
  on larger instances TLC shows them (three helpers and three servers for the
  first, four servers for the second), and `OneWorkspace` excepts exactly these.
  With that it is proved for every instance.
* A socket's identity is an inode number, which the file system may use again
  (`main.go:5546`).
* "existing helper was kept" (`main.go:272`) is printed also when native windows
  were already handed over or the shutdown was already requested.
* A server that crashes leaves its socket's name; the next helper removes it.

## 5. Proofs

The theorems hold for every choice of the constants that satisfies the
assumptions of the modules (`LimitsAssumption`, `BridgeAssumption`,
`SessionAssumption`, `MuxAssumption`, `OutputAssumption`): any
number of clients, helpers, windows and scenarios, any limits. In parentheses is
the property of section 4 that a theorem states.

| Module | Theorems |
|---|---|
| `AcpBridge_proofs` | `TypeCorrect` (`TypeOK`), `LeaseIsSound` (`LeaseSound`), `StoppedIsEmpty` (`StoppedHasNoClients`), `StateAdvances` (`StateOnlyAdvances`), `PendingIsRetained` (`PendingIsPinned`), `AskedIsPending` (`AskedStaysPending`), `OwedCounts` (`OwedIsInFlight`), `ExitCollects` (`ExitedIsCollectable`) |
| `AcpQueues_proofs` | `QueuesFit` (`QueueFits`), `GapsAreTold` (`NoSilentGap`), `FreshAttachIsTold` (`FreshAttachSeesPending`) |
| `AcpWindow_proofs` | `BooksAreExact` (`CountersExact`), `WindowIsBounded` (`WindowBounded`) |
| `AcpSession_proofs` | `TransportTyped` (`SessionTypeOK`), `TransportTrustsTheBridge` (`NeverRejectsTheBridge`), `PendingReachesTheApp` (`PendingIsShown`), `SessionIsAStream` (`ImplementsStream`) |
| `SessionServer_proofs` | `SessionTypesCorrect` (`SessionTypes`), `LockIsExclusive` (`LockExclusion`), `OneServerServes` (`OneWorkspace`), `NoWindowIsLost` (`WindowsSurvive`) |
| `MuxServer_proofs` | `InvHolds` (the invariant itself), `MuxTypesCorrect` (`MuxTypes`), `PrimaryCorrect` (`PrimaryIsLatest`), `GridsCorrect` (`GridsAgree`), `PtyCorrect` (`PtyFits`), `RemovalCorrect` (`RemovedOnce`), `CloseCorrect` (`NothingOutlivesClose`), `IdentityIsKept` (`IdentityKept`), `ResizesWait` (`ResizeWaits`) |
| `AttachOutput_proofs` | `TypesHold` (`OutputTypes`), `QueriesNotLost` (`NotLost`), `AskedOnceHolds` (`AskedOnce`), `NothingIsMissed` (`NoGap`) |

Each strengthening was checked by TLC on the instances of section 3 before it was
proved. The arguments, module by module:

**`FiniteFacts`.** The library's induction theorems take an operator and cannot
be used; what needs induction is derived from the well-foundedness of the natural
numbers (`LeastNumber`: a set of numbers has a least one). From it: a finite set
of numbers can be put in order (`CanBeOrdered`), and a sum over a finite set, of
which the library gives a recursive definition, satisfies its recursion equation
and therefore splits (`Total...`). `Ascending`, `Kept` and `Without` are stated
by what their result is, in the way these lemmas need it.

**Bridge** (`AcpBridge_proofs`).

* *Types.* `TypeOK` is inductive as it stands; the lemmas `TrimKeeps` and
  `PublishType` say once what eviction and publication leave.
* *Lease.* `LeaseSound` alone is not inductive: that an attached client in the
  middle of its input holds the lease needs that a client is registered only
  while its handler runs and that the bridge's state and the stop agree
  (`LeaseInv`). Dropping clients (`Drop`, a full queue, a stop) only leaves
  (`LeaveKeepsLease`).
* *Retention.* Eviction never takes a pinned event (`EvictedUnpinned`,
  `TrimPinned`), whatever the byte counter says, so the pins of the window change
  only by an append and by an unpin (`AppendPins`, `UnpinPins`), which go with the
  changes of `pendingRequests`.
* *Asked.* A reply settles its request when it was written and observed, not
  before: `WrittenIsHeard` ties a written reply to what the provider got, and
  `ReapedIsDead` covers the wholesale clearing at exit.
* *Owed.* `RequestsTracked` says that a request in a handler's hands is in the
  books from its registration on, `RequestsDiffer` that two handlers never hold
  the same one, so that untracking a failed write takes nothing from the other.
* *Exit.* `ExitedIsRead`: once the waiter is past the drain the reader has
  ended, so only handlers can still touch the books.

**Queues** (`AcpQueues_proofs`). `QueueFlows` says of each client's queue what
the two theorems need: its events ascend from `sent` (`InOrder`), none is missing
but those that were evicted from the part a client was told of (`HasAll`,
`Gone`), and those still retained say what the window says (`Faithful`). The
window never empties once something was published (`WindowKept`), so the number a
client is told of exists. Every action is one of five steps as the queues see it
(`QuietStep`, `PublishStep`, `ReleaseStep`, `AttachStep`, `InnerStep`); that each
is one is shown once (`OpenNext`), and the same classification serves the session.

**Window** (`AcpWindow_proofs`). The bytes of a window are a sum over the numbers
it retains; `BytesSplit` splits it along any part. The two eviction passes each
take what their comprehension says and lower the counter by its bytes
(`TrimBooks`); the second pass leaves the window within its limits or with
nothing but pins (`CompactFits`). `BookSteps` carries both through an append, a
reply and the release at exit.

**Session** (`AcpSession_proofs`). `Serves` relates a queue to the place its
reader has reached and to the mode that was negotiated: direct replay, pending
requests first and then live ones, or a fresh baseline. `OpeningWell` says it of
a channel whose hello is still to be read, `UpWell` of one that is up, with an
announced window; `ShownInv` that a pinned request the transport has passed was
shown. What each frame does to the transport is a predicate (`GotHello`,
`GotEvent`, ...), proved once from the handlers; none of them is a rejection when
the queue serves. The refinement has one step per action: an event frame is a
`Deliver` of the next event or, behind a told gap, of a later one; everything else
publishes, discloses, sets a baseline, restarts or stutters.

**Session server** (`SessionServer_proofs`). `LockExclusion` is a consequence of
`HolderRecorded`: who is inside is recorded in the lock, unless `raced`. What may
take a record away is the removal of a stale one, and a record about to be
removed is the helper's own or of a process that has ended (`StaleInv`); that in
turn needs that pids in files were started (`FileInv`), that who does not run is
nowhere (`AsleepInv`) and that a helper's place says why it is there
(`ControlInv`). The types bound inodes by counting what may hold one.

`OneWorkspace` and `WindowsSurvive` are proved together (`ServeInv`, over
`BaseInv`: the types, the lock, which way a helper is going, and where a server
stands). The argument is about the servers of the helpers' version that start or
serve (`Active`). A helper starts one only after it saw that there is none, in one
of two ways. Either an older server answered and its windows were taken over:
until the successor runs, no other is active (`NoneYet`, `Successor`), because as
long as the older one serves, the directory is its own or its successor's and no
helper is about to remove anything (`OldInv`: `Undisturbed`, `Cautious`). Or
neither name nor pid led to a server: then an active one would be found
(`ReachedInv`, `RecordedInv`), so a helper that goes on was mistaken, by a lookup
that ran out of time or a name that was removed, and the check before the start
stops it (`OwnerInv`, `Mistaken`). The helper waits for the server it started
(`WaitInv`), inside the lock, so no second one is started (`OneInv`). A window is
in a server that goes on or in the snapshot of a helper that updates (`KeptInv`),
and the successor carries all of that snapshot, but for what it failed to start,
before the helper lets go of it (`CarriedInv`). The parts are stated for
behaviours without an accident (`Calm`) or without those `OneWorkspace` excepts
(`Tracked`); a crash ends both.

**Server** (`MuxServer_proofs`). The types, with what a thread may carry at each
place (`ThreadInv`), are inductive with three groups that each action leaves
alone or changes in few ways: `DeskInv` (primary, focus order and told grids),
`LifeInv` (no bridge runs when its window is taken away, one goroutine announces
each, every program is in a listed window or in one being announced) and `FitInv`
(the window on the screen has the published size, or somebody is about to repaint
it). `IdentityKept` and `ResizeWaits` follow from the same invariant, step by
step.

**Output** (`AttachOutput_proofs`). `OutputTypes` needs that each client's books
are exact (`Exact`, through `Appended`, which may join a write to the last one).
`pauses <= MaxPauses` is a statement about what may begin a redraw: each is paid
for beforehand by an event of the scenario, a replay in flight, a replay owed or a
hidden window (`BudgetInv`). `NotLost` is not inductive: a query leaves one of its
places when a result or a job says that it was written, so those have to be true
(`ResultInv`, `JobInv`), a thread has to be free when its work begins (`ReadInv`,
`TimerInv`), and the flush in flight has exactly one goroutine that watches it
(`QueryInv`). Every step then shows that a query that was in a place is in one
(`StepWell`).

`AskedOnce` needs both directions at once (`AskInv`): who holds a query (it waits,
is kept by a pause, was read, or is the business of a job or of a goroutine that
watches its write, and of one of these only: `ApartInv`) and what is on its way to
a terminal. A write that asks has a token of its own, which no write and no result
had before (`SentInv`, `ToldInv`, `FreshInv`); it may be written only while it is
the one its job waits for or a goroutine watches (`AwaitedInv`, `WatchedInv`); and
what is still held was asked of nobody, unless its holder is about to hear that it
was (`UnaskedInv`). So whatever is written asks something new (`ArmedUnasked`).
Besides a new query (`Emit`), the actions come down to six kinds of step: one that
asks nothing (`Quiet`), the end of some writes (`Reports`), a launch (`Launches`),
a turn of a job to its next client (`Turns`), and queries let go of that are
watched anew (`Rewatched`) or put back (`Restored`).

`NoGap` speaks of a state of rest; its strengthening (`GapInv`) of every state: a
client that is not owed a redraw has been sent each chunk, or a write that shows it
is queued (`CoverInv`, `Has`), except the one that the reader has in hand for it,
which is newer than its replay and so is not taken for a part of that (`MarkInv`).
While a redraw keeps output back nothing is claimed, and the timer that ends it is
running (`PauseInv`). A write behind a "rest" gate counts as long as it has not been
decided against. That is where the difficulty lies: when it is, the client must have
been shown as much with the query it was asked, so that write and the gated one show
the same (`PairInv`), a result says that it was written, or that the client is
closed (`SeenInv`), and each gate belongs to its client and to a job that began
(`RestInv`). That a job's gates are its own rests on `AskInv`: no earlier write,
result or gate has its token (`Novel`). Most steps only put something into queues
(`More`) and nothing behind a gate (`Calm`); what is left is an emission, a launch
(`LaunchGives`, `LaunchRests`), a delivery, a turn of a job, and the replays.

**Only model-checked.**

* Liveness and `ENABLED`, outside the prover: `CatchesUp`, `ExitAnnounced`,
  `Reachable`, `NothingSticks`, `WritersGoOn`.
* `TrimIsTheLoops` and `RestoredRightly`, about recursive operators.

## 6. What is not modelled

Of the bridge: the command line and the detached start, clean-up of stale
sockets, accept errors, the escalation from TERM to KILL and reuse of group ids.
Of the transport: bytes, the input queue's bound, metadata validation.

Of the session server: the update prompt and its policy (an answer is an input),
the files' contents and records that cannot be parsed, restore data other than
which windows it holds, and the retry loop of the client command.

Of windows and attach clients: titles, alerts, modes and history as data, window
lists sent to control clients (which may overtake each other: each is sent after
its lock is released), shell commands, the start of a bridge for a control
client, prefix keys, the input queue and bracketed paste, capability hints,
colour-scheme queries, the way of the answers back (`expectTerminalResponses`,
`routeInput`) and image replays. The output parser is a byte automaton: its rules
are its content and a model of it would be a copy.

Of restore: the assignment for agents other than Pi, which is by a session id
that the agent reports, and the reading of processes and files.

Platform layers, the user interface, the database, SSH itself, transfers,
settings, telemetry and purchases are not modelled: they are sequential or belong
to libraries; `PROJECT.json` gives the reason for each.

## 7. Running it

```
tlc -config MCAcpBridgeDelivery.cfg MCAcpBridge.tla     # and the other cfgs
for m in *_proofs.tla FiniteFacts.tla; do tlapm $m; done
```

The largest run has about 2.5 million states and takes two to three minutes on
two workers.

## 8. Plan

What is left, in order of importance.

1. The way of a query's answer back to the window that asked
   (`expectTerminalResponses`), over `AttachOutput`.
2. The JSON-RPC connection and the session manager of the app, over `AcpStream`.
