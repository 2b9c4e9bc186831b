---------------------------- MODULE SessionServer ----------------------------
(***************************************************************************)
(* Who serves a MonkeyMux session: src/remote/monkeymux/main.go.           *)
(*                                                                         *)
(* Every `attach` runs ensureServer in a helper process of its own.  The   *)
(* helpers share nothing but the runtime directory: the session's lock     *)
(* file, the server's pid file, the name of its socket, and restore files. *)
(* A helper finds the server that answers, or replaces one of another      *)
(* version, or starts one.  Servers start, publish their socket, republish *)
(* it when its name disappears, and close.  Any process may crash between  *)
(* two system calls; a check and the call that acts on it are two steps.   *)
(*                                                                         *)
(* A record in a file is the pid in it: a process writes each file at most *)
(* once, so the modification time that the code compares as well adds      *)
(* nothing.  A socket name is the inode it refers to, 0 when there is none.*)
(***************************************************************************)
EXTENDS Naturals, FiniteSets

CONSTANTS
  Helpers,        \* pids of the helper processes that attach
  Updaters,       \* those whose user may be asked about an update
  Collectors,     \* those that may run gc instead of attach
  Servers,        \* pids of the servers
  Crashed,        \* the helpers that crashed before; one may have held the lock
  Outgoing,       \* the server that may run before the first helper starts
  Windows,        \* windows
  Workspaces,     \* the sets of windows that Outgoing may hold
  NativeWindows,  \* those of them whose ACP bridge lives in the server
  Fragile,        \* those whose program may fail to start, FreshWindow too
  FreshWindow,    \* the initial window of a server that restores nothing
  NoPid,
  BindAttempts,   \* attempts of a replacing server to bind (5 in the code)
  MaxDisturbances \* bound: crashes, runs of gc, and lookups, dials and waits
                  \* that run out of time

ASSUME SessionAssumption ==
  /\ IsFiniteSet(Helpers) /\ IsFiniteSet(Servers)
  /\ Outgoing \in Servers /\ Updaters \cup Collectors \cup Crashed \subseteq Helpers
  /\ Helpers \cap Servers = {}
  /\ NoPid \notin Helpers \cup Servers
  /\ NativeWindows \subseteq Windows /\ FreshWindow \notin Windows
  /\ Workspaces \subseteq SUBSET Windows /\ {} \notin Workspaces
  /\ BindAttempts \in Nat \ {0} /\ MaxDisturbances \in Nat

VARIABLES
  \* the runtime directory
  file,       \* "lock" and "pid": the pid recorded in it, NoPid if missing
  path,       \* the inode the socket's name refers to, 0 if missing
  onDisk,     \* servers whose restore file exists
  \* processes
  life,       \* "none", "alive", "dead", "reused" (the pid belongs to a stranger)
  \* helpers
  hpc,        \* where ensureServer stands
  purpose,    \* why a record is being looked up or removed
  seen,       \* the record that was read
  wish,       \* existingOnly and the answer of the update policy
  target,     \* the server whose status was read
  plan,       \* ensureServerReplacement
  spawned,    \* the server this helper started
  verdict,    \* how ensureServer returned
  \* servers
  at,         \* where serveSession and close stand
  version,    \* "current" (that of the helpers) or "older"
  shutdownOK, \* whether it has the capability "shutdown"
  hosted,     \* its windows
  restore,    \* the windows of the restore file it was started with
  open,       \* the inodes it listens on
  identity,   \* socketIdentity
  tries,      \* attempts to bind
  told,       \* a shutdown request or SIGTERM has reached it
  rpc,        \* where republishSocketIfMissing stands
  rebound,    \* the inode it bound
  \* environment and history
  crashed, disturbances, ended, workspace,
  mishap,     \* a crash, a deadline passed, a server without a window
  refused,    \* windows whose program a replacement could not start again
  raced,      \* a record was unlinked that was written since the last look at it
  displaced   \* what was unlinked since the last look although a server is
              \* reached by it, its "path", or was recorded in it, the "pid"

dirVars    == <<file, path, onDisk>>
helperVars == <<hpc, purpose, seen, wish, target, plan, spawned, verdict>>
bootVars   == <<version, shutdownOK, restore, tries>>
serverVars == <<at, hosted, open, identity, told, rpc, rebound>>
faultVars  == <<crashed, disturbances, mishap>>
history    == <<ended, workspace, refused, raced, displaced>>
vars == <<dirVars, life, helperVars, bootVars, serverVars, faultVars, history>>

Processes == Helpers \cup Servers
Alive(p)  == life[p] = "alive"

\* An inode number that nothing refers to.
UsedInodes == {path} \cup {seen[h] : h \in Helpers} \cup {identity[s] : s \in Servers}
                \cup {rebound[s] : s \in Servers} \cup UNION {open[s] : s \in Servers}

NewInode == CHOOSE i \in 1 .. 2 + 2 * Cardinality(Processes) : i \notin UsedInodes

NoWish == [existingOnly |-> FALSE, update |-> FALSE]
NoPlan == [windows |-> {}, old |-> NoPid, legacyHandoff |-> FALSE, keepOldProcess |-> FALSE]

\* dialSession: the live process that listens on what the name refers to.
Dialable  == {s \in Servers : Alive(s) /\ path \in open[s]}
\* queryRunningServerStatus: a hello comes only from the accept loop.
Answering == {s \in Dialable : at[s] = "serving"}

Disturbed == disturbances < MaxDisturbances /\ disturbances' = disturbances + 1
TakesTime == Disturbed

(***************************************************************************)
(* Records                                                                 *)
(***************************************************************************)
\* Mutant: a lookup that fails counts as a dead owner.
OwnershipGuessed(p) ==
  IF p = NoPid \/ life[p] \in {"none", "dead", "reused"} THEN {"gone"} ELSE {"live", "gone"}

\* pidRecordOwnership: a dead pid and a recycled one are recognised, by the
\* process's image, command line or start; nothing is inferred from a lookup
\* that failed.
Ownership(p) ==
  IF p = NoPid \/ life[p] \in {"none", "dead"} THEN {"gone"}
  ELSE IF life[p] = "reused" THEN {"gone", "unknown"}
  ELSE {"live", "unknown"}

\* Where a helper goes when the record is known to be held, or gone.
Holder(h, owner) ==
  CASE purpose[h] = "lock"  -> "install"
    [] purpose[h] = "owner" -> IF owner = "gone" THEN "final" ELSE "requery"
    [] purpose[h] = "old"   -> IF plan[h].keepOldProcess THEN "handoff"
                               ELSE IF plan[h].legacyHandoff THEN "final" ELSE "shutdown"
    [] purpose[h] = "unlock" -> "end"
    [] purpose[h] \in {"gcLock", "gcPid"} -> "end"

RecordFile(h) == IF purpose[h] \in {"lock", "unlock", "gcLock"} THEN "lock" ELSE "pid"

\* readPIDRecord: the pid and the time of writing come from one open file.
Record(h) == file[RecordFile(h)]

\* Mutant: the lock is renamed into place.
Overwritten == TRUE

\* installSessionLockFile: a hard link, which fails when the name exists.
NotLocked == file["lock"] = NoPid

InstallLock(h) ==
  /\ Alive(h) /\ hpc[h] = "install"
  /\ IF NotLocked
     THEN /\ file' = [file EXCEPT !["lock"] = h]
          /\ hpc' = [hpc EXCEPT ![h] = "query"]
          /\ UNCHANGED purpose
     ELSE /\ hpc' = [hpc EXCEPT ![h] = "judge"]
          /\ purpose' = [purpose EXCEPT ![h] = "lock"]
          /\ UNCHANGED file
  /\ UNCHANGED <<path, onDisk, life, seen, wish, target, plan, spawned, verdict,
                 bootVars, serverVars, faultVars, history>>

\* readPIDRecord and pidRecordOwnership, in clearStalePIDFile and
\* sessionServerOwner; prepareRunningServerReplacement keeps the record of an
\* owner that is not known to be gone.
JudgeRecord(h) ==
  /\ Alive(h) /\ hpc[h] = "judge"
  /\ LET r == Record(h) IN
     \E owner \in Ownership(r) :
       /\ IF owner = "unknown" THEN TakesTime ELSE UNCHANGED disturbances
       /\ LET stale == owner = "gone" /\ r # NoPid IN
          /\ hpc' = [hpc EXCEPT ![h] = IF stale THEN "recheck" ELSE Holder(h, owner)]
          /\ seen' = [seen EXCEPT ![h] = IF stale THEN r ELSE NoPid]
       /\ plan' = IF purpose[h] = "old" /\ owner # "gone" THEN [plan EXCEPT ![h].old = r] ELSE plan
  /\ UNCHANGED <<dirVars, life, purpose, wish, target, spawned, verdict, bootVars, serverVars,
                 crashed, mishap, history>>

\* removePIDFileIfUnchanged, first half: the record is still the one judged.
Recheck(h) ==
  /\ Alive(h) /\ hpc[h] = "recheck"
  /\ IF Record(h) = seen[h]
     THEN hpc' = [hpc EXCEPT ![h] = "unlink"] /\ UNCHANGED seen
     ELSE /\ hpc' = [hpc EXCEPT ![h] = IF purpose[h] \in {"owner", "old"}
                                       THEN "judge" ELSE Holder(h, "gone")]
          /\ seen' = [seen EXCEPT ![h] = NoPid]
  /\ UNCHANGED <<dirVars, life, purpose, wish, target, plan, spawned, verdict, bootVars,
                 serverVars, faultVars, history>>

\* removePIDFileIfUnchanged, second half: os.Remove of whatever is there.
Unlink(h) ==
  /\ Alive(h) /\ hpc[h] = "unlink"
  /\ file' = [file EXCEPT ![RecordFile(h)] = NoPid]
  /\ hpc' = [hpc EXCEPT ![h] = Holder(h, "gone")]
  /\ raced' = (raced \/ Record(h) \notin {seen[h], NoPid})
  /\ seen' = [seen EXCEPT ![h] = NoPid]
  /\ UNCHANGED <<path, onDisk, life, purpose, wish, target, plan, spawned, verdict, bootVars,
                 serverVars, faultVars, ended, workspace, refused, displaced>>

(***************************************************************************)
(* ensureServer                                                            *)
(***************************************************************************)
\* Every way out runs the deferred removal of the restore file and unlock.
Return(h, outcome) ==
  /\ hpc' = [hpc EXCEPT ![h] = "recheck"]
  /\ purpose' = [purpose EXCEPT ![h] = "unlock"]
  /\ seen' = [seen EXCEPT ![h] = h]
  /\ verdict' = [verdict EXCEPT ![h] = outcome]
  /\ onDisk' = onDisk \ {spawned[h]}

\* attachCommand begins, its wish the flags and the user's answer to the update
\* prompt; or gcCommand does, whose entries are independent: one is enough.
Start(h) ==
  /\ life[h] = "none"
  /\ life' = [life EXCEPT ![h] = "alive"]
  /\ \E w \in [existingOnly : BOOLEAN, update : BOOLEAN] :
       /\ h \notin Updaters => w = NoWish
       /\ wish' = [wish EXCEPT ![h] = w]
  /\ \/ hpc' = [hpc EXCEPT ![h] = "install"] /\ UNCHANGED <<purpose, disturbances>>
     \/ /\ h \in Collectors /\ Disturbed
        /\ \E entry \in {"gcLock", "gcPid", "gcSocket"} :
             /\ hpc' = [hpc EXCEPT ![h] = IF entry = "gcSocket" THEN "probe" ELSE "judge"]
             /\ purpose' = [purpose EXCEPT ![h] = entry]
  /\ UNCHANGED <<dirVars, seen, target, plan, spawned, verdict, bootVars, serverVars,
                 crashed, mishap, history>>

\* acquireSessionLock gives up at its deadline.
LockTimeout(h) ==
  /\ Alive(h) /\ hpc[h] = "install" /\ file["lock"] # NoPid
  /\ TakesTime
  /\ hpc' = [hpc EXCEPT ![h] = "end"]
  /\ verdict' = [verdict EXCEPT ![h] = "error"]
  /\ UNCHANGED <<dirVars, life, purpose, seen, wish, target, plan, spawned, bootVars,
                 serverVars, crashed, mishap, history>>

\* queryRunningServerStatusWithRetry answers: keep the server, or replace it.
ServerFound(h) ==
  /\ Alive(h) /\ hpc[h] \in {"query", "requery"}
  /\ \E s \in Answering :
       IF version[s] = "current" \/ ~wish[h].update
       THEN Return(h, "ok") /\ UNCHANGED target
       ELSE /\ hpc' = [hpc EXCEPT ![h] = "snapshot"]
            /\ target' = [target EXCEPT ![h] = s]
            /\ UNCHANGED <<purpose, seen, verdict, onDisk>>
  /\ UNCHANGED <<file, path, life, wish, plan, spawned, bootVars, serverVars,
                 faultVars, history>>

\* No server answers: the pid file decides whether the session may be taken.
ServerSilent(h) ==
  /\ Alive(h) /\ hpc[h] \in {"query", "requery"}
  /\ IF Answering = {} THEN UNCHANGED disturbances ELSE TakesTime
  /\ \/ /\ hpc[h] = "requery" \/ wish[h].existingOnly
        /\ Return(h, "error")
     \/ /\ hpc[h] = "query" /\ ~wish[h].existingOnly
        /\ hpc' = [hpc EXCEPT ![h] = "judge"]
        /\ purpose' = [purpose EXCEPT ![h] = "owner"]
        /\ UNCHANGED <<seen, verdict, onDisk>>
  /\ UNCHANGED <<file, path, life, wish, target, plan, spawned, bootVars, serverVars,
                 crashed, mishap, history>>

\* The rest of prepareRunningServerReplacement: native windows are handed over
\* by the outgoing server, others need it to shut down or are abandoned.
Replacement(s) ==
  LET native == hosted[s] \cap NativeWindows # {} IN
  [NoPlan EXCEPT !.windows = hosted[s],
                 !.legacyHandoff = native \/ ~shutdownOK[s],
                 !.keepOldProcess = native]

\* collectServerRestore: without a snapshot nothing is replaced.
Snapshot(h) ==
  /\ Alive(h) /\ hpc[h] = "snapshot"
  /\ \/ /\ target[h] \in Answering /\ hosted[target[h]] # {}
        /\ plan' = [plan EXCEPT ![h] = Replacement(target[h])]
        /\ hpc' = [hpc EXCEPT ![h] = "judge"]
        /\ purpose' = [purpose EXCEPT ![h] = "old"]
        /\ UNCHANGED <<seen, verdict, onDisk, disturbances>>
     \/ /\ target[h] \notin Answering /\ Return(h, "kept") /\ UNCHANGED <<plan, disturbances>>
     \/ /\ target[h] \in Answering /\ TakesTime /\ Return(h, "kept") /\ UNCHANGED plan
  /\ UNCHANGED <<file, path, life, wish, target, spawned, bootVars, serverVars,
                 crashed, mishap, history>>

\* closeOutgoingTerminalWindows: one close_window and its answer at a time.
HandoffWindow(h) ==
  /\ Alive(h) /\ hpc[h] = "handoff" /\ Alive(target[h]) /\ at[target[h]] = "serving"
  /\ LET left == (plan[h].windows \ NativeWindows) \cap hosted[target[h]] IN
     IF left = {}
     THEN hpc' = [hpc EXCEPT ![h] = "final"] /\ UNCHANGED hosted
     ELSE \E w \in left : hosted' = [hosted EXCEPT ![target[h]] = @ \ {w}] /\ UNCHANGED hpc
  /\ UNCHANGED <<dirVars, life, purpose, seen, wish, target, plan, spawned, verdict, bootVars,
                 at, open, identity, told, rpc, rebound, faultVars, history>>

\* The connection fails or times out midway: the update is given up, and the
\* windows that were closed stay closed.
HandoffFails(h) ==
  /\ Alive(h) /\ hpc[h] = "handoff"
  /\ IF Alive(target[h]) /\ at[target[h]] = "serving" THEN TakesTime ELSE UNCHANGED disturbances
  /\ mishap' = TRUE
  /\ Return(h, "kept")
  /\ UNCHANGED <<file, path, life, wish, target, plan, spawned, bootVars, serverVars,
                 crashed, history>>

\* requestServerShutdown; the server acts on it when it gets to it.
RequestShutdown(h) ==
  /\ Alive(h) /\ hpc[h] = "shutdown"
  /\ told' = IF target[h] \in Answering THEN [told EXCEPT ![target[h]] = TRUE] ELSE told
  /\ hpc' = [hpc EXCEPT ![h] = "awaitExit"]
  /\ UNCHANGED <<dirVars, life, purpose, seen, wish, target, plan, spawned, verdict, bootVars,
                 at, hosted, open, identity, rpc, rebound, faultVars, history>>

\* waitForServerProcessExit: the process is gone, or with an unknown owner
\* the name does not answer.
ServerExited(h) ==
  /\ Alive(h) /\ hpc[h] = "awaitExit"
  /\ IF plan[h].old = NoPid THEN Dialable = {} ELSE "gone" \in Ownership(plan[h].old)
  /\ hpc' = [hpc EXCEPT ![h] = "final"]
  /\ UNCHANGED <<dirVars, life, purpose, seen, wish, target, plan, spawned, verdict, bootVars,
                 serverVars, faultVars, history>>

\* errServerUpdateStillAlive, with the shutdown already requested.
ExitTimeout(h) ==
  /\ Alive(h) /\ hpc[h] = "awaitExit"
  /\ TakesTime
  /\ mishap' = TRUE
  /\ Return(h, "kept")
  /\ UNCHANGED <<file, path, life, wish, target, plan, spawned, bootVars, serverVars,
                 crashed, history>>

\* The final ownership check; a legacy helper's name is taken from it.
FinalCheck(h) ==
  /\ Alive(h) /\ hpc[h] = "final"
  /\ LET served == \E s \in Answering : plan[h] = NoPlan \/ version[s] = "current" IN
     \/ served /\ Return(h, "ok") /\ UNCHANGED <<path, disturbances>>
     \/ /\ IF served THEN TakesTime ELSE UNCHANGED disturbances
        /\ hpc' = [hpc EXCEPT ![h] = IF plan[h].legacyHandoff THEN "spawn" ELSE "probe"]
        /\ path' = IF plan[h].legacyHandoff THEN 0 ELSE path
        /\ UNCHANGED <<purpose, seen, verdict, onDisk>>
  /\ UNCHANGED <<file, life, wish, target, plan, spawned, bootVars, serverVars,
                 crashed, mishap, history>>

\* os.Remove of the socket's name, whatever it refers to by now.
RemoveName ==
  /\ path' = 0
  /\ displaced' = IF Dialable = {} THEN displaced ELSE displaced \cup {"path"}

\* removeAbandonedSessionSocket: dial, then remove a name nobody listens on.
\* gcCommand remembers the inode first, takes only a refused connection for a
\* proof, and compares the inode before it removes.
ProbePath(h) ==
  /\ Alive(h) /\ hpc[h] = "probe"
  /\ LET gc == purpose[h] = "gcSocket" IN
     /\ hpc' = [hpc EXCEPT ![h] = IF Dialable # {} THEN IF gc THEN "end" ELSE "spawn"
                                  ELSE IF ~gc THEN "unlinkPath"
                                  ELSE IF path = 0 THEN "end" ELSE "compare"]
     /\ seen' = IF gc /\ Dialable = {} THEN [seen EXCEPT ![h] = path] ELSE seen
  /\ UNCHANGED <<dirVars, life, purpose, wish, target, plan, spawned, verdict, bootVars,
                 serverVars, faultVars, history>>

ComparePath(h) ==
  /\ Alive(h) /\ hpc[h] = "compare"
  /\ hpc' = [hpc EXCEPT ![h] = IF path = seen[h] THEN "unlinkPath" ELSE "end"]
  /\ UNCHANGED <<dirVars, life, purpose, seen, wish, target, plan, spawned, verdict, bootVars,
                 serverVars, faultVars, history>>

UnlinkPath(h) ==
  /\ Alive(h) /\ hpc[h] = "unlinkPath"
  /\ RemoveName
  /\ hpc' = [hpc EXCEPT ![h] = IF purpose[h] = "gcSocket" THEN "end" ELSE "spawn"]
  /\ UNCHANGED <<file, onDisk, life, purpose, seen, wish, target, plan, spawned, verdict,
                 bootVars, serverVars, faultVars, ended, workspace, refused, raced>>

FreshPid(s) == life[s] = "none"

\* Mutant: the initial window of the attach replaces the workspace.
NothingRestored(h) == {}

RestoredBy(h) == plan[h].windows

\* writeRestoreFile, and the detached `serve`; starting it may fail.
Spawn(h) ==
  /\ Alive(h) /\ hpc[h] = "spawn"
  /\ IF \E s \in Servers : FreshPid(s)
     THEN /\ LET s == CHOOSE q \in Servers : FreshPid(q) IN
               /\ life' = [life EXCEPT ![s] = "alive"]
               /\ at' = [at EXCEPT ![s] = "boot"]
               /\ restore' = [restore EXCEPT ![s] = RestoredBy(h)]
               /\ onDisk' = IF RestoredBy(h) = {} THEN onDisk ELSE onDisk \cup {s}
               /\ spawned' = [spawned EXCEPT ![h] = s]
          /\ hpc' = [hpc EXCEPT ![h] = "awaitServer"]
          /\ UNCHANGED <<purpose, seen, verdict, mishap>>
     ELSE /\ Return(h, "error")
          /\ mishap' = TRUE
          /\ UNCHANGED <<life, at, restore, spawned>>
  /\ UNCHANGED <<file, path, wish, target, plan, version, shutdownOK, tries, hosted, open,
                 identity, told, rpc, rebound, crashed, disturbances, history>>

\* The replacement answers: terminate what is still proven to be the previous
\* server, unless it was kept for its bridges.
ServerStarted(h) ==
  /\ Alive(h) /\ hpc[h] = "awaitServer"
  /\ \E s \in Answering : version[s] = "current"
  /\ LET previous == IF plan[h].keepOldProcess THEN NoPid ELSE plan[h].old IN
     IF previous # NoPid /\ previous # spawned[h] /\ "live" \in Ownership(previous)
     THEN \/ told' = [told EXCEPT ![previous] = TRUE] /\ UNCHANGED disturbances
          \/ TakesTime /\ UNCHANGED told
     ELSE UNCHANGED <<told, disturbances>>
  /\ Return(h, "ok")
  /\ UNCHANGED <<file, path, life, wish, target, plan, spawned, bootVars,
                 at, hosted, open, identity, rpc, rebound, crashed, mishap, history>>

\* The deadline passes; so it does when the server has given up.
StartTimeout(h) ==
  /\ Alive(h) /\ hpc[h] = "awaitServer"
  /\ IF Alive(spawned[h]) THEN TakesTime ELSE UNCHANGED disturbances
  /\ mishap' = TRUE
  /\ Return(h, "error")
  /\ UNCHANGED <<file, path, life, wish, target, plan, spawned, bootVars, serverVars,
                 crashed, history>>

\* What a process that is gone knew no longer matters.
Forgets(h) ==
  /\ seen' = [seen EXCEPT ![h] = NoPid]
  /\ purpose' = [purpose EXCEPT ![h] = "lock"]
  /\ wish' = [wish EXCEPT ![h] = NoWish]
  /\ spawned' = [spawned EXCEPT ![h] = NoPid]
  /\ plan' = [plan EXCEPT ![h] = NoPlan]
  /\ target' = [target EXCEPT ![h] = NoPid]
  /\ verdict' = [verdict EXCEPT ![h] = ""]
  /\ hpc' = [hpc EXCEPT ![h] = "end"]

End(h) ==
  /\ Alive(h) /\ hpc[h] = "end"
  /\ life' = [life EXCEPT ![h] = "dead"]
  /\ Forgets(h)
  /\ UNCHANGED <<dirVars, bootVars, serverVars, faultVars, history>>

(***************************************************************************)
(* serveSession                                                            *)
(***************************************************************************)
Exit(s) ==
  /\ life' = [life EXCEPT ![s] = "dead"]
  /\ at' = [at EXCEPT ![s] = "gone"]
  /\ open' = [open EXCEPT ![s] = {}]
  /\ hosted' = [hosted EXCEPT ![s] = {}]
  /\ rpc' = [rpc EXCEPT ![s] = "idle"]
  /\ identity' = [identity EXCEPT ![s] = 0]
  /\ rebound' = [rebound EXCEPT ![s] = 0]
  /\ told' = [told EXCEPT ![s] = FALSE]
  /\ version' = [version EXCEPT ![s] = "current"]
  /\ shutdownOK' = [shutdownOK EXCEPT ![s] = TRUE]
  /\ restore' = [restore EXCEPT ![s] = {}]

Stays == UNCHANGED <<life, open, hosted, rpc, identity, rebound, told, version, shutdownOK, restore>>

\* readRestoreFile: the snapshot is read and deleted; without it the server
\* gives up.
ReadRestore(s) ==
  /\ Alive(s) /\ at[s] = "boot"
  /\ IF restore[s] # {} /\ s \notin onDisk
     THEN Exit(s) /\ UNCHANGED onDisk
     ELSE /\ at' = [at EXCEPT ![s] = "ask"]
          /\ onDisk' = onDisk \ {s}
          /\ Stays
  /\ UNCHANGED <<file, path, helperVars, tries, faultVars, history>>

\* A server that replaces nothing refuses to take the name of one that answers.
AskOther(s) ==
  /\ Alive(s) /\ at[s] = "ask"
  /\ IF Answering # {} /\ restore[s] = {} THEN Exit(s)
     ELSE at' = [at EXCEPT ![s] = "clear"] /\ Stays
  /\ UNCHANGED <<dirVars, helperVars, tries, faultVars, history>>

ClearName(s) ==
  /\ Alive(s) /\ at[s] = "clear"
  /\ path' = 0
  /\ at' = [at EXCEPT ![s] = "listen"]
  /\ UNCHANGED <<file, onDisk, life, helperVars, bootVars, hosted, open, identity, told,
                 rpc, rebound, faultVars, history>>

\* Binding fails on an existing name; a replacement removes it and tries again.
Listen(s) ==
  /\ Alive(s) /\ at[s] = "listen"
  /\ IF path = 0
     THEN /\ path' = NewInode
          /\ open' = [open EXCEPT ![s] = {NewInode}]
          /\ identity' = [identity EXCEPT ![s] = NewInode]
          /\ at' = [at EXCEPT ![s] = "record"]
          /\ UNCHANGED <<tries, life, hosted, rpc, rebound, told, version, shutdownOK, restore>>
     ELSE /\ tries' = [tries EXCEPT ![s] = @ + 1]
          /\ IF restore[s] # {} /\ tries[s] + 1 < BindAttempts
             THEN at' = [at EXCEPT ![s] = "clear"] /\ Stays
             ELSE Exit(s)
          /\ UNCHANGED path
  /\ UNCHANGED <<file, onDisk, helperVars, faultVars, history>>

\* writeSessionPIDFile
RecordPid(s) ==
  /\ Alive(s) /\ at[s] = "record"
  /\ file' = [file EXCEPT !["pid"] = s]
  /\ at' = [at EXCEPT ![s] = "restore"]
  /\ UNCHANGED <<path, onDisk, life, helperVars, bootVars, hosted, open, identity, told,
                 rpc, rebound, faultVars, history>>

\* restoreOrCreateInitialWindow, then the accept loop.  A window whose program
\* cannot be started is left out; when none is left the server has its initial
\* window.
RestoreWindows(s) ==
  /\ Alive(s) /\ at[s] = "restore"
  /\ \E failed \in SUBSET (restore[s] \cap Fragile) :
       /\ hosted' = [hosted EXCEPT ![s] = IF failed = restore[s] THEN {FreshWindow}
                                         ELSE restore[s] \ (failed \cup ended)]
       /\ refused' = refused \cup failed
  /\ at' = [at EXCEPT ![s] = "serving"]
  /\ restore' = [restore EXCEPT ![s] = {}]
  /\ tries' = [tries EXCEPT ![s] = 0]
  /\ UNCHANGED <<dirVars, life, helperVars, version, shutdownOK, open, identity, told, rpc, rebound,
                 faultVars, ended, workspace, raced, displaced>>

\* The initial window cannot be started either: serveSession returns, and what
\* it deferred removes the name and the pid as a close does.
RestoreFails(s) ==
  /\ Alive(s) /\ at[s] = "restore"
  /\ restore[s] \cup {FreshWindow} \subseteq Fragile
  /\ refused' = refused \cup restore[s]
  /\ mishap' = TRUE
  /\ at' = [at EXCEPT ![s] = "checkPath"]
  /\ open' = [open EXCEPT ![s] = {}]
  /\ restore' = [restore EXCEPT ![s] = {}]
  /\ tries' = [tries EXCEPT ![s] = 0]
  /\ UNCHANGED <<dirVars, life, helperVars, version, shutdownOK, hosted, identity, told, rpc, rebound,
                 crashed, disturbances, ended, workspace, raced, displaced>>

\* A native window ends, in the server and in the one that took it over.
NativeEnds(w) ==
  /\ w \in NativeWindows \ ended
  /\ \E s \in Servers : w \in hosted[s]
  /\ hosted' = [s \in Servers |-> hosted[s] \ {w}]
  /\ ended' = ended \cup {w}
  /\ UNCHANGED <<dirVars, life, helperVars, bootVars, at, open, identity, told, rpc, rebound,
                 faultVars, workspace, refused, raced, displaced>>

(***************************************************************************)
(* close: after a shutdown request, a signal or the last window            *)
(***************************************************************************)
\* Mutant: the windows stay selectable while the server closes.
StillHosted(s) == hosted[s]

HostedOnClose(s) == {}

\* Its last window is gone, and another server still runs one that it left out.
Stranded(s) == ~told[s] /\ \E o \in Servers : hosted[o] \cap refused # {}

\* Admission closes and the listener with it; the windows' processes follow.
CloseServer(s) ==
  /\ Alive(s) /\ at[s] = "serving" /\ (told[s] \/ hosted[s] = {})
  /\ at' = [at EXCEPT ![s] = "checkPath"]
  /\ open' = [open EXCEPT ![s] = @ \ {identity[s]}]
  /\ hosted' = [hosted EXCEPT ![s] = HostedOnClose(s)]
  /\ mishap' = (mishap \/ Stranded(s))
  /\ UNCHANGED <<dirVars, life, helperVars, bootVars, identity, told, rpc, rebound, crashed,
                 disturbances, history>>

\* removeSocketPathIfUnchanged, check and removal.
CheckPath(s) ==
  /\ Alive(s) /\ at[s] = "checkPath"
  /\ at' = [at EXCEPT ![s] = IF path = identity[s] THEN "unlinkPath" ELSE "join"]
  /\ UNCHANGED <<dirVars, life, helperVars, bootVars, hosted, open, identity, told, rpc, rebound,
                 faultVars, history>>

UnlinkOwnPath(s) ==
  /\ Alive(s) /\ at[s] = "unlinkPath"
  /\ RemoveName
  /\ at' = [at EXCEPT ![s] = "join"]
  /\ UNCHANGED <<file, onDisk, life, helperVars, bootVars, hosted, open, identity, told,
                 rpc, rebound, faultVars, ended, workspace, refused, raced>>

\* socketRepublishers.Wait, then removeSessionPIDFile: read the pid, remove.
JoinAndForget(s) ==
  /\ Alive(s) /\ at[s] = "join" /\ rpc[s] = "idle"
  /\ IF file["pid"] = s
     THEN at' = [at EXCEPT ![s] = "unlinkPid"] /\ Stays
     ELSE Exit(s)
  /\ UNCHANGED <<dirVars, helperVars, tries, faultVars, history>>

UnlinkPid(s) ==
  /\ Alive(s) /\ at[s] = "unlinkPid"
  /\ file' = [file EXCEPT !["pid"] = NoPid]
  /\ displaced' = IF file["pid"] \in {s, NoPid} THEN displaced ELSE displaced \cup {"pid"}
  /\ Exit(s)
  /\ UNCHANGED <<path, onDisk, helperVars, tries, faultVars, ended, workspace, refused, raced>>

(***************************************************************************)
(* republishSocketIfMissing                                                *)
(***************************************************************************)
\* Mutant: a name that is gone is taken for one that another process bound.
LeftToOther(s) == path = identity[s] /\ path = 0

NameMissing(s) == path = 0

NoticeMissing(s) ==
  /\ Alive(s) /\ at[s] = "serving" /\ rpc[s] = "idle" /\ NameMissing(s)
  /\ rpc' = [rpc EXCEPT ![s] = "missing"]
  /\ UNCHANGED <<dirVars, life, helperVars, bootVars, at, hosted, open, identity, told, rebound,
                 faultVars, history>>

Rebind(s) ==
  /\ Alive(s) /\ rpc[s] = "missing"
  /\ IF path = 0
     THEN /\ path' = NewInode
          /\ open' = [open EXCEPT ![s] = @ \cup {NewInode}]
          /\ rebound' = [rebound EXCEPT ![s] = NewInode]
          /\ rpc' = [rpc EXCEPT ![s] = "bound"]
     ELSE rpc' = [rpc EXCEPT ![s] = "idle"] /\ UNCHANGED <<path, open, rebound>>
  /\ UNCHANGED <<file, onDisk, life, helperVars, bootVars, at, hosted, identity, told, faultVars,
                 history>>

BoundByUs(s) == path = rebound[s]

\* The new listener is installed under the lock, unless the server has closed
\* meanwhile; then the name it bound is taken back.
InstallListener(s) ==
  /\ Alive(s) /\ rpc[s] = "bound"
  /\ IF at[s] = "serving"
     THEN /\ open' = [open EXCEPT ![s] = {rebound[s]}]
          /\ identity' = [identity EXCEPT ![s] = rebound[s]]
          /\ rpc' = [rpc EXCEPT ![s] = "idle"]
     ELSE /\ open' = [open EXCEPT ![s] = {}]
          /\ rpc' = [rpc EXCEPT ![s] = IF BoundByUs(s) THEN "undo" ELSE "idle"]
          /\ UNCHANGED identity
  /\ UNCHANGED <<dirVars, life, helperVars, bootVars, at, hosted, told, rebound, faultVars,
                 history>>

UndoRebind(s) ==
  /\ Alive(s) /\ rpc[s] = "undo"
  /\ RemoveName
  /\ rpc' = [rpc EXCEPT ![s] = "idle"]
  /\ UNCHANGED <<file, onDisk, life, helperVars, bootVars, at, hosted, open, identity, told,
                 rebound, faultVars, ended, workspace, refused, raced>>

(***************************************************************************)
(* Faults                                                                  *)
(***************************************************************************)
\* A process dies between two system calls and leaves its files behind.
Crash(p) ==
  /\ Alive(p) /\ Disturbed
  /\ crashed' = TRUE
  /\ mishap' = TRUE
  /\ IF p \in Servers
     THEN Exit(p) /\ UNCHANGED helperVars
     ELSE /\ life' = [life EXCEPT ![p] = "dead"]
          /\ Forgets(p)
          /\ UNCHANGED <<serverVars, version, shutdownOK, restore>>
  /\ UNCHANGED <<dirVars, tries, history>>

\* The operating system gives the pid to another program.
Reuse(p) ==
  /\ life[p] = "dead" /\ \E f \in {"lock", "pid"} : file[f] = p
  /\ life' = [life EXCEPT ![p] = "reused"]
  /\ UNCHANGED <<dirVars, helperVars, bootVars, serverVars, faultVars, history>>

-----------------------------------------------------------------------------
\* The session starts out unserved, perhaps with the lock of a helper that has
\* crashed, or served by Outgoing in some version.
Init ==
  /\ \E served \in BOOLEAN, v \in {"current", "older"}, c \in BOOLEAN,
        ws \in Workspaces, left \in Crashed \cup {NoPid} :
       LET Of(x, y) == [s \in Servers |-> IF served /\ s = Outgoing THEN x ELSE y] IN
       /\ ~served => v = "current"
       /\ v = "current" => c
       /\ life = [p \in Processes |-> IF served /\ p = Outgoing THEN "alive"
                                   ELSE IF p \in Crashed THEN "dead" ELSE "none"]
       /\ at = Of("serving", "gone") /\ version = Of(v, "current")
       /\ shutdownOK = Of(c, TRUE) /\ hosted = Of(ws, {})
       /\ open = Of({1}, {}) /\ identity = Of(1, 0)
       /\ path = (IF served THEN 1 ELSE 0)
       /\ file = [f \in {"lock", "pid"} |-> IF f = "lock" THEN left
                                           ELSE IF served THEN Outgoing ELSE NoPid]
       /\ disturbances = IF left = NoPid THEN 0 ELSE 1
       /\ left # NoPid => ~served /\ MaxDisturbances > 0
       /\ workspace = IF served THEN ws ELSE {}
  /\ onDisk = {} /\ restore = [s \in Servers |-> {}] /\ tries = [s \in Servers |-> 0]
  /\ told = [s \in Servers |-> FALSE] /\ rpc = [s \in Servers |-> "idle"]
  /\ rebound = [s \in Servers |-> 0]
  /\ hpc = [h \in Helpers |-> "end"] /\ purpose = [h \in Helpers |-> "lock"]
  /\ seen = [h \in Helpers |-> NoPid] /\ target = [h \in Helpers |-> NoPid]
  /\ wish = [h \in Helpers |-> NoWish]
  /\ plan = [h \in Helpers |-> NoPlan] /\ spawned = [h \in Helpers |-> NoPid]
  /\ verdict = [h \in Helpers |-> ""]
  /\ crashed = FALSE /\ ended = {} /\ mishap = FALSE
  /\ refused = {} /\ raced = FALSE /\ displaced = {}

HelperStep(h) ==
  \/ InstallLock(h) \/ JudgeRecord(h) \/ Recheck(h) \/ Unlink(h)
  \/ ServerFound(h) \/ ServerSilent(h) \/ Snapshot(h) \/ HandoffWindow(h)
  \/ HandoffFails(h) \/ RequestShutdown(h) \/ ServerExited(h) \/ FinalCheck(h) \/ ProbePath(h)
  \/ UnlinkPath(h) \/ ComparePath(h) \/ Spawn(h) \/ ServerStarted(h) \/ StartTimeout(h) \/ End(h)

ServerStep(s) ==
  \/ ReadRestore(s) \/ AskOther(s) \/ ClearName(s) \/ Listen(s) \/ RecordPid(s)
  \/ RestoreWindows(s) \/ RestoreFails(s) \/ CloseServer(s) \/ CheckPath(s) \/ UnlinkOwnPath(s)
  \/ JoinAndForget(s) \/ UnlinkPid(s)

Republish(s) == NoticeMissing(s) \/ Rebind(s) \/ InstallListener(s) \/ UndoRebind(s)

Next ==
  \/ \E h \in Helpers : Start(h) \/ LockTimeout(h) \/ ExitTimeout(h) \/ HelperStep(h)
  \/ \E s \in Servers : ServerStep(s) \/ Republish(s)
  \/ \E w \in NativeWindows : NativeEnds(w)
  \/ \E p \in Processes : Crash(p) \/ Reuse(p)

Spec == Init /\ [][Next]_vars

\* A server's process and its republisher run on: they wait for nothing that
\* another process does.
Fairness == \A s \in Servers : WF_vars(ServerStep(s)) /\ WF_vars(Republish(s))

FairSpec == Spec /\ Fairness

-----------------------------------------------------------------------------
SessionTypes ==
  /\ file \in [{"lock", "pid"} -> Processes \cup {NoPid}]
  /\ path \in Nat /\ onDisk \subseteq Servers
  /\ life \in [Processes -> {"none", "alive", "dead", "reused"}]
  /\ seen \in [Helpers -> Nat \cup Processes \cup {NoPid}]
  /\ plan \in [Helpers -> [windows : SUBSET (Windows \cup {FreshWindow}),
                          old : Processes \cup {NoPid}, legacyHandoff : BOOLEAN,
                          keepOldProcess : BOOLEAN]]
  /\ hosted \in [Servers -> SUBSET (Windows \cup {FreshWindow})]
  /\ \A s \in Servers :
       /\ open[s] \subseteq Nat /\ (open[s] # {} => Alive(s))
       /\ at[s] \in {"gone", "boot", "checkPath", "join"} => hosted[s] = {}
  /\ disturbances \in 0 .. MaxDisturbances

\* Inside the critical section: from the link to the unlinking of the lock.
Holds(h) ==
  /\ Alive(h)
  /\ hpc[h] \notin {"install", "end"} /\ purpose[h] \notin {"gcLock", "gcPid", "gcSocket"}
  /\ hpc[h] \in {"judge", "recheck", "unlink"} => purpose[h] # "lock"

\* removePIDFileIfUnchanged, acquireSessionLock: two helpers never hold the
\* same session at once, whoever crashed and whatever became of its pid.  What
\* keeps this from being exact is that the comparison and os.Remove are two
\* calls: a lock installed between them is removed (raced).
LockExclusion == raced \/ \A g, h \in Helpers : Holds(g) /\ Holds(h) => g = h

\* ensureServer, serveSession: short of crashes, deadlines, servers left without
\* a window and that race there is one server of the helpers' version.  A second
\* one takes records removed too late, checked when they were still another's:
\* the first one's name (by gc or by an outgoing server) and its pid (by an
\* outgoing server); or its pid alone, and lookups and queries that run out of
\* time besides, after which a helper starts a server that asks who answers while
\* nobody does, and clears the name of one that has come up since.
OneWorkspace ==
  \/ mishap \/ raced \/ displaced = {"path", "pid"} \/ ("pid" \in displaced /\ disturbances > 1)
  \/ Cardinality({s \in Servers : Alive(s) /\ at[s] = "serving"
                                  /\ version[s] = "current" /\ ~told[s]}) <= 1

\* Every window of the workspace is in a live server, or in a snapshot on its
\* way to one, unless it ended by itself or its program could not be started
\* again by a replacement (restoreOrCreateInitialWindow goes on without it).
\* That no server could be started, or one was left without any window while
\* another still runs those it left out, counts with crashes and deadlines.
WindowsSurvive ==
  mishap \/ raced \/ \A w \in workspace \ (ended \cup refused) :
    \/ \E s \in Servers : Alive(s) /\ (w \in hosted[s] \/ (at[s] # "gone" /\ w \in restore[s]))
    \/ \E h \in Helpers : Alive(h) /\ w \in plan[h].windows

\* republishSocketLoop: short of a crash, whose name is left alone, a session
\* that is served is found under its name in the end, whoever unlinked it.
Serving == \E s \in Servers : at[s] = "serving"
Reachable == Serving /\ ~crashed ~> Answering # {} \/ ~Serving \/ crashed
=============================================================================
