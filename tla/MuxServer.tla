------------------------------ MODULE MuxServer ------------------------------
(***************************************************************************)
(* One muxServer of src/remote/monkeymux/main.go: its windows, the clients *)
(* attached to it, which of them is primary, and the grid they share.      *)
(*                                                                         *)
(* A step is a critical section of s.mu.  attachMu and resizeMu are held   *)
(* over several of them and are variables; attachTransitionMu is held by   *)
(* the one client that is attaching.  Each goroutine is a thread: control  *)
(* requests (and prefix commands), a client's attach connection, a         *)
(* window's reader, the timer that ends its redraw pause, and the watcher  *)
(* of its process.  Terminal output is abstracted to whether it stopped in *)
(* the middle of a sequence; a size is a grid of rows and columns.         *)
(*                                                                         *)
(* s.windows keeps the order of creation, so it is the set of the ids in   *)
(* it.  A client's focusSequence is its place in `focus`.                  *)
(***************************************************************************)
EXTENDS Naturals, Sequences, FiniteSets, SequencesExt, FiniteSetsExt

CONSTANTS
  Clients,     \* attach clients, as numbers from 1
  Clipping,    \* those that declared clipViewport
  Requests,    \* goroutines that run control requests or prefix commands
  Grids,       \* terminal sizes, as numbers from 1
  Scenarios,   \* bound: initial windows, and how often each kind of event occurs
  Kinds,       \* kinds of the windows that a request may create
  Temporary,   \* the temporary size of a synthetic redraw
  MaxWindows,  \* bound: windows ever created
  NoClient

ASSUME MuxAssumption ==
  /\ Clipping \subseteq Clients /\ Clients \subseteq Nat \ {0} /\ NoClient = 0
  /\ Requests \subseteq Nat
  /\ Grids \subseteq Nat \ {0} /\ Grids # {} /\ Temporary \in Nat \ (Grids \cup {0})
  /\ Kinds \subseteq {"shell", "agent", "native"} /\ MaxWindows \in Nat
  /\ \A s \in Scenarios : s.kinds \in Seq({"shell", "agent", "native"})
                         /\ Len(s.kinds) \in 1 .. MaxWindows

Windows == 1 .. MaxWindows
NoWindow == 0
NoGrid == 0

Reader(w) == <<"reader", w>>
Timer(w)  == <<"timer", w>>
Watcher(w) == <<"watcher", w>>
Attach(c) == <<"client", c>>
Request(r) == <<"request", r>>
Free == <<"nobody", 0>>
Threads == {Reader(w) : w \in Windows} \cup {Timer(w) : w \in Windows}
  \cup {Watcher(w) : w \in Windows} \cup {Attach(c) : c \in Clients}
  \cup {Request(r) : r \in Requests}

VARIABLES
  \* muxServer, under mu
  windows,    \* ids in s.windows
  win,        \* muxWindow by id
  created,    \* nextID
  active, last,        \* activeID, lastActiveID
  size, published,     \* width/height, publishedWidth/publishedHeight
  pendResize, \* pendingResize: size, and the window a synthetic redraw is for
  pendFocus,  \* pendingFocusRefreshConn
  primary,    \* attachConn
  focus,      \* attachClients in the order of their focusSequence
  transition, \* attachViewportTransitionWindowID
  closing,    \* "no", "asked" (go s.close()), "begun" (s.closed), "torn", "done"
  \* attachClient
  csize, grid,\* its viewport, and the grid of the last sequence queued to it
  claims,     \* clients whose lone ESC may claim the focus when its timer fires
  \* goroutines
  attachMu, resizeMu, pc, arg,
  budget      \* what is left of the scenario

windowVars == <<windows, win, created, active, last>>
sizeVars   == <<size, published, pendResize, pendFocus>>
clientVars == <<primary, focus, csize, grid, claims>>
otherVars  == <<transition, closing, budget>>
lockVars   == <<attachMu, resizeMu>>
vars == <<windowVars, sizeVars, clientVars, otherVars, lockVars, pc, arg>>

NoResize == [size |-> NoGrid, theme |-> NoWindow]
NoArg == [client |-> NoClient, win |-> NoWindow, size |-> NoGrid, redraw |-> FALSE,
          pin |-> NoWindow, kind |-> "shell", born |-> NoWindow, next |-> NoWindow,
          then |-> "idle"]
NoWin == [kind |-> "shell", process |-> "none", pty |-> NoGrid, dance |-> NoGrid,
          mid |-> FALSE, forwarding |-> FALSE, paused |-> FALSE, closing |-> FALSE,
          bridge |-> "none", announced |-> 0]

\* Mutant: a window that was closed looks open.
EverOpen(w) == w \in 1 .. created /\ closing = "no"

Closed == closing \in {"begun", "torn", "done"}
Open(w) == w \in windows /\ ~Closed
Registered == ToSet(focus)
TUI(w) == win[w].kind = "agent"

\* primaryAttachSizeLocked.
PrimarySize(p, cs) ==
  IF p = NoClient \/ cs[p] = NoGrid THEN size ELSE cs[p]

\* terminalViewportTransitionSafe.
Safe(w) ==
  Open(w) => ~win[w].forwarding /\ ~win[w].paused /\ ~win[w].mid

Goto(t, label, a) == pc' = [pc EXCEPT ![t] = label] /\ arg' = [arg EXCEPT ![t] = a]
Home(t) == IF t[1] = "client" THEN "attached" ELSE "idle"
Finish(t) ==
  IF arg[t].then = "idle" THEN Goto(t, Home(t), NoArg)
  ELSE Goto(t, arg[t].then, [arg[t] EXCEPT !.then = "idle", !.client = NoClient, !.size = NoGrid])
Spend(k) == budget[k] > 0 /\ budget' = [budget EXCEPT ![k] = @ - 1]

(***************************************************************************)
(* The grid                                                                *)
(***************************************************************************)
\* Mutant: the client that is joining is not told.
GridForOld(clients, g) ==
  [c \in Clients |-> IF c \in Registered \cap Clipping THEN g ELSE grid[c]]

\* enqueueAttachViewportResizeLocked: before the terminal itself is resized.
GridFor(clients, g) ==
  [c \in Clients |-> IF c \in clients \cap Clipping THEN g ELSE grid[c]]

\* resizePty: a restoring timer of an earlier generation finds itself stale.
Resized(r, g) == [r EXCEPT !.pty = g, !.dance = NoGrid]

\* simulateForegroundResize: a temporary size until the timer restores it.
Danced(r, g) == [r EXCEPT !.pty = Temporary, !.dance = g]

\* deliverForegroundGeometry: only a repeated size needs the temporary one.
Delivered(r, g) == IF r.pty = g THEN Danced(r, g) ELSE Resized(r, g)

\* pauseAttachForwardingForRedrawLocked: for a window that repaints itself.
PausedForRedraw(r) ==
  [r EXCEPT !.paused = r.paused \/ (Registered # {} /\ r.kind = "agent")]

\* What becomes of the windows when an open one changes.
Change(w, r) == IF Open(w) THEN [win EXCEPT ![w] = r] ELSE win

\* The second timer of the dance: resizePtyIfCurrent.
RestoreGeometry(w) ==
  /\ win[w].dance # NoGrid
  /\ win' = [win EXCEPT ![w] = Resized(win[w], win[w].dance)]
  /\ UNCHANGED <<windows, created, active, last, sizeVars, clientVars, otherVars, lockVars, pc, arg>>

(***************************************************************************)
(* resizeWithRedraw, by a thread that holds resizeMu.  Attach clients come *)
(* and go under resizeMu only, so whether one of them clips cannot change  *)
(* between the first look at it and the critical section below.            *)
(***************************************************************************)
SomeoneClips == Registered \cap Clipping # {}
Misplaced(t) == arg[t].pin # NoWindow /\ active # arg[t].pin

\* Mutant: forgets the windows that are paused for a redraw.
MustWaitForSequence == SomeoneClips /\ Open(active) /\ win[active].mid
MustWait == SomeoneClips /\ ~Safe(active)

PostponeResize(t) ==
  /\ size' = arg[t].size
  /\ pendResize' = [size |-> arg[t].size,
       theme |-> IF arg[t].pin # NoWindow THEN arg[t].pin ELSE pendResize.theme]
  /\ UNCHANGED <<win, published, grid>>

PublishResize(t) ==
  /\ size' = arg[t].size /\ published' = arg[t].size /\ pendResize' = NoResize
  /\ grid' = GridFor(Registered, arg[t].size)
  /\ win' = Change(active,
       LET resized == Resized(win[active], arg[t].size) IN
         IF TUI(active) /\ arg[t].pin # NoWindow
           THEN Danced(PausedForRedraw(resized), arg[t].size)
           ELSE resized)

ResizeWithRedraw(t) ==
  /\ pc[t] = "resizing" /\ (SomeoneClips => attachMu = Free)
  /\ IF Misplaced(t) THEN UNCHANGED <<win, size, published, pendResize, grid>>
     ELSE IF MustWait THEN PostponeResize(t)
     ELSE PublishResize(t)
  /\ resizeMu' = Free /\ Finish(t)
  /\ UNCHANGED <<windows, created, active, last, pendFocus, primary, focus, csize, claims,
                 otherVars, attachMu>>

\* resizeForClient: only the primary client's size is the shared one.
ResizeForClient(t) ==
  LET c == IF arg[t].client = NoClient THEN primary ELSE arg[t].client IN
  /\ pc[t] = "resize" /\ resizeMu = Free
  /\ IF Registered = {} /\ arg[t].client = NoClient
       THEN resizeMu' = t /\ Goto(t, "resizing", arg[t]) /\ UNCHANGED csize
     ELSE IF c \notin Registered THEN Finish(t) /\ UNCHANGED <<csize, resizeMu>>
     ELSE /\ csize' = [csize EXCEPT ![c] = arg[t].size]
          /\ IF primary = c THEN resizeMu' = t /\ Goto(t, "resizing", arg[t])
             ELSE Finish(t) /\ UNCHANGED resizeMu
  /\ UNCHANGED <<windowVars, sizeVars, primary, focus, grid, claims, otherVars, attachMu>>

\* forceForegroundThemeRedraw and redrawRestoredWindow, for arg.pin.
ForceRedraw(t) ==
  /\ pc[t] = "theme" /\ resizeMu = Free
  /\ IF Registered = {} \/ active # arg[t].pin \/ ~Open(active) \/ ~TUI(active)
       THEN Finish(t) /\ UNCHANGED resizeMu
       ELSE /\ resizeMu' = t
            /\ Goto(t, "resizing", [arg[t] EXCEPT !.size = PrimarySize(primary, csize)])
  /\ UNCHANGED <<windowVars, sizeVars, clientVars, otherVars, attachMu>>

\* refreshPendingFocusedClient, then refreshPendingViewportResize.
RefreshPendingFocus(t) ==
  /\ pc[t] = "refreshFocus" /\ resizeMu = Free
  /\ pendFocus' = NoClient
  /\ IF pendFocus # NoClient /\ pendFocus \in Registered /\ primary = pendFocus
       THEN /\ resizeMu' = t
            /\ Goto(t, "replay", [arg[t] EXCEPT !.client = pendFocus,
                                                !.size = PrimarySize(primary, csize)])
       ELSE UNCHANGED resizeMu /\ Finish(t)
  /\ UNCHANGED <<windowVars, size, published, pendResize, clientVars, otherVars, attachMu>>

RefreshPendingResize(t) ==
  /\ pc[t] = "refreshResize" /\ resizeMu = Free
  /\ IF pendResize.size = NoGrid THEN Finish(t) /\ UNCHANGED resizeMu
     ELSE /\ resizeMu' = t
          /\ Goto(t, "resizing", [NoArg EXCEPT !.size = pendResize.size,
                                               !.pin = pendResize.theme])
  /\ UNCHANGED <<windowVars, sizeVars, clientVars, otherVars, attachMu>>

(***************************************************************************)
(* Focus                                                                   *)
(***************************************************************************)
\* Mutant: a client that is attached keeps its place.
AppendedOnce(c) == IF c \in Registered THEN focus ELSE Append(focus, c)

\* focus without c; each client has one place in it.
Without(c) ==
  IF c \in Registered THEN RemoveAt(focus, CHOOSE i \in DOMAIN focus : focus[i] = c) ELSE focus

\* The client that has just gained the focus follows all others.
Refocused(c) == Append(Without(c), c)

\* The part under mu of the ways to focus a registered client; handoff says
\* whether a new primary client is sent a fresh frame.
TakeFocus(t, c, g, handoff) ==
  /\ csize' = [csize EXCEPT ![c] = IF g = NoGrid THEN csize[c] ELSE g]
  /\ pendFocus' = IF primary = c THEN pendFocus ELSE NoClient
  /\ primary' = c /\ focus' = Refocused(c) /\ claims' = {}
  /\ LET target == PrimarySize(c, csize') IN
       IF primary # c /\ handoff
         THEN resizeMu' = t /\ Goto(t, "replay", [arg[t] EXCEPT !.client = c, !.size = target])
       ELSE IF target # published
         THEN resizeMu' = t /\ Goto(t, "resizing", [arg[t] EXCEPT !.size = target])
       ELSE Finish(t) /\ UNCHANGED resizeMu

\* focusAttachClientByID, focusAttachClient; no id means the primary client.
Focus(t) ==
  LET c == IF arg[t].client = NoClient THEN primary ELSE arg[t].client IN
  /\ pc[t] = "focus" /\ resizeMu = Free
  /\ IF c \in Registered THEN TakeFocus(t, c, arg[t].size, arg[t].redraw)
     ELSE Finish(t) /\ UNCHANGED <<csize, pendFocus, primary, focus, claims, resizeMu>>
  /\ UNCHANGED <<windowVars, size, published, pendResize, grid, otherVars, attachMu>>

\* A client's input ends in a lone ESC: it claims the focus when a timer shows
\* that no sequence follows, unless the focus has moved meanwhile.
AmbiguousEscape(c) ==
  /\ pc[Attach(c)] = "attached" /\ c \in Registered /\ Spend("input")
  /\ claims' = claims \cup {c}
  /\ UNCHANGED <<windowVars, sizeVars, primary, focus, csize, grid, transition, closing,
                 lockVars, pc, arg>>

\* resolveAmbiguousFocusInput and focusAttachClientIfUnchanged.
ClaimFocus(c) ==
  /\ pc[Attach(c)] = "attached" /\ c \in claims /\ resizeMu = Free
  /\ IF c \in Registered THEN TakeFocus(Attach(c), c, NoGrid, TRUE)
     ELSE claims' = claims \ {c} /\ UNCHANGED <<csize, pendFocus, primary, focus, resizeMu, pc, arg>>
  /\ UNCHANGED <<windowVars, size, published, pendResize, grid, otherVars, attachMu>>

\* replayFocusedWindowToClient, up to its release of mu.
ReplayFocused(t) ==
  LET c == arg[t].client
      g == arg[t].size IN
  /\ pc[t] = "replay" /\ attachMu = Free
  /\ IF primary # c \/ c \notin Registered
       THEN /\ resizeMu' = Free /\ Finish(t)
            /\ UNCHANGED <<win, sizeVars, grid, attachMu>>
     ELSE IF ~Safe(active)
       THEN /\ size' = g /\ pendFocus' = c /\ resizeMu' = Free /\ Finish(t)
            /\ UNCHANGED <<win, published, pendResize, grid, attachMu>>
     ELSE /\ pendFocus' = NoClient /\ pendResize' = NoResize
          /\ size' = g /\ published' = g /\ grid' = GridFor(Registered, g)
          /\ win' = Change(active, Resized(win[active], g))
          /\ IF Open(active)
               THEN attachMu' = t /\ Goto(t, "replayed", [arg[t] EXCEPT !.win = active])
                    /\ UNCHANGED resizeMu
               ELSE resizeMu' = Free /\ Finish(t) /\ UNCHANGED attachMu
  /\ UNCHANGED <<windows, created, active, last, primary, focus, csize, claims, otherVars>>

\* simulateForegroundResizeIfAttached, unless the frame could not be queued.
RedrawFocused(t) ==
  LET w == arg[t].win IN
  /\ pc[t] = "replayed"
  /\ win' \in {win, IF arg[t].client \in Registered
                    THEN Change(w, Delivered(PausedForRedraw(win[w]), published)) ELSE win}
  /\ attachMu' = Free /\ resizeMu' = Free /\ Finish(t)
  /\ UNCHANGED <<windows, created, active, last, sizeVars, clientVars, otherVars>>

(***************************************************************************)
(* Attaching and detaching                                                 *)
(***************************************************************************)
\* A client of a viewport g connects; clients attach one at a time.
BeginAttach(c, g) ==
  /\ pc[Attach(c)] = "away" /\ Spend("attach")
  /\ \A d \in Clients : pc[Attach(d)] \notin {"waiting", "registering"} /\ (d < c => csize[d] # NoGrid)
  /\ csize' = [csize EXCEPT ![c] = g] /\ Goto(Attach(c), "waiting", NoArg)
  /\ UNCHANGED <<windowVars, sizeVars, primary, focus, grid, claims, transition, closing, lockVars>>

\* handleAttach polls until the active window stands between two sequences.
ChooseTransition(c) ==
  /\ pc[Attach(c)] = "waiting" /\ ~Closed /\ transition # active
  /\ transition' = active
  /\ UNCHANGED <<windowVars, sizeVars, clientVars, closing, budget, lockVars, pc, arg>>

LockForAttach(c) ==
  /\ pc[Attach(c)] = "waiting" /\ ~Closed /\ transition = active /\ Safe(active)
  /\ resizeMu = Free /\ resizeMu' = Attach(c) /\ Goto(Attach(c), "registering", NoArg)
  /\ UNCHANGED <<windowVars, sizeVars, clientVars, otherVars, attachMu>>

\* The deadline passes (only reached while it waits), or the server closes.
AbandonAttach(c) ==
  /\ pc[Attach(c)] = "waiting" /\ (Closed \/ ~Safe(active))
  /\ transition' = NoWindow /\ Goto(Attach(c), "away", NoArg)
  /\ UNCHANGED <<windowVars, sizeVars, clientVars, closing, budget, lockVars>>

\* Mutant: resizeMu is not given back.
LoseWithLock(c) ==
  /\ pc[Attach(c)] = "registering" /\ attachMu = Free
  /\ Closed \/ active # transition \/ ~Safe(active)
  /\ Goto(Attach(c), "waiting", NoArg)
  /\ UNCHANGED <<windowVars, sizeVars, clientVars, otherVars, attachMu, resizeMu>>

\* The window changed between the look at it and the locks.
LoseTransition(c) ==
  /\ pc[Attach(c)] = "registering" /\ attachMu = Free
  /\ Closed \/ active # transition \/ ~Safe(active)
  /\ resizeMu' = Free /\ Goto(Attach(c), "waiting", NoArg)
  /\ UNCHANGED <<windowVars, sizeVars, clientVars, otherVars, attachMu>>

\* With all locks: the client becomes primary and every clipping client learns
\* the grid before the window's terminal takes it.
RegisterAttach(c) ==
  LET g == PrimarySize(c, csize) IN
  /\ pc[Attach(c)] = "registering" /\ attachMu = Free
  /\ ~Closed /\ active = transition /\ Safe(active)
  /\ primary' = c /\ focus' = Refocused(c) /\ claims' = {}
  /\ pendFocus' = NoClient /\ pendResize' = NoResize
  /\ size' = g /\ published' = g /\ grid' = GridFor(Registered \cup {c}, g)
  /\ win' = Change(active, Resized(win[active], g))
  /\ transition' = NoWindow /\ resizeMu' = Free
  /\ Goto(Attach(c), "redrawing", [NoArg EXCEPT !.win = active])
  /\ UNCHANGED <<windows, created, active, last, csize, closing, budget, attachMu>>

\* After the frame was written, or failed to be: simulateForegroundResizeIfAttached.
RedrawAttached(c) ==
  LET w == arg[Attach(c)].win IN
  /\ pc[Attach(c)] = "redrawing" /\ attachMu = Free
  /\ win' \in {win, IF c \in Registered
                    THEN Change(w, Delivered(PausedForRedraw(win[w]), published)) ELSE win}
  /\ Goto(Attach(c), "attached", NoArg)
  /\ UNCHANGED <<windows, created, active, last, sizeVars, clientVars, otherVars, lockVars>>

\* routeInput recognises something the user did: promoteAttachClient.
Interact(c) ==
  /\ pc[Attach(c)] = "attached" /\ Spend("input")
  /\ Goto(Attach(c), "focus", [NoArg EXCEPT !.client = c, !.redraw = TRUE])
  /\ UNCHANGED <<windowVars, sizeVars, clientVars, transition, closing, lockVars>>

\* The connection ends, by the client or by a full queue.
Disconnect(c) ==
  /\ pc[Attach(c)] = "attached" /\ Spend("leave")
  /\ Goto(Attach(c), "leaving", NoArg)
  /\ UNCHANGED <<windowVars, sizeVars, clientVars, transition, closing, lockVars>>

\* removeAttachClient: the most recently focused of those left takes over.
Successor(c) == IF Len(focus) = 1 THEN NoClient ELSE Last(Without(c))

RemoveAttach(c) ==
  LET heir == IF primary = c THEN Successor(c) ELSE primary
      kept == IF heir = NoClient THEN published ELSE PrimarySize(heir, csize) IN
  /\ pc[Attach(c)] = "leaving" /\ resizeMu = Free
  /\ IF c \notin Registered
       THEN /\ Goto(Attach(c), "away", NoArg)
            /\ UNCHANGED <<size, pendResize, pendFocus, primary, focus, resizeMu>>
       ELSE /\ focus' = Without(c) /\ primary' = heir
            /\ pendFocus' = IF pendFocus = c THEN NoClient ELSE pendFocus
            /\ IF primary = c THEN size' = kept /\ pendResize' = NoResize
               ELSE UNCHANGED <<size, pendResize>>
            /\ IF kept # published
                 THEN resizeMu' = Attach(c) /\ Goto(Attach(c), "resizing",
                        [NoArg EXCEPT !.size = kept, !.then = "away"])
                 ELSE Goto(Attach(c), "away", NoArg) /\ UNCHANGED resizeMu
  /\ claims' = claims \ {c}
  /\ UNCHANGED <<windowVars, published, csize, grid, otherVars, attachMu>>

(***************************************************************************)
(* Output of a window                                                      *)
(***************************************************************************)
\* refreshPendingClientViewport, for what is due.
Refresh(t, focusDue, resizeDue) ==
  Goto(t, IF focusDue THEN "refreshFocus" ELSE IF resizeDue THEN "refreshResize" ELSE "idle",
       [arg[t] EXCEPT !.then = IF focusDue /\ resizeDue THEN "refreshResize" ELSE "idle"])

FocusIsDue  == pendFocus # NoClient /\ pendFocus = primary
ResizeIsDue == pendResize.size # NoGrid

\* The goroutines of a window start at the end of createWindow.
Watched(w) == \A r \in Requests : arg[Request(r)].born # w

\* handleWindowOutput: a client that is attaching to this window goes first.
BeginOutput(w, mid) ==
  LET shown == active = w /\ Registered # {} IN
  /\ pc[Reader(w)] = "idle" /\ Open(w) /\ Watched(w) /\ budget.output
  /\ transition = w => ~Safe(w)
  /\ win' = Change(w, [win[w] EXCEPT !.mid = mid, !.forwarding = shown])
  /\ Goto(Reader(w), IF shown /\ ~win[w].paused THEN "writing" ELSE "ending", NoArg)
  /\ UNCHANGED <<windows, created, active, last, sizeVars, clientVars, otherVars, lockVars>>

\* Its end: the chunk has been queued, and what was postponed until the end of
\* a sequence may be due.
EndOutput(w) ==
  LET ground == Open(w) /\ ~win[w].mid /\ ~win[w].paused IN
  /\ \/ pc[Reader(w)] = "ending"
     \/ pc[Reader(w)] = "writing" /\ attachMu = Free
  /\ win' = Change(w, [win[w] EXCEPT !.forwarding = FALSE])
  /\ Refresh(Reader(w), FocusIsDue /\ ground, ResizeIsDue /\ ground)
  /\ UNCHANGED <<windows, created, active, last, sizeVars, clientVars, otherVars, lockVars>>

\* resumePausedAttachForwarding by the pause's timer.
ResumeForwarding(w) ==
  /\ pc[Timer(w)] = "idle" /\ Open(w) /\ win[w].paused /\ attachMu = Free
  /\ win' = [win EXCEPT ![w].paused = FALSE]
  /\ Refresh(Timer(w), FocusIsDue /\ ~win[w].mid,
             ResizeIsDue /\ ~win[w].mid /\ ~win[w].forwarding)
  /\ UNCHANGED <<windows, created, active, last, sizeVars, clientVars, otherVars, lockVars>>

(***************************************************************************)
(* Windows                                                                 *)
(***************************************************************************)
Started(kind, g) ==
  [NoWin EXCEPT !.kind = kind, !.process = "running", !.pty = g,
                !.bridge = IF kind = "native" THEN "running" ELSE "none"]

\* createWindow asks for admission; a native one has started its bridge first.
AdmitStart(t) ==
  /\ pc[t] = "create"
  /\ IF Closed THEN Goto(t, "idle", NoArg)
     ELSE Goto(t, "starting", [arg[t] EXCEPT !.size = published])
  /\ UNCHANGED <<windowVars, sizeVars, clientVars, otherVars, lockVars>>

\* The process starts, without the lock, or fails to.
StartProcess(t) ==
  /\ pc[t] = "starting"
  /\ Goto(t, "started", arg[t]) \/ Goto(t, "idle", NoArg)
  /\ UNCHANGED <<windowVars, sizeVars, clientVars, otherVars, lockVars>>

\* The window is registered and becomes the active one.
PublishWindow(t) ==
  LET w == created + 1 IN
  /\ pc[t] = "started" /\ ~Closed /\ w \in Windows
  /\ created' = w /\ windows' = windows \cup {w}
  /\ win' = [win EXCEPT ![w] = Started(arg[t].kind, arg[t].size)]
  /\ last' = IF active # NoWindow THEN active ELSE last
  /\ active' = w
  /\ Goto(t, "shown", [NoArg EXCEPT !.born = w, !.redraw = FocusIsDue,
                         !.then = IF ResizeIsDue THEN "refreshResize" ELSE "idle"])
  /\ UNCHANGED <<sizeVars, clientVars, otherVars, lockVars>>

\* The server was closed meanwhile: cleanupRejectedWindow.
RejectWindow(t) ==
  /\ pc[t] = "started" /\ Closed
  /\ Goto(t, "rejecting", NoArg)
  /\ UNCHANGED <<windowVars, sizeVars, clientVars, otherVars, lockVars>>

KillRejected(t) ==
  /\ pc[t] = "rejecting" /\ Goto(t, "idle", NoArg)
  /\ UNCHANGED <<windowVars, sizeVars, clientVars, otherVars, lockVars>>

\* Mutant: the program repaints, at the size its terminal has.
ShownAsIs(w) == Change(w, IF Registered = {} THEN win[w] ELSE PausedForRedraw(win[w]))

\* broadcastAttachReplayAndResizeLocked: everyone attached is sent the frame,
\* and the program is made to repaint at the published size.
Shown(w) == Change(w, IF Registered = {} THEN win[w]
                      ELSE Delivered(PausedForRedraw(win[w]), published))

\* ... of the new window; a focus or size that waited for the old window is
\* applied to the new one.
ShowNewWindow(t) ==
  /\ pc[t] = "shown" /\ attachMu = Free
  /\ win' = Shown(arg[t].born)
  /\ IF arg[t].redraw THEN Goto(t, "refreshFocus", arg[t]) ELSE Finish(t)
  /\ UNCHANGED <<windows, created, active, last, sizeVars, clientVars, otherVars, lockVars>>

\* Activating w consumes whatever waited, and publishes the size.
Activate(w) ==
  /\ active' = w /\ pendFocus' = NoClient /\ pendResize' = NoResize
  /\ published' = size /\ grid' = GridFor(Registered, size)

\* selectWindowWithSkip.
Select(t) ==
  LET w == arg[t].win IN
  /\ pc[t] = "select" /\ attachMu = Free
  /\ IF Open(w)
       THEN /\ Activate(w) /\ last' = IF active # w THEN active ELSE last
            /\ attachMu' = t /\ Goto(t, "activated", [arg[t] EXCEPT !.next = w, !.size = size])
       ELSE /\ Finish(t) /\ UNCHANGED <<active, last, published, pendFocus, pendResize, grid, attachMu>>
  /\ UNCHANGED <<windows, win, created, size, primary, focus, csize, claims, otherVars, resizeMu>>

\* The frame of the window that has become active: its terminal takes the size
\* from the redraw, or directly when nobody is attached.
ShowActivated(t) ==
  LET w == arg[t].next IN
  /\ pc[t] = "activated" /\ attachMu' = Free
  /\ win' = IF Registered = {} /\ arg[t].size # NoGrid
              THEN Change(w, Resized(win[w], arg[t].size)) ELSE Shown(w)
  /\ Finish(t)
  /\ UNCHANGED <<windows, created, active, last, sizeVars, clientVars, otherVars, resizeMu>>

\* selectWindowWithoutReplay: what waited keeps waiting.
SelectQuietly(t) ==
  LET w == arg[t].win IN
  /\ pc[t] = "quiet" /\ attachMu = Free
  /\ IF Open(w) /\ active # w THEN active' = w /\ last' = active ELSE UNCHANGED <<active, last>>
  /\ Finish(t)
  /\ UNCHANGED <<windows, win, created, sizeVars, clientVars, otherVars, lockVars>>

\* closeWindow: a native window keeps its place until its bridge has stopped.
BeginClose(t) ==
  LET w == arg[t].win IN
  /\ pc[t] = "close"
  /\ IF ~Open(w) \/ win[w].closing THEN Finish(t) /\ UNCHANGED win
     ELSE IF win[w].bridge # "none"
       THEN win' = [win EXCEPT ![w].closing = TRUE] /\ Goto(t, "stopping", arg[t])
     ELSE Goto(t, "commit", arg[t]) /\ UNCHANGED win
  /\ UNCHANGED <<windows, created, active, last, sizeVars, clientVars, otherVars, lockVars>>

StopBridge(t) ==
  /\ pc[t] = "stopping" /\ Goto(t, "commit", arg[t])
  /\ win' = [win EXCEPT ![arg[t].win].bridge = "stopped"]
  /\ UNCHANGED <<windows, created, active, last, sizeVars, clientVars, otherVars, lockVars>>

\* Mutant: the window goes although its bridge may run on.
StopFailureIgnored(t) ==
  /\ pc[t] = "stopping" /\ Goto(t, "commit", arg[t])
  /\ UNCHANGED <<windowVars, sizeVars, clientVars, otherVars, lockVars>>

StopBridgeFails(t) ==
  /\ pc[t] = "stopping" /\ Finish(t)
  /\ win' = Change(arg[t].win, [win[arg[t].win] EXCEPT !.closing = FALSE])
  /\ UNCHANGED <<windows, created, active, last, sizeVars, clientVars, otherVars, lockVars>>

\* Mutant: the window that closes may replace itself.
ReplacementAny(w) == IF windows # {} THEN Min(windows) ELSE NoWindow

\* replacementWindowForClosedLocked: the next window, else the first.
Replacement(w) ==
  LET others == windows \ {w}
      after  == {v \in others : v > w} IN
  IF after # {} THEN Min(after) ELSE IF others # {} THEN Min(others) ELSE NoWindow

\* retireWindowLocked.
Retired(r) == [r EXCEPT !.paused = FALSE]

\* w leaves the list, and v takes its place if it was the active one.
Retire(w, v) ==
  /\ windows' = windows \ {w}
  /\ last' = IF last = w THEN NoWindow ELSE last
  /\ IF active # w THEN UNCHANGED <<active, published, pendFocus, pendResize, grid>>
     ELSE IF v # NoWindow THEN Activate(v)
     ELSE active' = NoWindow /\ pendFocus' = NoClient /\ UNCHANGED <<published, pendResize, grid>>

\* The end of a close: "activated" while attachMu is held, then "announcing".
AfterRetire(t, w, v, g) ==
  LET a == [NoArg EXCEPT !.win = w, !.next = v, !.size = g, !.redraw = (windows = {w})] IN
  IF active = w /\ v # NoWindow
    THEN attachMu' = t /\ Goto(t, "activated", [a EXCEPT !.then = "announcing"])
    ELSE Goto(t, "announcing", a) /\ UNCHANGED attachMu

CommitClose(t) ==
  LET w == arg[t].win IN
  /\ pc[t] = "commit" /\ attachMu = Free
  /\ IF Open(w)
       THEN /\ Retire(w, Replacement(w)) /\ AfterRetire(t, w, Replacement(w), size)
            /\ win' = [win EXCEPT ![w] = Retired(win[w])] /\ UNCHANGED closing
       ELSE /\ closing' = IF win[w].bridge # "none" /\ windows = {} /\ closing = "no"
                            THEN "asked" ELSE closing
            /\ Finish(t)
            /\ UNCHANGED <<windows, win, active, last, published, pendFocus, pendResize, grid, attachMu>>
  /\ UNCHANGED <<created, size, primary, focus, csize, claims, transition, budget, resizeMu>>

\* The process of a window ends: its user's doing, or what a close did to it.
ProcessExit(w) ==
  /\ \/ win[w].process = "running" /\ win[w].bridge # "stopped" /\ Spend("exit")
     \/ /\ win[w].process = "hungup" \/ (win[w].process = "running" /\ win[w].bridge = "stopped")
        /\ UNCHANGED budget
  /\ win' = [win EXCEPT ![w].process = "ended"]
  /\ UNCHANGED <<windows, created, active, last, sizeVars, clientVars, transition, closing,
                 lockVars, pc, arg>>

\* markWindowClosed: the first window takes the place of the active one.
MarkWindowClosed(w) ==
  LET others == windows \ {w}
      v == IF others = {} THEN NoWindow ELSE Min(others)
      retired == [win EXCEPT ![w] = Retired(win[w])] IN
  /\ pc[Watcher(w)] = "idle" /\ win[w].process = "ended" /\ Watched(w) /\ attachMu = Free
  /\ IF Open(w)
       THEN /\ Retire(w, v) /\ AfterRetire(Watcher(w), w, v, NoGrid)
            /\ win' = IF active = w /\ v # NoWindow
                        THEN [retired EXCEPT ![v] = Resized(win[v], size)] ELSE retired
       ELSE /\ Goto(Watcher(w), "over", NoArg)
            /\ UNCHANGED <<windows, win, active, last, published, pendFocus, pendResize, grid, attachMu>>
  /\ UNCHANGED <<created, size, primary, focus, csize, claims, otherVars, resizeMu>>

\* window_removed is broadcast, the terminal closed and the process hung up;
\* the watcher also asks the bridge to stop.  The last window ends the server.
AnnounceClosed(t) ==
  LET w == arg[t].win
      byWatcher == t[1] = "watcher" IN
  /\ pc[t] = "announcing"
  /\ \E b \in {win[w].bridge, "stopped"} :
       /\ b # win[w].bridge => byWatcher /\ win[w].bridge = "running"
       /\ win' = [win EXCEPT ![w].announced = @ + 1, ![w].bridge = b,
                             ![w].process = IF @ = "running" THEN "hungup" ELSE @]
  /\ closing' = IF arg[t].redraw /\ closing = "no" THEN "asked" ELSE closing
  /\ Goto(t, IF byWatcher THEN "over" ELSE "idle", NoArg)
  /\ UNCHANGED <<windows, created, active, last, sizeVars, clientVars, transition, budget, lockVars>>

(***************************************************************************)
(* Shutdown                                                                *)
(***************************************************************************)
\* close, under mu: nothing is admitted from here on.
BeginServerClose ==
  /\ closing = "asked" /\ closing' = "begun"
  /\ primary' = NoClient /\ focus' = <<>>
  /\ win' = [w \in Windows |-> [win[w] EXCEPT !.paused = FALSE]]
  /\ UNCHANGED <<windows, created, active, last, sizeVars, csize, grid, claims, transition,
                 budget, lockVars, pc, arg>>

\* Every window that was listed is hung up, its terminal closed, its bridge
\* asked to stop.
TearDown ==
  /\ closing = "begun" /\ closing' = "torn"
  /\ \E stopped \in SUBSET {w \in windows : win[w].bridge = "running"} :
       win' = [w \in Windows |->
         [win[w] EXCEPT !.process = IF w \in windows /\ @ = "running" THEN "hungup" ELSE @,
                        !.bridge  = IF w \in stopped THEN "stopped" ELSE @]]
  /\ UNCHANGED <<windows, created, active, last, sizeVars, clientVars, transition, budget,
                 lockVars, pc, arg>>

\* pendingWindowStarts.Wait; the wait for the watchers is bounded.
StartPending(t) == pc[t] \in {"starting", "started", "rejecting"}

\* Mutant: does not wait for the windows that are starting.
EndAtOnce ==
  /\ closing = "torn" /\ closing' = "done"
  /\ UNCHANGED <<windowVars, sizeVars, clientVars, transition, budget, lockVars, pc, arg>>

EndServerClose ==
  /\ closing = "torn" /\ \A r \in Requests : ~StartPending(Request(r))
  /\ closing' = "done"
  /\ UNCHANGED <<windowVars, sizeVars, clientVars, transition, budget, lockVars, pc, arg>>

(***************************************************************************)
(* Requests                                                                *)
(***************************************************************************)
Creating(r) == pc[Request(r)] \in {"create"} \cup {"starting", "started"}
               \/ arg[Request(r)].then = "create"
MayCreate == created + Cardinality({r \in Requests : Creating(r)}) < MaxWindows

\* handleControlRequest, handleAttachPrefixCommand, startAcpBridgeAsync: most
\* first give the focus to the client they name.  The window was chosen before,
\* and may be gone when its turn comes.
Ask(r, event, label, a) ==
  /\ pc[Request(r)] = "idle" /\ closing = "no" /\ Spend(event)
  /\ \A q \in Requests : q < r => pc[Request(q)] # "idle"
  /\ Goto(Request(r), label, a)
  /\ UNCHANGED <<windowVars, sizeVars, clientVars, transition, closing, lockVars>>

AskCreate(r, c, kind) ==
  /\ MayCreate
  /\ IF kind = "native" THEN Ask(r, "manage", "create", [NoArg EXCEPT !.kind = kind])
     ELSE Ask(r, "manage", "focus", [NoArg EXCEPT !.client = c, !.kind = kind, !.then = "create"])

AskWindow(r, c, label, w) ==
  /\ label = "quiet" => win[w].kind = "native"
  /\ Ask(r, "manage", "focus", [NoArg EXCEPT !.client = c, !.win = w, !.then = label])

AskResize(r, c, g) == Ask(r, "view", "resize", [NoArg EXCEPT !.client = c, !.size = g])

AskFocus(r, c, g, redraw) ==
  Ask(r, "view", "focus", [NoArg EXCEPT !.client = c, !.size = g, !.redraw = redraw])

AskTheme(r) == Open(active) /\ Ask(r, "view", "theme", [NoArg EXCEPT !.pin = active])

AskShutdown ==
  /\ closing = "no" /\ closing' = "asked" /\ Spend("exit")
  /\ UNCHANGED <<windowVars, sizeVars, clientVars, transition, lockVars, pc, arg>>

(***************************************************************************)
(* The server, as restoreOrCreateInitialWindow leaves it                   *)
(***************************************************************************)
Init ==
  \E g \in Grids, s \in Scenarios : \E a \in 1 .. Len(s.kinds) :
    /\ budget = s /\ created = Len(s.kinds) /\ windows = 1 .. created
    /\ win = [w \in Windows |-> IF w <= created THEN Started(s.kinds[w], g) ELSE NoWin]
    /\ active = a /\ last = IF a = created THEN IF a = 1 THEN NoWindow ELSE a - 1 ELSE created
    /\ size = g /\ published = g /\ pendResize = NoResize /\ pendFocus = NoClient
    /\ primary = NoClient /\ focus = <<>> /\ claims = {}
    /\ csize = [c \in Clients |-> NoGrid] /\ grid = [c \in Clients |-> NoGrid]
    /\ transition = NoWindow /\ closing = "no"
    /\ attachMu = Free /\ resizeMu = Free
    /\ pc = [t \in Threads |-> IF t[1] = "client" THEN "away" ELSE "idle"]
    /\ arg = [t \in Threads |-> NoArg]

\* What a thread does once it has begun.
ThreadStep(t) ==
  \/ ResizeWithRedraw(t) \/ ResizeForClient(t) \/ ForceRedraw(t)
  \/ RefreshPendingFocus(t) \/ RefreshPendingResize(t)
  \/ Focus(t) \/ ReplayFocused(t) \/ RedrawFocused(t)
  \/ AdmitStart(t) \/ StartProcess(t) \/ PublishWindow(t) \/ RejectWindow(t) \/ KillRejected(t)
  \/ ShowNewWindow(t) \/ Select(t) \/ ShowActivated(t) \/ SelectQuietly(t)
  \/ BeginClose(t) \/ StopBridge(t) \/ StopBridgeFails(t) \/ CommitClose(t) \/ AnnounceClosed(t)

ClientStep(c) ==
  \/ ChooseTransition(c) \/ LockForAttach(c) \/ AbandonAttach(c) \/ LoseTransition(c)
  \/ RegisterAttach(c) \/ RedrawAttached(c) \/ RemoveAttach(c)

WindowStep(w) ==
  EndOutput(w) \/ ResumeForwarding(w) \/ RestoreGeometry(w) \/ MarkWindowClosed(w)

ServerStep == BeginServerClose \/ TearDown \/ EndServerClose

UserStep ==
  \/ \E c \in Clients : \/ \E g \in Grids : BeginAttach(c, g)
                        \/ Interact(c) \/ Disconnect(c) \/ AmbiguousEscape(c) \/ ClaimFocus(c)
  \/ \E w \in Windows : ProcessExit(w) \/ \E mid \in BOOLEAN : BeginOutput(w, mid)
  \/ \E r \in Requests :
       \/ AskTheme(r)
       \/ \E c \in Registered \cup {NoClient} :
            \/ \E kind \in Kinds : AskCreate(r, c, kind)
            \/ \E label \in {"select", "quiet", "close"}, w \in 1 .. created : AskWindow(r, c, label, w)
            \/ \E g \in Grids : AskResize(r, c, g)
            \/ \E g \in Grids, redraw \in BOOLEAN : c # NoClient /\ AskFocus(r, c, g, redraw)
  \/ AskShutdown

Next ==
  \/ UserStep \/ ServerStep
  \/ \E t \in Threads : ThreadStep(t)
  \/ \E c \in Clients : ClientStep(c)
  \/ \E w \in Windows : WindowStep(w)

Spec == Init /\ [][Next]_vars

(***************************************************************************)
(* Properties                                                              *)
(***************************************************************************)
Resting == \A t \in Threads : pc[t] \in {"idle", "attached", "away", "over"}
Serving == ~Closed /\ Registered # {} /\ Open(active)

MuxTypes ==
  /\ created \in 0 .. MaxWindows /\ windows \subseteq 1 .. created
  /\ active \in windows \cup {NoWindow} /\ (active = NoWindow <=> windows = {})
  /\ last \in 0 .. created /\ transition \in 0 .. created
  /\ {size, published} \subseteq Grids /\ pendResize.size \in Grids \cup {NoGrid}
  /\ {primary, pendFocus} \subseteq Clients \cup {NoClient} /\ Registered \subseteq Clients
  /\ IsInjective(focus)
  /\ {attachMu, resizeMu} \subseteq Threads \cup {Free}

\* The primary client is the one of those attached that gained the focus last,
\* and a frame that waits for the end of a sequence waits for it.
PrimaryIsLatest ==
  ~Closed =>
    /\ primary = IF focus = <<>> THEN NoClient ELSE Last(focus)
    /\ pendFocus \in {NoClient, primary}

\* A client clips the output it is sent to the grid that output was made for:
\* whoever resizes tells all of them, and nobody is told twice or too late.
GridsAgree == ~Closed => \A c \in Registered \cap Clipping : grid[c] = published

\* When nothing is under way, the terminal of the window that the clients see
\* has the published size, whatever became active, resized and closed before.
PtyFits ==
  Serving /\ Resting /\ win[active].kind # "native" /\ win[active].dance = NoGrid
    => win[active].pty = published

\* Clients are not sent a new grid between two halves of a sequence, unless the
\* window they are shown is replaced.
Selected == \E r \in Requests : pc[Request(r)] = "select" /\ pc'[Request(r)] = "activated"

ResizeWaits ==
  [][grid' # grid /\ ~Safe(active) => active' # active \/ Selected]_vars

\* A closed server has no window starting, and leaves no program behind: each
\* was hung up, or will be by the goroutine that is closing its window.
ClosedBy(t, w) ==
  arg[t].win = w /\ (pc[t] = "announcing" \/ arg[t].then = "announcing")

NothingOutlivesClose ==
  closing = "done" =>
    /\ \A r \in Requests : ~StartPending(Request(r))
    /\ \A w \in 1 .. created :
         win[w].process = "running" => \E t \in Threads : ClosedBy(t, w)

\* Every window that is gone was announced once, however many goroutines found
\* its end at the same time.
RemovedOnce ==
  /\ \A w \in Windows : win[w].announced <= 1
  /\ Resting => \A w \in (1 .. created) \ windows : win[w].announced = 1

\* A native window that is being closed keeps its place until its bridge has
\* stopped or its program has ended: a bridge that goes on is not orphaned.
IdentityKept ==
  [][\A w \in windows \ windows' :
       win[w].closing => win[w].bridge = "stopped" \/ win[w].process = "ended"]_vars

\* No goroutine waits for ever, and a server without windows ends.
Internal ==
  \/ ServerStep
  \/ \E t \in Threads : ThreadStep(t)
  \/ \E c \in Clients : ClientStep(c)
  \/ \E w \in Windows : WindowStep(w)

NothingSticks ==
  (ENABLED Internal) \/ (Resting /\ (windows = {} => closing = "done"))

\* README: interacting with a client immediately makes its size authoritative.
SettledOnPrimary ==
  Serving /\ Resting /\ Safe(active) /\ pendResize = NoResize /\ pendFocus = NoClient
    => published = csize[primary]
=============================================================================
