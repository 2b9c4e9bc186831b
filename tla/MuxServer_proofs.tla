-------------------------- MODULE MuxServer_proofs --------------------------
(***************************************************************************)
(* Proofs about MuxServer, for all clients, grids, scenarios and bounds.   *)
(*                                                                         *)
(* The state falls into parts that each action leaves alone or changes in  *)
(* one of few ways, so every invariant has lemmas for its own part:        *)
(*   types     where each goroutine stands and what it carries (ThreadInv),*)
(*             the windows (WinInv, WindowInv), sizes and clients          *)
(*   desk      who is primary, and what grid each client was told          *)
(*   life      closing windows: one announcer each, no program forgotten   *)
(*   fit       the window that is shown has the published size, or somebody*)
(*             is about to repaint it                                      *)
(* Their conjunction Inv is inductive.  NothingSticks is about ENABLED and *)
(* stays with the runs.                                                    *)
(***************************************************************************)
EXTENDS MuxServer, FiniteFacts, FunctionTheorems, SequenceTheorems

(***************************************************************************)
(* Types                                                                   *)
(***************************************************************************)
Sizes == Grids \cup {NoGrid}
KindTypes == {"shell", "agent", "native"}

\* Where a thread of each sort may stand, and what it may have left to do.
Points == [
  reader  |-> {"idle", "writing", "ending", "refreshFocus", "refreshResize", "replay",
               "replayed", "resizing"},
  timer   |-> {"idle", "refreshFocus", "refreshResize", "replay", "replayed", "resizing"},
  watcher |-> {"idle", "over", "activated", "announcing"},
  client  |-> {"away", "waiting", "registering", "redrawing", "attached", "focus", "replay",
               "replayed", "resizing", "leaving"},
  request |-> {"idle", "focus", "replay", "replayed", "resizing", "resize", "theme", "create",
               "starting", "started", "rejecting", "shown", "refreshFocus", "refreshResize",
               "select", "activated", "quiet", "close", "stopping", "commit", "announcing"}]

Errands == [
  reader  |-> {"idle", "refreshResize"},
  timer   |-> {"idle", "refreshResize"},
  watcher |-> {"idle", "announcing"},
  client  |-> {"idle", "away"},
  request |-> {"idle", "create", "select", "quiet", "close", "refreshResize", "announcing"}]

AllPoints == UNION {Points[k] : k \in DOMAIN Points}
AllErrands == UNION {Errands[k] : k \in DOMAIN Errands}
Sorts == {"reader", "timer", "watcher", "client", "request"}
Sized == {"resizing", "resize", "replay", "starting", "started"}

ArgTypes ==
  [client : Clients \cup {NoClient}, win : Windows \cup {NoWindow}, size : Sizes,
   redraw : BOOLEAN, pin : Windows \cup {NoWindow}, kind : KindTypes,
   born : Windows \cup {NoWindow}, next : Windows \cup {NoWindow},
   then : AllErrands]

\* What holds of one thread: a window that is to be announced is on its way
\* there, whoever is about to resize knows the size, and only a native window
\* is selected without a replay.
ThreadOK(k, label, a) ==
  /\ label \in Points[k] /\ a \in ArgTypes /\ a.then \in Errands[k]
  /\ label \in Sized => a.size \in Grids
  /\ a.then = "announcing" => label = "activated"
  /\ label = "shown" => a.born \in Windows
  /\ label = "activated" => a.next \in Windows

ThreadInv ==
  /\ pc \in [Threads -> AllPoints] /\ arg \in [Threads -> ArgTypes]
  /\ \A t \in Threads : ThreadOK(t[1], pc[t], arg[t])
  /\ {attachMu, resizeMu} \subseteq Threads \cup {Free}

WinTypes ==
  [kind : KindTypes, process : {"none", "running", "hungup", "ended"},
   pty : Sizes \cup {Temporary}, dance : Sizes, mid : BOOLEAN, forwarding : BOOLEAN,
   paused : BOOLEAN, closing : BOOLEAN, bridge : {"none", "running", "stopped"},
   announced : Nat]

WinInv == win \in [Windows -> WinTypes]

WindowInv ==
  /\ created \in 0 .. MaxWindows /\ windows \subseteq 1 .. created
  /\ active \in windows \cup {NoWindow} /\ (active = NoWindow <=> windows = {})
  /\ last \in 0 .. created /\ transition \in 0 .. created

SizeInv ==
  /\ size \in Grids /\ published \in Grids
  /\ pendResize \in [size : Sizes, theme : Windows \cup {NoWindow}]

ClientInv ==
  /\ focus \in Seq(Clients) /\ IsInjective(focus)
  /\ primary \in Clients \cup {NoClient} /\ pendFocus \in Clients \cup {NoClient}
  /\ csize \in [Clients -> Sizes] /\ grid \in [Clients -> Sizes] /\ claims \subseteq Clients

TypeInv == ThreadInv /\ WinInv /\ WindowInv /\ SizeInv /\ ClientInv

(***************************************************************************)
(* Strengthenings                                                          *)
(***************************************************************************)
\* Somebody is about to make the program in w repaint at the published size.
Repairs(t, w) ==
  \/ pc[t] = "activated" /\ arg[t].next = w
  \/ pc[t] = "shown" /\ arg[t].born = w
Repairing(w) == \E t \in Threads : Repairs(t, w)

Fits(w) ==
  win[w].dance = published \/ (win[w].dance = NoGrid /\ win[w].pty = published)

\* Only a native window is chosen to be shown without a replay, and who chose
\* it does not replay another window on its way.
ChosenOK(label, a) ==
  /\ label = "quiet" \/ a.then = "quiet" => a.win \in 1 .. created /\ win[a.win].kind = "native"
  /\ label \in {"shown", "refreshFocus", "replay", "replayed"} \/ (label = "focus" /\ a.redraw)
       => a.then # "quiet"

ChosenInv == \A t \in Threads : ChosenOK(pc[t], arg[t])

\* The window that clients see fits, or is being repaired; a native window may
\* be shown without.
ShownInv ==
  Serving /\ win[active].kind # "native" => Fits(active) \/ Repairing(active)

FitInv == ChosenInv /\ ShownInv

\* Who takes a window away has stopped its bridge, if it has one.
CloseInv ==
  /\ \A w \in Windows : win[w].closing => win[w].bridge # "none"
  /\ \A t \in Threads :
       /\ pc[t] \in {"stopping", "commit"} => arg[t].win \in 1 .. created
       /\ pc[t] = "commit" => win[arg[t].win].bridge # "running"

\* One thread announces each window that was taken away, after that none.
AnnounceInv ==
  \A w \in Windows :
    /\ w \in windows \/ w > created =>
         win[w].announced = 0 /\ \A t \in Threads : ~ClosedBy(t, w)
    /\ w \in (1 .. created) \ windows =>
         \/ win[w].announced = 1 /\ \A t \in Threads : ~ClosedBy(t, w)
         \/ /\ win[w].announced = 0
            /\ \E t \in Threads : ClosedBy(t, w) /\ \A u \in Threads \ {t} : ~ClosedBy(u, w)

\* A program that runs is in a listed window or in one that is being announced;
\* the server's end spares none that is listed.
OrphanInv ==
  /\ \A w \in Windows :
       win[w].process = "running" => w \in windows \/ \E t \in Threads : ClosedBy(t, w)
  /\ closing \in {"torn", "done"} => \A w \in windows : win[w].process # "running"
  /\ closing = "done" => \A r \in Requests : ~StartPending(Request(r))

(***************************************************************************)
(* Numbers, sequences and threads                                          *)
(***************************************************************************)
LEMMA MinIsMember ==
  ASSUME NEW S, S \subseteq Nat, S # {}
  PROVE  Min(S) \in S
<1>1. \E m \in S : \A k \in S : m <= k  BY LeastNumber
<1> QED  BY <1>1, Zenon DEF Min

\* A place taken out of a sequence.
LEMMA RemovedPlace ==
  ASSUME NEW S, NEW s \in Seq(S), NEW p \in 1 .. Len(s)
  PROVE  /\ RemoveAt(s, p) \in Seq(S) /\ Len(RemoveAt(s, p)) = Len(s) - 1
         /\ \A i \in 1 .. Len(s) - 1 : RemoveAt(s, p)[i] = IF i < p THEN s[i] ELSE s[i + 1]
<1> DEFINE front == SubSeq(s, 1, p - 1)
           back  == SubSeq(s, p + 1, Len(s))
<1>1. Len(s) \in Nat /\ p \in Nat /\ 1 <= p /\ p <= Len(s)  OBVIOUS
<1>2. front \in Seq(S) /\ Len(front) = p - 1 /\ \A i \in 1 .. p - 1 : front[i] = s[i]
  BY <1>1, SubSeqProperties
<1>3. back \in Seq(S) /\ Len(back) = Len(s) - p /\ \A i \in 1 .. Len(s) - p : back[i] = s[p + i]
  BY <1>1, SubSeqProperties
<1> HIDE DEF front, back
<1>4. RemoveAt(s, p) = front \o back  BY DEF RemoveAt, front, back
<1>5. front \o back \in Seq(S) /\ Len(front \o back) = Len(s) - 1
  <2>1. front \o back \in Seq(S) /\ Len(front \o back) = Len(front) + Len(back)
    BY <1>2, <1>3, ConcatProperties
  <2> QED  BY <1>1, <1>2, <1>3, <2>1
<1>6. \A i \in 1 .. Len(s) - 1 : (front \o back)[i] = IF i < p THEN s[i] ELSE s[i + 1]
  BY <1>1, <1>2, <1>3
<1> QED  BY <1>4, <1>5, <1>6

LEMMA ThreadSorts ==
  /\ \A t \in Threads : t[1] \in Sorts
  /\ \A w \in Windows : /\ Reader(w) \in Threads /\ Reader(w)[1] = "reader"
                        /\ Timer(w) \in Threads /\ Timer(w)[1] = "timer"
                        /\ Watcher(w) \in Threads /\ Watcher(w)[1] = "watcher"
  /\ \A c \in Clients : Attach(c) \in Threads /\ Attach(c)[1] = "client"
  /\ \A r \in Requests : Request(r) \in Threads /\ Request(r)[1] = "request"
  /\ \A t \in Threads : t[1] = "request" => \E r \in Requests : t = Request(r)
  /\ Free \notin Threads
  BY DEF Threads, Sorts, Reader, Timer, Watcher, Attach, Request, Free

LEMMA PointTypes ==
  /\ \A k \in Sorts : Points[k] \subseteq AllPoints /\ Errands[k] \subseteq AllErrands
  /\ "idle" \in AllErrands
<1>1. DOMAIN Points = Sorts /\ DOMAIN Errands = Sorts  BY DEF Points, Errands, Sorts
<1>2. "idle" \in Errands["reader"] /\ "reader" \in Sorts  BY DEF Errands, Sorts
<1> QED  BY <1>1, <1>2, Zenon DEF AllPoints, AllErrands

LEMMA NoArgTypes == NoArg \in ArgTypes
  BY MuxAssumption, PointTypes DEF NoArg, ArgTypes, Sizes, KindTypes

(***************************************************************************)
(* Moves of a thread                                                       *)
(***************************************************************************)
LEMMA GotoKeeps ==
  ASSUME ThreadInv, NEW t \in Threads, NEW label, NEW a, Goto(t, label, a),
         ThreadOK(t[1], label, a), {attachMu', resizeMu'} \subseteq Threads \cup {Free}
  PROVE  ThreadInv'
<1>1. t[1] \in Sorts /\ label \in AllPoints /\ a \in ArgTypes
  BY ThreadSorts, PointTypes DEF ThreadOK
<1>2. pc' = [pc EXCEPT ![t] = label] /\ arg' = [arg EXCEPT ![t] = a]  BY DEF Goto
<1>3. pc' \in [Threads -> AllPoints] /\ arg' \in [Threads -> ArgTypes]
  BY <1>1, <1>2 DEF ThreadInv
<1>4. \A u \in Threads : pc'[u] = (IF u = t THEN label ELSE pc[u])
                         /\ arg'[u] = (IF u = t THEN a ELSE arg[u])
  BY <1>2 DEF ThreadInv
<1>5. \A u \in Threads : ThreadOK(u[1], pc'[u], arg'[u])
  BY <1>4, Zenon DEF ThreadInv
<1> QED  BY <1>3, <1>5 DEF ThreadInv, ThreadOK, ArgTypes, Sizes

LEMMA FinishKeeps ==
  ASSUME ThreadInv, NEW t \in Threads, Finish(t),
         {attachMu', resizeMu'} \subseteq Threads \cup {Free}
  PROVE  ThreadInv'
<1>1. t[1] \in Sorts /\ ThreadOK(t[1], pc[t], arg[t])  BY ThreadSorts DEF ThreadInv
<1>2. CASE arg[t].then = "idle"
  <2>1. Goto(t, Home(t), NoArg)  BY <1>2 DEF Finish
  <2>2. Home(t) \in Points[t[1]] /\ "idle" \in Errands[t[1]] /\ Home(t) \in {"attached", "idle"}
    BY <1>1 DEF Home, Points, Errands, Sorts
  <2>3. ThreadOK(t[1], Home(t), NoArg)
    BY <2>2, NoArgTypes DEF ThreadOK, Sized, NoArg
  <2> QED  BY <2>1, <2>3, GotoKeeps
<1>3. CASE arg[t].then # "idle"
  <2> DEFINE a == [arg[t] EXCEPT !.then = "idle", !.client = NoClient, !.size = NoGrid]
  <2>1. Goto(t, arg[t].then, a)  BY <1>3 DEF Finish
  <2>2. arg[t].then \in Points[t[1]] /\ arg[t].then \notin Sized \cup {"shown", "activated"}
        /\ "idle" \in Errands[t[1]]
    BY <1>1, <1>3 DEF ThreadOK, Points, Errands, Sorts, Sized
  <2>3. a \in ArgTypes /\ a.then = "idle"
    BY <1>1, PointTypes DEF ThreadOK, ArgTypes, Sizes
  <2>4. ThreadOK(t[1], arg[t].then, a)
    BY <2>2, <2>3 DEF ThreadOK
  <2> QED  BY <2>1, <2>4, GotoKeeps
<1> QED  BY <1>2, <1>3

LEMMA ThreadFrame ==
  ASSUME ThreadInv, UNCHANGED <<pc, arg>>, {attachMu', resizeMu'} \subseteq Threads \cup {Free}
  PROVE  ThreadInv'
  BY DEF ThreadInv, ThreadOK, ArgTypes, Sizes

LEMMA PrimarySizeType ==
  ASSUME SizeInv, NEW p \in Clients \cup {NoClient}, NEW cs \in [Clients -> Sizes]
  PROVE  PrimarySize(p, cs) \in Grids
  BY DEF SizeInv, Sizes, PrimarySize

LEMMA RegisteredTypes ==
  ASSUME ClientInv
  PROVE  Registered \subseteq Clients
  BY DEF ClientInv, Registered, ToSet

\* The thread that takes the focus for c.
LEMMA TakeFocusThread ==
  ASSUME TypeInv, NEW t \in Threads, NEW c \in Registered, NEW g \in Sizes,
         NEW handoff \in BOOLEAN, TakeFocus(t, c, g, handoff), UNCHANGED attachMu,
         pc[t] \in {"focus", "attached"}
  PROVE  ThreadInv'
<1> DEFINE target == PrimarySize(c, csize')
           onReplay == [arg[t] EXCEPT !.client = c, !.size = target]
           onResize == [arg[t] EXCEPT !.size = target]
<1>1. c \in Clients  BY RegisteredTypes DEF TypeInv
<1>2. csize' = [csize EXCEPT ![c] = IF g = NoGrid THEN csize[c] ELSE g]  BY DEF TakeFocus
<1>3. csize' \in [Clients -> Sizes]  BY <1>1, <1>2 DEF TypeInv, ClientInv
<1>4. target \in Grids  BY <1>1, <1>3, PrimarySizeType DEF TypeInv
<1>5. \/ resizeMu' = t /\ Goto(t, "replay", onReplay)
      \/ resizeMu' = t /\ Goto(t, "resizing", onResize)
      \/ UNCHANGED resizeMu /\ Finish(t)
  BY DEF TakeFocus
<1> HIDE DEF target
<1>6. t[1] \in Sorts /\ ThreadOK(t[1], pc[t], arg[t])  BY ThreadSorts DEF TypeInv, ThreadInv
<1>7. {"replay", "resizing"} \subseteq Points[t[1]]  BY <1>6 DEF ThreadOK, Points, Sorts
<1>8. ThreadOK(t[1], "replay", onReplay) /\ ThreadOK(t[1], "resizing", onResize)
  BY <1>1, <1>4, <1>6, <1>7 DEF ThreadOK, ArgTypes, Sizes
<1>9. {attachMu', resizeMu'} \subseteq Threads \cup {Free}
  BY <1>5 DEF TypeInv, ThreadInv
<1> QED  BY <1>5, <1>8, <1>9, GotoKeeps, FinishKeeps DEF TypeInv

LEMMA ResizeThreads ==
  ASSUME TypeInv, NEW t \in Threads,
         \/ ResizeWithRedraw(t) \/ ResizeForClient(t) \/ ForceRedraw(t)
         \/ RefreshPendingFocus(t) \/ RefreshPendingResize(t)
         \/ ReplayFocused(t) \/ RedrawFocused(t)
  PROVE  ThreadInv'
<1> USE DEF TypeInv
<1>1. t[1] \in Sorts /\ ThreadOK(t[1], pc[t], arg[t])  BY ThreadSorts DEF ThreadInv
<1>2. active \in Windows \cup {NoWindow} /\ pendResize.theme \in Windows \cup {NoWindow}
      /\ pendResize.size \in Sizes
  BY MuxAssumption DEF WindowInv, SizeInv, Windows
<1>3. PrimarySize(primary, csize) \in Grids  BY PrimarySizeType DEF ClientInv
<1> DEFINE locks == {attachMu', resizeMu'} \subseteq Threads \cup {Free}
<1>4. CASE ResizeWithRedraw(t) \/ RedrawFocused(t)
  <2>1. Finish(t) /\ locks
    BY <1>4 DEF ResizeWithRedraw, RedrawFocused, lockVars, ThreadInv
  <2> QED  BY <2>1, FinishKeeps
<1>5. CASE ResizeForClient(t)
  <2>1. locks /\ pc[t] = "resize" /\ (Finish(t) \/ Goto(t, "resizing", arg[t]))
    BY <1>5 DEF ResizeForClient, ThreadInv
  <2>2. ThreadOK(t[1], "resizing", arg[t])
    BY <1>1, <2>1 DEF ThreadOK, Points, Sorts, Sized
  <2> QED  BY <2>1, <2>2, FinishKeeps, GotoKeeps
<1>6. CASE ForceRedraw(t)
  <2> DEFINE a == [arg[t] EXCEPT !.size = PrimarySize(primary, csize)]
  <2>1. locks /\ pc[t] = "theme" /\ (Finish(t) \/ Goto(t, "resizing", a))
    BY <1>6 DEF ForceRedraw, ThreadInv
  <2>2. ThreadOK(t[1], "resizing", a)
    BY <1>1, <1>3, <2>1 DEF ThreadOK, Points, Sorts, ArgTypes, Sizes
  <2> QED  BY <2>1, <2>2, FinishKeeps, GotoKeeps
<1>7. CASE RefreshPendingFocus(t)
  <2> DEFINE a == [arg[t] EXCEPT !.client = pendFocus, !.size = PrimarySize(primary, csize)]
  <2>1. locks /\ pc[t] = "refreshFocus" /\ (Finish(t) \/ Goto(t, "replay", a))
    BY <1>7 DEF RefreshPendingFocus, ThreadInv
  <2>2. a \in ArgTypes /\ a.size \in Grids /\ a.then = arg[t].then
    BY <1>1, <1>3 DEF ThreadOK, ArgTypes, Sizes, ClientInv
  <2>3. ThreadOK(t[1], "replay", a)
    BY <1>1, <2>1, <2>2 DEF ThreadOK, Points, Sorts
  <2> QED  BY <2>1, <2>3, FinishKeeps, GotoKeeps
<1>8. CASE RefreshPendingResize(t)
  <2> DEFINE a == [NoArg EXCEPT !.size = pendResize.size, !.pin = pendResize.theme]
  <2>1. locks /\ pc[t] = "refreshResize"
        /\ (Finish(t) \/ (pendResize.size # NoGrid /\ Goto(t, "resizing", a)))
    BY <1>8 DEF RefreshPendingResize, ThreadInv
  <2>2. a \in ArgTypes /\ a.size = pendResize.size /\ a.then = "idle"
    BY <1>2, NoArgTypes DEF ArgTypes, NoArg
  <2>3. pendResize.size # NoGrid => ThreadOK(t[1], "resizing", a)
    BY <1>1, <1>2, <2>1, <2>2 DEF ThreadOK, Points, Errands, Sorts, Sizes
  <2> QED  BY <2>1, <2>3, FinishKeeps, GotoKeeps
<1>9. CASE ReplayFocused(t)
  <2> DEFINE a == [arg[t] EXCEPT !.win = active]
  <2>1. locks /\ pc[t] = "replay" /\ (Finish(t) \/ Goto(t, "replayed", a))
    BY <1>9 DEF ReplayFocused, ThreadInv
  <2>2. ThreadOK(t[1], "replayed", a)
    BY <1>1, <1>2, <2>1 DEF ThreadOK, Points, Sorts, Sized, ArgTypes
  <2> QED  BY <2>1, <2>2, FinishKeeps, GotoKeeps
<1> QED  BY <1>4, <1>5, <1>6, <1>7, <1>8, <1>9

LEMMA ReplacementTypes ==
  ASSUME WindowInv, NEW w
  PROVE  /\ Replacement(w) \in (windows \ {w}) \cup {NoWindow}
         /\ Replacement(w) = NoWindow <=> windows \ {w} = {}
<1> DEFINE others == windows \ {w}
           after  == {v \in others : v > w}
<1>0. windows \subseteq Nat \ {0}
  <2>1. created \in Nat /\ windows \subseteq 1 .. created  BY MuxAssumption DEF WindowInv
  <2> QED  BY <2>1
<1>1. others \subseteq Nat /\ NoWindow \notin others /\ after \subseteq others
  BY <1>0 DEF NoWindow
<1>2. after # {} => Min(after) \in after  BY <1>1, MinIsMember
<1>3. others # {} => Min(others) \in others  BY <1>1, MinIsMember
<1>4. Replacement(w) = IF after # {} THEN Min(after)
                       ELSE IF others # {} THEN Min(others) ELSE NoWindow
  BY DEF Replacement
<1> HIDE DEF others, after
<1>5. Replacement(w) \in others \cup {NoWindow} /\ (Replacement(w) = NoWindow <=> others = {})
  BY <1>1, <1>2, <1>3, <1>4
<1> QED  BY <1>5 DEF others

LEMMA AfterRetireThread ==
  ASSUME TypeInv, NEW t \in Threads, t[1] \in {"request", "watcher"},
         NEW w \in windows, NEW v \in (windows \ {w}) \cup {NoWindow}, NEW g \in Sizes,
         AfterRetire(t, w, v, g), UNCHANGED resizeMu
  PROVE  ThreadInv'
<1> USE DEF TypeInv
<1> DEFINE a == [NoArg EXCEPT !.win = w, !.next = v, !.size = g, !.redraw = (windows = {w})]
           b == [a EXCEPT !.then = "announcing"]
<1>1. \/ attachMu' = t /\ v # NoWindow /\ Goto(t, "activated", b)
      \/ UNCHANGED attachMu /\ Goto(t, "announcing", a)
  BY DEF AfterRetire
<1>2. windows \subseteq Windows /\ (windows = {w}) \in BOOLEAN
  BY MuxAssumption DEF WindowInv, Windows
<1>3. a \in ArgTypes /\ a.then = "idle" /\ a.next = v
  BY <1>2, NoArgTypes DEF ArgTypes, NoArg
<1>4. "announcing" \in AllErrands  BY PointTypes DEF Errands, Sorts
<1>5. b \in ArgTypes /\ b.then = "announcing" /\ b.next = v
  BY <1>3, <1>4 DEF ArgTypes
<1> HIDE DEF a, b
<1>6. ThreadOK(t[1], "announcing", a) /\ (v # NoWindow => ThreadOK(t[1], "activated", b))
  BY <1>2, <1>3, <1>5 DEF ThreadOK, Points, Errands, Sized
<1>7. {attachMu', resizeMu'} \subseteq Threads \cup {Free}
  BY <1>1 DEF ThreadInv
<1> QED  BY <1>1, <1>6, <1>7, GotoKeeps

(***************************************************************************)
(* The order of focus                                                      *)
(***************************************************************************)
LEMMA WithoutTypes ==
  ASSUME ClientInv, NEW c \in Registered
  PROVE  /\ Without(c) \in Seq(Clients) /\ Len(Without(c)) = Len(focus) - 1
         /\ IsInjective(Without(c)) /\ ToSet(Without(c)) = Registered \ {c}
         /\ Len(focus) \in Nat \ {0}
         /\ Last(focus) # c => Len(focus) > 1 /\ Last(Without(c)) = Last(focus)
<1> DEFINE p == CHOOSE i \in DOMAIN focus : focus[i] = c
           n == Len(focus)
<1>1. focus \in Seq(Clients) /\ n \in Nat /\ DOMAIN focus = 1 .. n  BY DEF ClientInv
<1>2. p \in 1 .. n /\ focus[p] = c
  <2>1. \E i \in DOMAIN focus : focus[i] = c  BY DEF Registered, ToSet
  <2> QED  BY <1>1, <2>1, Zenon
<1>3. Without(c) = RemoveAt(focus, p)  BY DEF Without
<1> HIDE DEF p
<1>4. /\ Without(c) \in Seq(Clients) /\ Len(Without(c)) = n - 1
      /\ \A i \in 1 .. n - 1 : Without(c)[i] = IF i < p THEN focus[i] ELSE focus[i + 1]
  BY <1>1, <1>2, <1>3, RemovedPlace
<1>5. \A i, j \in 1 .. n : focus[i] = focus[j] => i = j
  BY <1>1, Zenon DEF ClientInv, IsInjective
<1>6. DOMAIN Without(c) = 1 .. n - 1  BY <1>1, <1>4
<1>7. IsInjective(Without(c))
  <2>1. \A i, j \in 1 .. n - 1 : Without(c)[i] = Without(c)[j] => i = j
    BY <1>1, <1>2, <1>4, <1>5
  <2> QED  BY <1>6, <2>1, Zenon DEF IsInjective
<1>8. ToSet(Without(c)) = Registered \ {c}
  <2>1. \A i \in 1 .. n - 1 : Without(c)[i] \in Registered \ {c}
    BY <1>1, <1>2, <1>4, <1>5 DEF Registered, ToSet
  <2>2. ASSUME NEW d \in Registered \ {c}
        PROVE  \E i \in 1 .. n - 1 : Without(c)[i] = d
    <3>1. PICK j \in 1 .. n : focus[j] = d  BY <1>1 DEF Registered, ToSet
    <3>2. j # p  BY <1>2, <3>1
    <3>3. CASE j < p  BY <1>1, <1>2, <1>4, <3>1, <3>3
    <3>4. CASE j > p
      <4>1. j - 1 \in 1 .. n - 1 /\ ~(j - 1 < p) /\ (j - 1) + 1 = j  BY <1>1, <1>2, <3>1, <3>4
      <4> QED  BY <1>4, <3>1, <4>1
    <3> QED  BY <1>1, <1>2, <3>1, <3>2, <3>3, <3>4
  <2> QED  BY <1>6, <2>1, <2>2 DEF ToSet
<1>9. n \in Nat \ {0}  BY <1>1, <1>2
<1>10. ASSUME Last(focus) # c
       PROVE  n > 1 /\ Last(Without(c)) = Last(focus)
  <2>1. focus[n] # c  BY <1>10 DEF Last
  <2>2. p # n  BY <1>2, <2>1
  <2> HIDE DEF n
  <2>3. n > 1 /\ n - 1 \in 1 .. n - 1 /\ ~(n - 1 < p) /\ (n - 1) + 1 = n  BY <1>1, <1>2, <2>2
  <2>4. Without(c)[n - 1] = focus[n]  BY <1>4, <2>3
  <2>5. Last(Without(c)) = Without(c)[n - 1]  BY <1>4 DEF Last
  <2>6. Last(focus) = focus[n]  BY DEF Last, n
  <2> QED  BY <2>3, <2>4, <2>5, <2>6
<1> QED  BY <1>4, <1>7, <1>8, <1>9, <1>10

LEMMA RefocusedTypes ==
  ASSUME ClientInv, NEW c \in Clients
  PROVE  /\ Refocused(c) \in Seq(Clients) /\ IsInjective(Refocused(c))
         /\ ToSet(Refocused(c)) = Registered \cup {c}
         /\ Refocused(c) # <<>> /\ Last(Refocused(c)) = c
<1> DEFINE s == Without(c)
           n == Len(s)
<1>1. s \in Seq(Clients) /\ IsInjective(s) /\ ToSet(s) = Registered \ {c}
  <2>1. CASE c \in Registered  BY <2>1, WithoutTypes
  <2>2. CASE c \notin Registered
    <3>1. s = focus  BY <2>2 DEF Without
    <3> QED  BY <2>2, <3>1 DEF ClientInv, Registered
  <2> QED  BY <2>1, <2>2
<1> HIDE DEF s
<1>2. n \in Nat /\ DOMAIN s = 1 .. n  BY <1>1
<1>3. Refocused(c) = Append(s, c)  BY DEF Refocused, s
<1>4. /\ Append(s, c) \in Seq(Clients) /\ Len(Append(s, c)) = n + 1
      /\ \A i \in 1 .. n : Append(s, c)[i] = s[i]
      /\ Append(s, c)[n + 1] = c /\ DOMAIN Append(s, c) = 1 .. n + 1
  BY <1>1, <1>2
<1>5. \A i \in 1 .. n : s[i] # c
  BY <1>1, <1>2 DEF ToSet
<1>6. \A i, j \in 1 .. n : s[i] = s[j] => i = j
  BY <1>1, <1>2, Zenon DEF IsInjective
<1>7. IsInjective(Append(s, c))
  <2>1. \A i, j \in 1 .. n + 1 : Append(s, c)[i] = Append(s, c)[j] => i = j
    BY <1>2, <1>4, <1>5, <1>6
  <2> QED  BY <1>4, <2>1, Zenon DEF IsInjective
<1>8. ToSet(Append(s, c)) = ToSet(s) \cup {c}
  <2>1. 1 .. n + 1 = (1 .. n) \cup {n + 1}  BY <1>2
  <2> QED  BY <1>2, <1>4, <2>1 DEF ToSet
<1> QED  BY <1>1, <1>2, <1>3, <1>4, <1>7, <1>8 DEF Last

LEMMA SuccessorTypes ==
  ASSUME ClientInv, NEW c \in Registered
  PROVE  /\ Successor(c) \in Clients \cup {NoClient}
         /\ Successor(c) = IF Without(c) = <<>> THEN NoClient ELSE Last(Without(c))
<1> DEFINE s == Without(c)
<1>1. s \in Seq(Clients) /\ Len(s) = Len(focus) - 1 /\ Len(focus) \in Nat \ {0}
  BY WithoutTypes
<1>2. Successor(c) = IF Len(focus) = 1 THEN NoClient ELSE Last(s)  BY DEF Successor
<1> HIDE DEF s
<1>3. s = <<>> <=> Len(focus) = 1
  <2>1. s = <<>> => Len(s) = 0  BY EmptySeq
  <2>2. s # <<>> => Len(s) \in Nat \ {0}  BY <1>1, EmptySeq
  <2> QED  BY <1>1, <2>1, <2>2
<1>4. s # <<>> => Last(s) \in Clients  BY <1>1 DEF Last
<1> QED  BY <1>2, <1>3, <1>4 DEF s

LEMMA WindowThreads ==
  ASSUME TypeInv, NEW t \in Threads,
         \/ AdmitStart(t) \/ StartProcess(t) \/ PublishWindow(t) \/ RejectWindow(t)
         \/ KillRejected(t) \/ ShowNewWindow(t) \/ Select(t) \/ ShowActivated(t)
         \/ SelectQuietly(t) \/ BeginClose(t) \/ StopBridge(t) \/ StopBridgeFails(t)
         \/ CommitClose(t) \/ AnnounceClosed(t)
  PROVE  ThreadInv'
<1> USE DEF TypeInv
<1>1. t[1] \in Sorts /\ ThreadOK(t[1], pc[t], arg[t])  BY ThreadSorts DEF ThreadInv
<1>2. windows \subseteq Windows /\ size \in Grids /\ published \in Grids
  BY MuxAssumption DEF WindowInv, SizeInv, Windows
<1> DEFINE locks == {attachMu', resizeMu'} \subseteq Threads \cup {Free}
<1>3. CASE ShowActivated(t) \/ SelectQuietly(t) \/ StopBridgeFails(t)
  <2>1. Finish(t) /\ locks
    BY <1>3 DEF ShowActivated, SelectQuietly, StopBridgeFails, lockVars, ThreadInv
  <2> QED  BY <2>1, FinishKeeps
<1>4. CASE AdmitStart(t)
  <2> DEFINE a == [arg[t] EXCEPT !.size = published]
  <2>1. locks /\ pc[t] = "create" /\ (Goto(t, "idle", NoArg) \/ Goto(t, "starting", a))
    BY <1>4 DEF AdmitStart, lockVars, ThreadInv
  <2>2. a \in ArgTypes /\ a.size \in Grids /\ a.then = arg[t].then
    BY <1>1, <1>2 DEF ThreadOK, ArgTypes, Sizes
  <2>3. ThreadOK(t[1], "starting", a) /\ ThreadOK(t[1], "idle", NoArg)
    BY <1>1, <2>1, <2>2, NoArgTypes DEF ThreadOK, Points, Errands, Sorts, Sized, NoArg
  <2> QED  BY <2>1, <2>3, GotoKeeps
<1>5. CASE StartProcess(t) \/ RejectWindow(t) \/ KillRejected(t)
  <2>1. /\ locks /\ pc[t] \in {"starting", "started", "rejecting"}
        /\ \/ Goto(t, "idle", NoArg) \/ Goto(t, "rejecting", NoArg)
           \/ pc[t] = "starting" /\ Goto(t, "started", arg[t])
    BY <1>5 DEF StartProcess, RejectWindow, KillRejected, lockVars, ThreadInv
  <2>2. /\ ThreadOK(t[1], "idle", NoArg) /\ ThreadOK(t[1], "rejecting", NoArg)
        /\ pc[t] = "starting" => ThreadOK(t[1], "started", arg[t])
    BY <1>1, <2>1, NoArgTypes DEF ThreadOK, Points, Errands, Sorts, Sized, NoArg
  <2> QED  BY <2>1, <2>2, GotoKeeps
<1>6. CASE PublishWindow(t)
  <2> DEFINE a == [NoArg EXCEPT !.born = created + 1, !.redraw = FocusIsDue,
                                !.then = IF ResizeIsDue THEN "refreshResize" ELSE "idle"]
  <2>1. locks /\ pc[t] = "started" /\ created + 1 \in Windows /\ Goto(t, "shown", a)
    BY <1>6 DEF PublishWindow, lockVars, ThreadInv
  <2>2. "refreshResize" \in AllErrands /\ FocusIsDue \in BOOLEAN
    BY PointTypes, <1>1 DEF FocusIsDue, Errands, Sorts
  <2>3. a \in ArgTypes /\ a.then \in {"idle", "refreshResize"} /\ a.born \in Windows
    BY <2>1, <2>2, NoArgTypes, PointTypes DEF ArgTypes, NoArg
  <2>4. ThreadOK(t[1], "shown", a)
    BY <1>1, <2>1, <2>3 DEF ThreadOK, Points, Errands, Sorts, Sized
  <2> QED  BY <2>1, <2>4, GotoKeeps
<1>7. CASE ShowNewWindow(t)
  <2>1. locks /\ pc[t] = "shown" /\ (Finish(t) \/ Goto(t, "refreshFocus", arg[t]))
    BY <1>7 DEF ShowNewWindow, lockVars, ThreadInv
  <2>2. ThreadOK(t[1], "refreshFocus", arg[t])
    BY <1>1, <2>1 DEF ThreadOK, Points, Sorts, Sized
  <2> QED  BY <2>1, <2>2, FinishKeeps, GotoKeeps
<1>8. CASE Select(t)
  <2> DEFINE a == [arg[t] EXCEPT !.next = arg[t].win, !.size = size]
  <2>1. /\ locks /\ pc[t] = "select"
        /\ Finish(t) \/ (arg[t].win \in windows /\ Goto(t, "activated", a))
    BY <1>8 DEF Select, Open, ThreadInv
  <2>2. arg[t].win \in windows =>
          a \in ArgTypes /\ a.next \in Windows /\ a.then = arg[t].then
    BY <1>1, <1>2 DEF ThreadOK, ArgTypes, Sizes
  <2>3. arg[t].win \in windows => ThreadOK(t[1], "activated", a)
    BY <1>1, <2>1, <2>2 DEF ThreadOK, Points, Sorts, Sized
  <2> QED  BY <2>1, <2>3, FinishKeeps, GotoKeeps
<1>9. CASE BeginClose(t) \/ StopBridge(t)
  <2>1. /\ locks /\ pc[t] \in {"close", "stopping"}
        /\ Finish(t) \/ Goto(t, "stopping", arg[t]) \/ Goto(t, "commit", arg[t])
    BY <1>9 DEF BeginClose, StopBridge, lockVars, ThreadInv
  <2>2. ThreadOK(t[1], "stopping", arg[t]) /\ ThreadOK(t[1], "commit", arg[t])
    BY <1>1, <2>1 DEF ThreadOK, Points, Sorts, Sized
  <2> QED  BY <2>1, <2>2, FinishKeeps, GotoKeeps
<1>10. CASE AnnounceClosed(t)
  <2>1. locks /\ pc[t] = "announcing" /\ Goto(t, IF t[1] = "watcher" THEN "over" ELSE "idle", NoArg)
    BY <1>10 DEF AnnounceClosed, lockVars, ThreadInv
  <2>2. ThreadOK(t[1], IF t[1] = "watcher" THEN "over" ELSE "idle", NoArg)
    BY <1>1, <2>1, NoArgTypes DEF ThreadOK, Points, Errands, Sorts, Sized, NoArg
  <2> QED  BY <2>1, <2>2, GotoKeeps
<1>11. CASE CommitClose(t)
  <2> DEFINE w == arg[t].win
  <2>1. /\ pc[t] = "commit" /\ UNCHANGED resizeMu
        /\ \/ w \in windows /\ AfterRetire(t, w, Replacement(w), size)
           \/ Finish(t) /\ UNCHANGED attachMu
    BY <1>11 DEF CommitClose, Open
  <2>2. CASE Finish(t) /\ UNCHANGED attachMu
    BY <2>1, <2>2, FinishKeeps DEF ThreadInv
  <2>3. CASE w \in windows /\ AfterRetire(t, w, Replacement(w), size)
    <3>1. t[1] = "request"  BY <1>1, <2>1 DEF ThreadOK, Points, Sorts
    <3>2. Replacement(w) \in (windows \ {w}) \cup {NoWindow} /\ size \in Sizes
      BY <1>2, ReplacementTypes DEF Sizes
    <3> QED  BY <2>1, <2>3, <3>1, <3>2, AfterRetireThread
  <2> QED  BY <2>1, <2>2, <2>3
<1> QED  BY <1>3, <1>4, <1>5, <1>6, <1>7, <1>8, <1>9, <1>10, <1>11

LEMMA ClientThreads ==
  ASSUME TypeInv, NEW c \in Clients, ClientStep(c)
  PROVE  ThreadInv'
<1> DEFINE t == Attach(c)
           locks == {attachMu', resizeMu'} \subseteq Threads \cup {Free}
<1> USE DEF TypeInv
<1>1. t \in Threads /\ t[1] = "client" /\ ThreadOK("client", pc[t], arg[t])
  BY ThreadSorts DEF ThreadInv
<1> HIDE DEF t
<1>2. active \in Windows \cup {NoWindow} /\ PrimarySize(c, csize) \in Sizes
  BY MuxAssumption, PrimarySizeType DEF WindowInv, Windows, ClientInv, Sizes
<1>3. CASE ChooseTransition(c)
  BY <1>3, ThreadFrame DEF ChooseTransition, lockVars, ThreadInv
<1>4. CASE LockForAttach(c) \/ AbandonAttach(c) \/ LoseTransition(c) \/ RedrawAttached(c)
  <2>1. /\ locks
        /\ \E label \in {"registering", "away", "waiting", "attached"} : Goto(t, label, NoArg)
    BY <1>1, <1>4 DEF LockForAttach, AbandonAttach, LoseTransition, RedrawAttached, t, lockVars,
                      ThreadInv
  <2>2. \A label \in {"registering", "away", "waiting", "attached"} : ThreadOK("client", label, NoArg)
    BY NoArgTypes DEF ThreadOK, Points, Errands, Sized, NoArg
  <2> QED  BY <1>1, <2>1, <2>2, GotoKeeps
<1>5. CASE RegisterAttach(c)
  <2> DEFINE a == [NoArg EXCEPT !.win = active]
  <2>1. locks /\ Goto(t, "redrawing", a)
    BY <1>5 DEF RegisterAttach, t, ThreadInv
  <2>2. a \in ArgTypes /\ a.then = "idle"
    BY <1>2, NoArgTypes DEF ArgTypes, NoArg
  <2>3. ThreadOK("client", "redrawing", a)
    BY <2>2 DEF ThreadOK, Points, Errands, Sized
  <2> QED  BY <1>1, <2>1, <2>3, GotoKeeps
<1>6. CASE RemoveAttach(c)
  <2> DEFINE heir == IF primary = c THEN Successor(c) ELSE primary
             kept == IF heir = NoClient THEN published ELSE PrimarySize(heir, csize)
             a == [NoArg EXCEPT !.size = kept, !.then = "away"]
  <2>1. \/ UNCHANGED <<attachMu, resizeMu>> /\ Goto(t, "away", NoArg)
        \/ /\ attachMu' = attachMu /\ resizeMu' = t /\ c \in Registered
           /\ Goto(t, "resizing", a)
    BY <1>6, Zenon DEF RemoveAttach, t
  <2>2. c \in Registered => heir \in Clients \cup {NoClient}
    BY SuccessorTypes DEF ClientInv
  <2> HIDE DEF heir
  <2>3. c \in Registered => kept \in Grids
    BY <2>2, PrimarySizeType DEF ClientInv, SizeInv
  <2> HIDE DEF kept
  <2>4. "away" \in AllErrands  BY PointTypes DEF Errands, Sorts
  <2>5. c \in Registered => a \in ArgTypes /\ a.then = "away" /\ a.size \in Grids
    BY <2>3, <2>4, NoArgTypes DEF ArgTypes, Sizes, NoArg
  <2> HIDE DEF a
  <2>6. c \in Registered => ThreadOK("client", "resizing", a)
    BY <2>5 DEF ThreadOK, Points, Errands
  <2>7. ThreadOK("client", "away", NoArg)
    BY NoArgTypes DEF ThreadOK, Points, Errands, Sized, NoArg
  <2>8. locks  BY <1>1, <2>1 DEF ThreadInv
  <2> QED  BY <1>1, <2>1, <2>6, <2>7, <2>8, GotoKeeps
<1> QED  BY <1>3, <1>4, <1>5, <1>6 DEF ClientStep

LEMMA OutputThreads ==
  ASSUME TypeInv, NEW w \in Windows, WindowStep(w) \/ (\E mid \in BOOLEAN : BeginOutput(w, mid))
  PROVE  ThreadInv'
<1> DEFINE locks == {attachMu', resizeMu'} \subseteq Threads \cup {Free}
<1> USE DEF TypeInv
<1>1. /\ Reader(w) \in Threads /\ Reader(w)[1] = "reader"
      /\ Timer(w) \in Threads /\ Timer(w)[1] = "timer"
      /\ Watcher(w) \in Threads /\ Watcher(w)[1] = "watcher"
  BY ThreadSorts
<1>2. ASSUME NEW t \in {Reader(w), Timer(w)}, NEW f, NEW r, locks, Refresh(t, f, r),
             pc[t] \in {"idle", "writing", "ending"}
      PROVE  ThreadInv'
  <2> DEFINE label == IF f THEN "refreshFocus" ELSE IF r THEN "refreshResize" ELSE "idle"
             a == [arg[t] EXCEPT !.then = IF f /\ r THEN "refreshResize" ELSE "idle"]
  <2>1. Goto(t, label, a)  BY <1>2 DEF Refresh
  <2>2. t \in Threads /\ t[1] \in {"reader", "timer"} /\ ThreadOK(t[1], pc[t], arg[t])
    BY <1>1 DEF ThreadInv
  <2>3. "refreshResize" \in AllErrands /\ "idle" \in AllErrands
    BY PointTypes DEF Errands, Sorts
  <2>4. a \in ArgTypes /\ a.then \in {"idle", "refreshResize"}
    BY <2>2, <2>3 DEF ThreadOK, ArgTypes
  <2>5. label \in {"refreshFocus", "refreshResize", "idle"}  OBVIOUS
  <2> HIDE DEF label, a
  <2>6. ThreadOK(t[1], label, a)
    BY <2>2, <2>4, <2>5 DEF ThreadOK, Points, Errands, Sized
  <2> QED  BY <1>2, <2>1, <2>2, <2>6, GotoKeeps
<1>3. CASE EndOutput(w)
  <2>1. /\ locks /\ pc[Reader(w)] \in {"writing", "ending"}
        /\ \E f, r : Refresh(Reader(w), f, r)
    BY <1>3 DEF EndOutput, lockVars, ThreadInv
  <2> QED  BY <1>2, <2>1
<1>4. CASE ResumeForwarding(w)
  <2>1. locks /\ pc[Timer(w)] = "idle" /\ \E f, r : Refresh(Timer(w), f, r)
    BY <1>4 DEF ResumeForwarding, lockVars, ThreadInv
  <2> QED  BY <1>2, <2>1
<1>5. CASE RestoreGeometry(w)
  BY <1>5, ThreadFrame DEF RestoreGeometry, lockVars, ThreadInv
<1>6. CASE MarkWindowClosed(w)
  <2> DEFINE others == windows \ {w}
             v == IF others = {} THEN NoWindow ELSE Min(others)
  <2>1. /\ UNCHANGED resizeMu
        /\ \/ w \in windows /\ AfterRetire(Watcher(w), w, v, NoGrid)
           \/ UNCHANGED attachMu /\ Goto(Watcher(w), "over", NoArg)
    BY <1>6 DEF MarkWindowClosed, Open
  <2>2. v \in others \cup {NoWindow}
    <3>1. windows \subseteq Nat  BY MuxAssumption DEF WindowInv
    <3> QED  BY <3>1, MinIsMember
  <2> HIDE DEF v
  <2>3. ThreadOK("watcher", "over", NoArg)
    BY NoArgTypes DEF ThreadOK, Points, Errands, Sized, NoArg
  <2>4. CASE UNCHANGED attachMu /\ Goto(Watcher(w), "over", NoArg)
    <3>1. locks  BY <2>1, <2>4 DEF ThreadInv
    <3> QED  BY <1>1, <2>3, <2>4, <3>1, GotoKeeps
  <2>5. CASE w \in windows /\ AfterRetire(Watcher(w), w, v, NoGrid)
    <3>1. NoGrid \in Sizes  BY DEF Sizes
    <3> QED  BY <1>1, <2>1, <2>2, <2>5, <3>1, AfterRetireThread
  <2> QED  BY <2>1, <2>4, <2>5
<1>7. ASSUME NEW mid \in BOOLEAN, BeginOutput(w, mid)
      PROVE  ThreadInv'
  <2>1. locks /\ (Goto(Reader(w), "writing", NoArg) \/ Goto(Reader(w), "ending", NoArg))
    BY <1>7 DEF BeginOutput, lockVars, ThreadInv
  <2>2. ThreadOK("reader", "writing", NoArg) /\ ThreadOK("reader", "ending", NoArg)
    BY NoArgTypes DEF ThreadOK, Points, Errands, Sized, NoArg
  <2> QED  BY <1>1, <2>1, <2>2, GotoKeeps
<1> QED  BY <1>3, <1>4, <1>5, <1>6, <1>7 DEF WindowStep

LEMMA UserThreads ==
  ASSUME TypeInv, UserStep
  PROVE  ThreadInv'
<1> DEFINE locks == {attachMu', resizeMu'} \subseteq Threads \cup {Free}
<1> USE DEF TypeInv
<1>1. /\ \A c \in Clients : Attach(c) \in Threads /\ Attach(c)[1] = "client"
                            /\ ThreadOK("client", pc[Attach(c)], arg[Attach(c)])
      /\ \A r \in Requests : Request(r) \in Threads /\ Request(r)[1] = "request"
  BY ThreadSorts DEF ThreadInv
<1>2. /\ ThreadOK("client", "waiting", NoArg) /\ ThreadOK("client", "leaving", NoArg)
      /\ \A c \in Clients :
           ThreadOK("client", "focus", [NoArg EXCEPT !.client = c, !.redraw = TRUE])
  <2>1. \A c \in Clients : [NoArg EXCEPT !.client = c, !.redraw = TRUE] \in ArgTypes
    BY NoArgTypes DEF ArgTypes, NoArg
  <2> QED  BY <2>1, NoArgTypes DEF ThreadOK, Points, Errands, Sized, NoArg
<1>3. ASSUME NEW c \in Clients,
             (\E g \in Grids : BeginAttach(c, g)) \/ Interact(c) \/ Disconnect(c)
      PROVE  ThreadInv'
  <2>1. /\ locks
        /\ \/ Goto(Attach(c), "waiting", NoArg) \/ Goto(Attach(c), "leaving", NoArg)
           \/ Goto(Attach(c), "focus", [NoArg EXCEPT !.client = c, !.redraw = TRUE])
    BY <1>3 DEF BeginAttach, Interact, Disconnect, lockVars, ThreadInv
  <2> QED  BY <1>1, <1>2, <2>1, GotoKeeps
<1>4. ASSUME NEW c \in Clients, ClaimFocus(c)
      PROVE  ThreadInv'
  <2>1. CASE c \in Registered
    <3>1. TakeFocus(Attach(c), c, NoGrid, TRUE) /\ UNCHANGED attachMu /\ pc[Attach(c)] = "attached"
      BY <1>4, <2>1 DEF ClaimFocus
    <3>2. NoGrid \in Sizes  BY DEF Sizes
    <3> QED  BY <1>1, <2>1, <3>1, <3>2, TakeFocusThread
  <2>2. CASE c \notin Registered
    BY <1>4, <2>2, ThreadFrame DEF ClaimFocus, ThreadInv
  <2> QED  BY <2>1, <2>2
<1>5. ASSUME (\E c \in Clients : AmbiguousEscape(c)) \/ (\E w \in Windows : ProcessExit(w))
             \/ AskShutdown
      PROVE  ThreadInv'
  BY <1>5, ThreadFrame DEF AmbiguousEscape, ProcessExit, AskShutdown, lockVars, ThreadInv
<1>6. ASSUME NEW r \in Requests, NEW event, NEW label, NEW a, Ask(r, event, label, a),
             ThreadOK("request", label, a)
      PROVE  ThreadInv'
  <2>1. locks /\ Goto(Request(r), label, a)
    BY <1>6 DEF Ask, lockVars, ThreadInv
  <2> QED  BY <1>1, <1>6, <2>1, GotoKeeps
<1>7. ASSUME NEW r \in Requests, NEW c \in Registered \cup {NoClient}
      PROVE  /\ AskTheme(r) => ThreadInv'
             /\ \A kind \in Kinds : AskCreate(r, c, kind) => ThreadInv'
             /\ \A label \in {"select", "quiet", "close"}, w \in 1 .. created :
                  AskWindow(r, c, label, w) => ThreadInv'
             /\ \A g \in Grids : AskResize(r, c, g) => ThreadInv'
             /\ \A g \in Grids, redraw \in BOOLEAN : AskFocus(r, c, g, redraw) => ThreadInv'
  <2>1. c \in Clients \cup {NoClient} /\ active \in Windows \cup {NoWindow}
        /\ 1 .. created \subseteq Windows
    BY RegisteredTypes, MuxAssumption DEF WindowInv, Windows
  <2>2. AskTheme(r) => ThreadInv'
    <3>1. [NoArg EXCEPT !.pin = active] \in ArgTypes  BY <2>1, NoArgTypes DEF ArgTypes, NoArg
    <3>2. ThreadOK("request", "theme", [NoArg EXCEPT !.pin = active])
      BY <3>1 DEF ThreadOK, Points, Errands, Sized, NoArg
    <3> QED  BY <1>6, <3>2 DEF AskTheme
  <2>3. ASSUME NEW kind \in Kinds, AskCreate(r, c, kind)
        PROVE  ThreadInv'
    <3>1. /\ [NoArg EXCEPT !.kind = kind] \in ArgTypes
          /\ [NoArg EXCEPT !.client = c, !.kind = kind, !.then = "create"] \in ArgTypes
      <4>1. "create" \in AllErrands  BY PointTypes DEF Errands, Sorts
      <4> QED  BY <2>1, <4>1, NoArgTypes, MuxAssumption DEF ArgTypes, KindTypes, NoArg
    <3>2. /\ ThreadOK("request", "create", [NoArg EXCEPT !.kind = kind])
          /\ ThreadOK("request", "focus", [NoArg EXCEPT !.client = c, !.kind = kind, !.then = "create"])
      BY <3>1 DEF ThreadOK, Points, Errands, Sized, NoArg
    <3> QED  BY <1>6, <2>3, <3>2 DEF AskCreate
  <2>4. ASSUME NEW label \in {"select", "quiet", "close"}, NEW w \in 1 .. created,
               AskWindow(r, c, label, w)
        PROVE  ThreadInv'
    <3>1. [NoArg EXCEPT !.client = c, !.win = w, !.then = label] \in ArgTypes
      <4>1. label \in AllErrands  BY PointTypes DEF Errands, Sorts
      <4> QED  BY <2>1, <4>1, NoArgTypes DEF ArgTypes, NoArg
    <3>2. ThreadOK("request", "focus", [NoArg EXCEPT !.client = c, !.win = w, !.then = label])
      BY <3>1 DEF ThreadOK, Points, Errands, Sized, NoArg
    <3> QED  BY <1>6, <2>4, <3>2 DEF AskWindow
  <2>5. ASSUME NEW g \in Grids, AskResize(r, c, g)
        PROVE  ThreadInv'
    <3>1. [NoArg EXCEPT !.client = c, !.size = g] \in ArgTypes
      BY <2>1, NoArgTypes DEF ArgTypes, Sizes, NoArg
    <3>2. ThreadOK("request", "resize", [NoArg EXCEPT !.client = c, !.size = g])
      BY <3>1 DEF ThreadOK, Points, Errands, NoArg
    <3> QED  BY <1>6, <2>5, <3>2 DEF AskResize
  <2>6. ASSUME NEW g \in Grids, NEW redraw \in BOOLEAN, AskFocus(r, c, g, redraw)
        PROVE  ThreadInv'
    <3>1. [NoArg EXCEPT !.client = c, !.size = g, !.redraw = redraw] \in ArgTypes
      BY <2>1, NoArgTypes DEF ArgTypes, Sizes, NoArg
    <3>2. ThreadOK("request", "focus", [NoArg EXCEPT !.client = c, !.size = g, !.redraw = redraw])
      BY <3>1 DEF ThreadOK, Points, Errands, Sized, NoArg
    <3> QED  BY <1>6, <2>6, <3>2 DEF AskFocus
  <2> QED  BY <2>2, <2>3, <2>4, <2>5, <2>6
<1>8. ASSUME NEW w \in Windows, NEW mid \in BOOLEAN, BeginOutput(w, mid)
      PROVE  ThreadInv'
  BY <1>8, OutputThreads
<1> QED  BY <1>3, <1>4, <1>5, <1>7, <1>8 DEF UserStep

LEMMA FocusThread ==
  ASSUME TypeInv, NEW t \in Threads, Focus(t)
  PROVE  ThreadInv'
<1> DEFINE c == IF arg[t].client = NoClient THEN primary ELSE arg[t].client
<1>1. /\ UNCHANGED attachMu /\ pc[t] = "focus"
      /\ \/ c \in Registered /\ TakeFocus(t, c, arg[t].size, arg[t].redraw)
         \/ Finish(t) /\ UNCHANGED resizeMu
  BY DEF Focus
<1>2. arg[t].size \in Sizes /\ arg[t].redraw \in BOOLEAN
  BY DEF TypeInv, ThreadInv, ArgTypes
<1> HIDE DEF c
<1>3. CASE Finish(t) /\ UNCHANGED resizeMu
  BY <1>1, <1>3, FinishKeeps DEF TypeInv, ThreadInv
<1>4. CASE c \in Registered /\ TakeFocus(t, c, arg[t].size, arg[t].redraw)
  BY <1>1, <1>2, <1>4, TakeFocusThread
<1> QED  BY <1>1, <1>3, <1>4

LEMMA ThreadInvStep ==
  ASSUME TypeInv, [Next]_vars
  PROVE  ThreadInv'
<1>1. ASSUME NEW t \in Threads, ThreadStep(t)
      PROVE  ThreadInv'
  BY <1>1, ResizeThreads, FocusThread, WindowThreads DEF ThreadStep
<1>2. CASE ServerStep
  BY <1>2, ThreadFrame DEF ServerStep, BeginServerClose, TearDown, EndServerClose, lockVars,
                           TypeInv, ThreadInv
<1>3. CASE UNCHANGED vars
  BY <1>3, ThreadFrame DEF vars, lockVars, TypeInv, ThreadInv
<1> QED  BY <1>1, <1>2, <1>3, UserThreads, ClientThreads, OutputThreads DEF Next

(***************************************************************************)
(* Types of the rest of the state                                          *)
(***************************************************************************)
\* What Retire does to the list, for any replacement of the window.
LEMMA RetireTypes ==
  ASSUME WindowInv, NEW w \in windows, NEW v \in (windows \ {w}) \cup {NoWindow},
         v = NoWindow <=> windows \ {w} = {}, Retire(w, v), UNCHANGED <<created, transition>>
  PROVE  WindowInv' /\ windows' = windows \ {w} /\ (active = w => active' # w)
<1>1. windows \subseteq Nat \ {0}
  <2>1. created \in Nat /\ windows \subseteq 1 .. created  BY MuxAssumption DEF WindowInv
  <2> QED  BY <2>1
<1>2. windows' = windows \ {w} /\ last' \in {last, NoWindow}
      /\ active' = (IF active # w THEN active ELSE v)
  BY DEF Retire, Activate
<1> QED  BY <1>1, <1>2, MuxAssumption DEF WindowInv, NoWindow

LEMMA WindowInvStep ==
  ASSUME TypeInv, [Next]_vars
  PROVE  WindowInv'
<1> USE DEF TypeInv
<1> DEFINE frame == UNCHANGED <<windows, created, active, last>>
<1>0. created \in Nat /\ windows \subseteq 1 .. created /\ active \in 0 .. created
      /\ \A w \in windows : w # NoWindow
  BY MuxAssumption DEF WindowInv, NoWindow
<1>1. ASSUME frame, transition' \in {transition, active, NoWindow}
      PROVE  WindowInv'
  BY <1>0, <1>1 DEF WindowInv, NoWindow
<1>2. ASSUME NEW t \in Threads,
        \/ ResizeWithRedraw(t) \/ ResizeForClient(t) \/ ForceRedraw(t)
        \/ RefreshPendingFocus(t) \/ RefreshPendingResize(t)
        \/ Focus(t) \/ ReplayFocused(t) \/ RedrawFocused(t)
        \/ AdmitStart(t) \/ StartProcess(t) \/ RejectWindow(t) \/ KillRejected(t)
        \/ ShowNewWindow(t) \/ ShowActivated(t)
        \/ BeginClose(t) \/ StopBridge(t) \/ StopBridgeFails(t)
      PROVE  WindowInv'
  <2>1. frame /\ UNCHANGED transition
    BY <1>2 DEF ResizeWithRedraw, ResizeForClient, ForceRedraw, RefreshPendingFocus,
      RefreshPendingResize, Focus, ReplayFocused, RedrawFocused, AdmitStart, StartProcess,
      RejectWindow, KillRejected, ShowNewWindow, ShowActivated, BeginClose, StopBridge,
      StopBridgeFails, windowVars, otherVars
  <2> QED  BY <1>1, <2>1
<1>3. ASSUME NEW t \in Threads, AnnounceClosed(t)
      PROVE  WindowInv'
  <2>1. frame /\ UNCHANGED transition  BY <1>3 DEF AnnounceClosed
  <2> QED  BY <1>1, <2>1
<1>4. ASSUME NEW t \in Threads, PublishWindow(t)
      PROVE  WindowInv'
  <2>1. /\ created + 1 \in Windows /\ created' = created + 1
        /\ windows' = windows \cup {created + 1} /\ active' = created + 1
        /\ last' \in {last, active} /\ UNCHANGED transition
    BY <1>4 DEF PublishWindow, otherVars
  <2> QED  BY <1>0, <2>1 DEF WindowInv, Windows, NoWindow
<1>5. ASSUME NEW t \in Threads, Select(t) \/ SelectQuietly(t)
      PROVE  WindowInv'
  <2>1. /\ UNCHANGED <<windows, created, transition>>
        /\ active' = active \/ active' \in windows
        /\ last' = last \/ last' = active
    BY <1>5 DEF Select, SelectQuietly, Activate, Open, otherVars
  <2> QED  BY <1>0, <2>1 DEF WindowInv
<1>6. ASSUME NEW t \in Threads, CommitClose(t)
      PROVE  WindowInv'
  <2>1. CASE Open(arg[t].win)
    <3>1. Retire(arg[t].win, Replacement(arg[t].win)) /\ UNCHANGED <<created, transition>>
          /\ arg[t].win \in windows
      BY <1>6, <2>1 DEF CommitClose, Open
    <3> QED  BY <3>1, RetireTypes, ReplacementTypes
  <2>2. CASE ~Open(arg[t].win)
    <3>1. frame /\ UNCHANGED transition  BY <1>6, <2>2 DEF CommitClose
    <3> QED  BY <1>1, <3>1
  <2> QED  BY <2>1, <2>2
<1>7. ASSUME NEW w \in Windows,
        \/ EndOutput(w) \/ ResumeForwarding(w) \/ RestoreGeometry(w) \/ ProcessExit(w)
        \/ \E mid \in BOOLEAN : BeginOutput(w, mid)
      PROVE  WindowInv'
  <2>1. frame /\ UNCHANGED transition
    BY <1>7 DEF EndOutput, ResumeForwarding, RestoreGeometry, ProcessExit, BeginOutput, otherVars
  <2> QED  BY <1>1, <2>1
<1>8. ASSUME NEW w \in Windows, MarkWindowClosed(w)
      PROVE  WindowInv'
  <2> DEFINE others == windows \ {w}
             v == IF others = {} THEN NoWindow ELSE Min(others)
  <2>1. CASE Open(w)
    <3>1. Retire(w, v) /\ UNCHANGED <<created, transition>> /\ w \in windows
      BY <1>8, <2>1 DEF MarkWindowClosed, Open, otherVars
    <3>2. v \in others \cup {NoWindow} /\ (v = NoWindow <=> others = {})
      <4>0. windows \subseteq Nat  BY <1>0
      <4>1. others \subseteq Nat  BY <4>0
      <4>2. others # {} => Min(others) \in others  BY <4>1, MinIsMember
      <4> QED  BY <1>0, <4>2
    <3> HIDE DEF v
    <3> QED  BY <3>1, <3>2, RetireTypes
  <2>2. CASE ~Open(w)
    <3>1. frame /\ UNCHANGED transition  BY <1>8, <2>2 DEF MarkWindowClosed, otherVars
    <3> QED  BY <1>1, <3>1
  <2> QED  BY <2>1, <2>2
<1>9. ASSUME NEW c \in Clients, ClientStep(c)
      PROVE  WindowInv'
  <2>1. frame /\ transition' \in {transition, active, NoWindow}
    BY <1>9 DEF ClientStep, ChooseTransition, LockForAttach, AbandonAttach, LoseTransition,
      RegisterAttach, RedrawAttached, RemoveAttach, windowVars, otherVars
  <2> QED  BY <1>1, <2>1
<1>10. CASE ServerStep
  <2>1. frame /\ UNCHANGED transition
    BY <1>10 DEF ServerStep, BeginServerClose, TearDown, EndServerClose, windowVars
  <2> QED  BY <1>1, <2>1
<1>11. ASSUME NEW c \in Clients,
         \/ \E g \in Grids : BeginAttach(c, g)
         \/ Interact(c) \/ Disconnect(c) \/ AmbiguousEscape(c) \/ ClaimFocus(c)
       PROVE  WindowInv'
  <2>1. frame /\ UNCHANGED transition
    BY <1>11 DEF BeginAttach, Interact, Disconnect, AmbiguousEscape, ClaimFocus, windowVars, otherVars
  <2> QED  BY <1>1, <2>1
<1>12. ASSUME NEW r, NEW event, NEW label, NEW a, Ask(r, event, label, a)
       PROVE  WindowInv'
  <2>1. frame /\ UNCHANGED transition  BY <1>12 DEF Ask, windowVars
  <2> QED  BY <1>1, <2>1
<1>13. CASE AskShutdown
  <2>1. frame /\ UNCHANGED transition  BY <1>13 DEF AskShutdown, windowVars
  <2> QED  BY <1>1, <2>1
<1>14. CASE UNCHANGED vars
  <2>1. frame /\ UNCHANGED transition  BY <1>14 DEF vars, windowVars, otherVars
  <2> QED  BY <1>1, <2>1
<1>15. CASE UserStep
  BY <1>7, <1>11, <1>12, <1>13, <1>15
  DEF UserStep, AskTheme, AskCreate, AskWindow, AskResize, AskFocus
<1> QED
  BY <1>2, <1>3, <1>4, <1>5, <1>6, <1>7, <1>8, <1>9, <1>10, <1>14, <1>15
  DEF Next, ThreadStep, WindowStep

(***************************************************************************)
(* Sizes, focus and grids                                                  *)
(***************************************************************************)
LEMMA ClosedForGood ==
  ASSUME TypeInv, [Next]_vars
  PROVE  Closed => Closed'
<1>1. ASSUME NEW t \in Threads, ThreadStep(t)
      PROVE  closing' = closing \/ closing = "no"
  <2>1. ASSUME \/ ResizeWithRedraw(t) \/ ResizeForClient(t) \/ ForceRedraw(t)
               \/ RefreshPendingFocus(t) \/ RefreshPendingResize(t)
               \/ Focus(t) \/ ReplayFocused(t) \/ RedrawFocused(t)
               \/ AdmitStart(t) \/ StartProcess(t) \/ PublishWindow(t) \/ RejectWindow(t)
               \/ KillRejected(t) \/ ShowNewWindow(t) \/ Select(t) \/ ShowActivated(t)
               \/ SelectQuietly(t) \/ BeginClose(t) \/ StopBridge(t) \/ StopBridgeFails(t)
        PROVE  closing' = closing
    BY <2>1 DEF ResizeWithRedraw, ResizeForClient, ForceRedraw, RefreshPendingFocus,
      RefreshPendingResize, Focus, ReplayFocused, RedrawFocused, AdmitStart, StartProcess,
      PublishWindow, RejectWindow, KillRejected, ShowNewWindow, Select, ShowActivated,
      SelectQuietly, BeginClose, StopBridge, StopBridgeFails, otherVars
  <2>2. CASE CommitClose(t)  BY <2>2, Zenon DEF CommitClose
  <2>3. CASE AnnounceClosed(t)  BY <2>3, Zenon DEF AnnounceClosed
  <2> QED  BY <1>1, <2>1, <2>2, <2>3 DEF ThreadStep
<1>2. ASSUME NEW c \in Clients, ClientStep(c)
      PROVE  closing' = closing
  BY <1>2 DEF ClientStep, ChooseTransition, LockForAttach, AbandonAttach, LoseTransition,
    RegisterAttach, RedrawAttached, RemoveAttach, otherVars
<1>3. ASSUME NEW w \in Windows, WindowStep(w) \/ ProcessExit(w)
             \/ \E mid \in BOOLEAN : BeginOutput(w, mid)
      PROVE  closing' = closing
  BY <1>3 DEF WindowStep, EndOutput, ResumeForwarding, RestoreGeometry, MarkWindowClosed,
    ProcessExit, BeginOutput, otherVars
<1>4. CASE ServerStep
  BY <1>4 DEF ServerStep, BeginServerClose, TearDown, EndServerClose, Closed
<1>5. ASSUME NEW c \in Clients,
         \/ \E g \in Grids : BeginAttach(c, g)
         \/ Interact(c) \/ Disconnect(c) \/ AmbiguousEscape(c) \/ ClaimFocus(c)
      PROVE  closing' = closing
  BY <1>5 DEF BeginAttach, Interact, Disconnect, AmbiguousEscape, ClaimFocus, otherVars
<1>6. ASSUME NEW r, NEW event, NEW label, NEW a, Ask(r, event, label, a)
      PROVE  closing' = closing
  BY <1>6 DEF Ask
<1>7. CASE UserStep
  BY <1>3, <1>5, <1>6, <1>7
  DEF UserStep, AskTheme, AskCreate, AskWindow, AskResize, AskFocus, AskShutdown, Closed
<1>8. CASE UNCHANGED vars
  BY <1>8 DEF vars, otherVars, Closed
<1> QED  BY <1>1, <1>2, <1>3, <1>4, <1>7, <1>8 DEF Next, Closed

DeskInv == SizeInv /\ ClientInv /\ PrimaryIsLatest /\ GridsAgree

LEMMA DeskFrame ==
  ASSUME DeskInv, UNCHANGED <<size, published, pendResize, primary, focus, grid>>,
         pendFocus' \in {pendFocus, NoClient},
         csize' \in [Clients -> Sizes], claims' \subseteq Clients, Closed => Closed'
  PROVE  DeskInv'
<1>1. SizeInv' /\ ClientInv'
  BY DEF DeskInv, SizeInv, ClientInv, Sizes
<1>2. PrimaryIsLatest'
  BY DEF DeskInv, PrimaryIsLatest
<1>3. Registered' = Registered  BY DEF Registered
<1>4. GridsAgree'
  BY <1>3 DEF DeskInv, GridsAgree
<1> QED  BY <1>1, <1>2, <1>4 DEF DeskInv

\* Everybody who clips is told the grid that is published.
LEMMA TellAll ==
  ASSUME ClientInv, NEW clients, NEW g \in Grids, Registered' \subseteq clients,
         published' = g, grid' = GridFor(clients, g)
  PROVE  grid' \in [Clients -> Sizes] /\ GridsAgree'
<1>1. grid' = [c \in Clients |-> IF c \in clients \cap Clipping THEN g ELSE grid[c]]
  BY DEF GridFor
<1>2. grid' \in [Clients -> Sizes]  BY <1>1 DEF ClientInv, Sizes
<1>3. \A c \in Clients : c \in clients \cap Clipping => grid'[c] = g  BY <1>1
<1> QED  BY <1>2, <1>3, MuxAssumption DEF GridsAgree

LEMMA TakeFocusDesk ==
  ASSUME TypeInv, DeskInv, NEW t \in Threads, NEW c \in Registered, NEW g \in Sizes,
         NEW handoff \in BOOLEAN, TakeFocus(t, c, g, handoff),
         UNCHANGED <<size, published, pendResize, grid>>, Closed => Closed'
  PROVE  DeskInv'
<1>1. c \in Clients  BY RegisteredTypes DEF TypeInv
<1>2. /\ csize' = [csize EXCEPT ![c] = IF g = NoGrid THEN csize[c] ELSE g]
      /\ pendFocus' = (IF primary = c THEN pendFocus ELSE NoClient)
      /\ primary' = c /\ focus' = Refocused(c) /\ claims' = {}
  BY DEF TakeFocus
<1>3. SizeInv'  BY DEF DeskInv, SizeInv, Sizes
<1>4. /\ Refocused(c) \in Seq(Clients) /\ IsInjective(Refocused(c))
      /\ ToSet(Refocused(c)) = Registered
      /\ Refocused(c) # <<>> /\ Last(Refocused(c)) = c
  BY <1>1, RefocusedTypes DEF DeskInv
<1>5. ClientInv'
  <2>1. csize' \in [Clients -> Sizes]  BY <1>1, <1>2 DEF DeskInv, ClientInv
  <2> QED  BY <1>1, <1>2, <1>4, <2>1 DEF DeskInv, ClientInv
<1>6. PrimaryIsLatest'
  BY <1>2, <1>4 DEF DeskInv, PrimaryIsLatest
<1>7. Registered' = Registered  BY <1>2, <1>4 DEF Registered
<1>8. GridsAgree'  BY <1>7 DEF DeskInv, GridsAgree
<1> QED  BY <1>3, <1>5, <1>6, <1>8 DEF DeskInv

LEMMA ActivateDesk ==
  ASSUME TypeInv, DeskInv, NEW w, Activate(w), UNCHANGED <<size, primary, focus, csize, claims>>,
         Closed => Closed'
  PROVE  DeskInv'
<1>1. /\ pendFocus' = NoClient /\ pendResize' = NoResize
      /\ published' = size /\ grid' = GridFor(Registered, size)
  BY DEF Activate
<1>2. Registered' = Registered  BY DEF Registered
<1>3. SizeInv'  BY <1>1 DEF DeskInv, SizeInv, NoResize, Sizes
<1>4. grid' \in [Clients -> Sizes] /\ GridsAgree'
  BY <1>1, <1>2, TellAll DEF DeskInv, SizeInv
<1>5. ClientInv'  BY <1>1, <1>4 DEF DeskInv, ClientInv
<1>6. PrimaryIsLatest'  BY <1>1 DEF DeskInv, PrimaryIsLatest
<1> QED  BY <1>3, <1>4, <1>5, <1>6 DEF DeskInv

LEMMA RetireDesk ==
  ASSUME TypeInv, DeskInv, NEW w, NEW v, Retire(w, v),
         UNCHANGED <<size, primary, focus, csize, claims>>, Closed => Closed'
  PROVE  DeskInv'
<1>1. CASE Activate(v)  BY <1>1, ActivateDesk
<1>2. CASE UNCHANGED <<published, pendResize, grid>> /\ pendFocus' \in {pendFocus, NoClient}
  BY <1>2, DeskFrame DEF DeskInv, ClientInv
<1> QED  BY <1>1, <1>2 DEF Retire

LEMMA ResizeDesk ==
  ASSUME TypeInv, DeskInv, NEW t \in Threads, ResizeWithRedraw(t), Closed => Closed'
  PROVE  DeskInv'
<1>1. /\ UNCHANGED <<pendFocus, primary, focus, csize, claims>> /\ pc[t] = "resizing"
      /\ \/ UNCHANGED <<size, published, pendResize, grid>>
         \/ PostponeResize(t) \/ PublishResize(t)
  BY DEF ResizeWithRedraw
<1>2. arg[t].size \in Grids /\ arg[t].pin \in Windows \cup {NoWindow}
  BY <1>1 DEF TypeInv, ThreadInv, ThreadOK, Sized, ArgTypes
<1>3. Registered' = Registered  BY <1>1 DEF Registered
<1>4. PrimaryIsLatest'  BY <1>1 DEF DeskInv, PrimaryIsLatest
<1>5. CASE UNCHANGED <<size, published, pendResize, grid>>
  BY <1>1, <1>5, DeskFrame DEF DeskInv, ClientInv
<1>6. CASE PostponeResize(t)
  <2>1. /\ size' = arg[t].size /\ UNCHANGED <<published, grid>>
        /\ pendResize' = [size |-> arg[t].size,
             theme |-> IF arg[t].pin # NoWindow THEN arg[t].pin ELSE pendResize.theme]
    BY <1>6 DEF PostponeResize
  <2>2. SizeInv'  BY <1>2, <2>1 DEF DeskInv, SizeInv, Sizes
  <2>3. ClientInv'  BY <1>1, <2>1 DEF DeskInv, ClientInv
  <2>4. GridsAgree'  BY <1>3, <2>1 DEF DeskInv, GridsAgree
  <2> QED  BY <1>4, <2>2, <2>3, <2>4 DEF DeskInv
<1>7. CASE PublishResize(t)
  <2>1. /\ size' = arg[t].size /\ published' = arg[t].size /\ pendResize' = NoResize
        /\ grid' = GridFor(Registered, arg[t].size)
    BY <1>7 DEF PublishResize
  <2>2. SizeInv'  BY <1>2, <2>1 DEF SizeInv, NoResize, Sizes
  <2>3. grid' \in [Clients -> Sizes] /\ GridsAgree'
    BY <1>2, <1>3, <2>1, TellAll DEF DeskInv
  <2>4. ClientInv'  BY <1>1, <2>3 DEF DeskInv, ClientInv
  <2> QED  BY <1>4, <2>2, <2>3, <2>4 DEF DeskInv
<1> QED  BY <1>1, <1>5, <1>6, <1>7

LEMMA ReplayDesk ==
  ASSUME TypeInv, DeskInv, NEW t \in Threads, ReplayFocused(t), Closed => Closed'
  PROVE  DeskInv'
<1> DEFINE c == arg[t].client
           g == arg[t].size
<1>1. /\ UNCHANGED <<primary, focus, csize, claims>> /\ pc[t] = "replay"
      /\ \/ UNCHANGED <<size, published, pendResize, pendFocus, grid>>
         \/ /\ primary = c /\ c \in Registered /\ size' = g /\ pendFocus' = c
            /\ UNCHANGED <<published, pendResize, grid>>
         \/ /\ pendFocus' = NoClient /\ pendResize' = NoResize
            /\ size' = g /\ published' = g /\ grid' = GridFor(Registered, g)
  BY DEF ReplayFocused, sizeVars
<1>2. g \in Grids  BY <1>1 DEF TypeInv, ThreadInv, ThreadOK, Sized
<1>3. Registered' = Registered  BY <1>1 DEF Registered
<1>4. CASE UNCHANGED <<size, published, pendResize, pendFocus, grid>>
  BY <1>1, <1>4, DeskFrame DEF DeskInv, ClientInv
<1>5. CASE /\ primary = c /\ c \in Registered /\ size' = g /\ pendFocus' = c
           /\ UNCHANGED <<published, pendResize, grid>>
  <2>1. SizeInv'  BY <1>2, <1>5 DEF DeskInv, SizeInv, Sizes
  <2>2. ClientInv'  BY <1>1, <1>5, RegisteredTypes DEF DeskInv, ClientInv
  <2>3. GridsAgree'  BY <1>3, <1>5 DEF DeskInv, GridsAgree
  <2>4. PrimaryIsLatest'  BY <1>1, <1>5 DEF DeskInv, PrimaryIsLatest
  <2> QED  BY <2>1, <2>2, <2>3, <2>4 DEF DeskInv
<1>6. CASE /\ pendFocus' = NoClient /\ pendResize' = NoResize
           /\ size' = g /\ published' = g /\ grid' = GridFor(Registered, g)
  <2>1. SizeInv'  BY <1>2, <1>6 DEF SizeInv, NoResize, Sizes
  <2>2. grid' \in [Clients -> Sizes] /\ GridsAgree'
    BY <1>2, <1>3, <1>6, TellAll DEF DeskInv
  <2>3. ClientInv'  BY <1>1, <1>6, <2>2 DEF DeskInv, ClientInv
  <2>4. PrimaryIsLatest'  BY <1>1, <1>6 DEF DeskInv, PrimaryIsLatest
  <2> QED  BY <2>1, <2>2, <2>3, <2>4 DEF DeskInv
<1> QED  BY <1>1, <1>4, <1>5, <1>6

LEMMA AttachDesk ==
  ASSUME TypeInv, DeskInv, NEW c \in Clients, RegisterAttach(c) \/ RemoveAttach(c),
         Closed => Closed'
  PROVE  DeskInv'
<1>1. CASE RegisterAttach(c)
  <2> DEFINE g == PrimarySize(c, csize)
  <2>1. /\ primary' = c /\ focus' = Refocused(c) /\ claims' = {} /\ UNCHANGED csize
        /\ pendFocus' = NoClient /\ pendResize' = NoResize
        /\ size' = g /\ published' = g /\ grid' = GridFor(Registered \cup {c}, g)
    BY <1>1 DEF RegisterAttach
  <2>2. g \in Grids  BY PrimarySizeType DEF DeskInv, ClientInv
  <2> HIDE DEF g
  <2>3. /\ Refocused(c) \in Seq(Clients) /\ IsInjective(Refocused(c))
        /\ ToSet(Refocused(c)) = Registered \cup {c}
        /\ Refocused(c) # <<>> /\ Last(Refocused(c)) = c
    BY RefocusedTypes DEF DeskInv
  <2>4. Registered' = Registered \cup {c}  BY <2>1, <2>3 DEF Registered
  <2>5. SizeInv'  BY <2>1, <2>2 DEF SizeInv, NoResize, Sizes
  <2>6. grid' \in [Clients -> Sizes] /\ GridsAgree'
    BY <2>1, <2>2, <2>4, TellAll DEF DeskInv
  <2>7. ClientInv'  BY <2>1, <2>3, <2>6 DEF DeskInv, ClientInv
  <2>8. PrimaryIsLatest'  BY <2>1, <2>3 DEF PrimaryIsLatest
  <2> QED  BY <2>5, <2>6, <2>7, <2>8 DEF DeskInv
<1>2. CASE RemoveAttach(c) /\ c \notin Registered
  <2>1. /\ UNCHANGED <<size, published, pendResize, pendFocus, primary, focus, csize, grid>>
        /\ claims' = claims \ {c}
    BY <1>2, Zenon DEF RemoveAttach
  <2> QED  BY <2>1, DeskFrame DEF DeskInv, ClientInv
<1>3. CASE RemoveAttach(c) /\ c \in Registered
  <2> DEFINE heir == IF primary = c THEN Successor(c) ELSE primary
             kept == IF heir = NoClient THEN published ELSE PrimarySize(heir, csize)
  <2>1. /\ focus' = Without(c) /\ primary' = heir
        /\ pendFocus' = (IF pendFocus = c THEN NoClient ELSE pendFocus)
        /\ \/ size' = kept /\ pendResize' = NoResize
           \/ UNCHANGED <<size, pendResize>>
        /\ claims' = claims \ {c} /\ UNCHANGED <<published, csize, grid>>
    BY <1>3, Zenon DEF RemoveAttach
  <2>2. /\ Successor(c) \in Clients \cup {NoClient}
        /\ Successor(c) = IF Without(c) = <<>> THEN NoClient ELSE Last(Without(c))
    BY <1>3, SuccessorTypes DEF DeskInv
  <2>3. heir \in Clients \cup {NoClient}  BY <2>2 DEF DeskInv, ClientInv
  <2>4. kept \in Grids  BY <2>3, PrimarySizeType DEF DeskInv, ClientInv, SizeInv
  <2>5. /\ Without(c) \in Seq(Clients) /\ Len(Without(c)) = Len(focus) - 1
        /\ IsInjective(Without(c)) /\ ToSet(Without(c)) = Registered \ {c}
        /\ Len(focus) \in Nat \ {0}
        /\ Last(focus) # c => Len(focus) > 1 /\ Last(Without(c)) = Last(focus)
    BY <1>3, WithoutTypes DEF DeskInv
  <2> HIDE DEF kept
  <2>6. SizeInv'  BY <2>1, <2>4 DEF DeskInv, SizeInv, NoResize, Sizes
  <2>7. ClientInv'
    BY <2>1, <2>3, <2>5 DEF DeskInv, ClientInv
  <2>8. Registered' = Registered \ {c}  BY <2>1, <2>5 DEF Registered
  <2>9. GridsAgree'  BY <2>1, <2>8 DEF DeskInv, GridsAgree
  <2>10. PrimaryIsLatest'
    <3>1. ASSUME ~Closed
          PROVE  /\ heir = IF Without(c) = <<>> THEN NoClient ELSE Last(Without(c))
                 /\ pendFocus' \in {NoClient, heir}
      <4>1. primary = Last(focus) /\ pendFocus \in {NoClient, primary}
        <5>1. focus # <<>>  BY <2>5, EmptySeq
        <5> QED  BY <3>1, <5>1 DEF DeskInv, PrimaryIsLatest
      <4>2. CASE primary = c  BY <2>1, <2>2, <4>1, <4>2
      <4>3. CASE primary # c
        <5>1. Len(Without(c)) # 0  BY <2>5, <4>1, <4>3
        <5>2. Without(c) # <<>>  BY <5>1, EmptySeq
        <5> QED  BY <2>1, <2>5, <4>1, <4>3, <5>2
      <4> QED  BY <4>2, <4>3
    <3> QED  BY <2>1, <3>1 DEF PrimaryIsLatest
  <2> QED  BY <2>6, <2>7, <2>9, <2>10 DEF DeskInv
<1> QED  BY <1>1, <1>2, <1>3

LEMMA DeskStep ==
  ASSUME TypeInv, DeskInv, [Next]_vars
  PROVE  DeskInv'
<1> DEFINE frame == UNCHANGED <<size, published, pendResize, primary, focus, grid>>
<1>0. Closed => Closed'  BY ClosedForGood
<1>1. ASSUME frame, pendFocus' \in {pendFocus, NoClient}, UNCHANGED <<csize, claims>>
      PROVE  DeskInv'
  BY <1>0, <1>1, DeskFrame DEF DeskInv, ClientInv
<1>2. ASSUME NEW t \in Threads,
        \/ ForceRedraw(t) \/ RefreshPendingFocus(t) \/ RefreshPendingResize(t) \/ RedrawFocused(t)
        \/ AdmitStart(t) \/ StartProcess(t) \/ PublishWindow(t) \/ RejectWindow(t)
        \/ KillRejected(t) \/ ShowNewWindow(t) \/ ShowActivated(t) \/ SelectQuietly(t)
        \/ BeginClose(t) \/ StopBridge(t) \/ StopBridgeFails(t)
      PROVE  DeskInv'
  <2>1. frame /\ pendFocus' \in {pendFocus, NoClient} /\ UNCHANGED <<csize, claims>>
    BY <1>2 DEF ForceRedraw, RefreshPendingFocus, RefreshPendingResize, RedrawFocused, AdmitStart,
      StartProcess, PublishWindow, RejectWindow, KillRejected, ShowNewWindow, ShowActivated,
      SelectQuietly, BeginClose, StopBridge, StopBridgeFails, sizeVars, clientVars
  <2> QED  BY <1>1, <2>1
<1>3. ASSUME NEW t \in Threads, ResizeForClient(t)
      PROVE  DeskInv'
  <2> DEFINE c == IF arg[t].client = NoClient THEN primary ELSE arg[t].client
  <2>1. /\ frame /\ UNCHANGED <<pendFocus, claims>>
        /\ csize' \in {csize, [csize EXCEPT ![c] = arg[t].size]}
    BY <1>3 DEF ResizeForClient, sizeVars
  <2>2. arg[t].size \in Sizes  BY DEF TypeInv, ThreadInv, ArgTypes
  <2>3. csize' \in [Clients -> Sizes] /\ claims' \subseteq Clients
    BY <2>1, <2>2 DEF DeskInv, ClientInv
  <2> QED  BY <1>0, <2>1, <2>3, DeskFrame
<1>4. ASSUME NEW t \in Threads, Focus(t)
      PROVE  DeskInv'
  <2> DEFINE c == IF arg[t].client = NoClient THEN primary ELSE arg[t].client
  <2>1. /\ UNCHANGED <<size, published, pendResize, grid>>
        /\ \/ c \in Registered /\ TakeFocus(t, c, arg[t].size, arg[t].redraw)
           \/ UNCHANGED <<csize, pendFocus, primary, focus, claims>>
    BY <1>4 DEF Focus
  <2>2. arg[t].size \in Sizes /\ arg[t].redraw \in BOOLEAN
    BY DEF TypeInv, ThreadInv, ArgTypes
  <2> HIDE DEF c
  <2> QED  BY <1>0, <1>1, <2>1, <2>2, TakeFocusDesk
<1>5. ASSUME NEW t \in Threads, CommitClose(t)
      PROVE  DeskInv'
  <2>1. /\ UNCHANGED <<size, primary, focus, csize, claims>>
        /\ \/ Retire(arg[t].win, Replacement(arg[t].win))
           \/ UNCHANGED <<published, pendFocus, pendResize, grid>>
    BY <1>5, Zenon DEF CommitClose
  <2> QED  BY <1>0, <1>1, <2>1, RetireDesk
<1>6. ASSUME NEW t \in Threads, Select(t)
      PROVE  DeskInv'
  <2>1. /\ UNCHANGED <<size, primary, focus, csize, claims>>
        /\ \/ Activate(arg[t].win)
           \/ UNCHANGED <<published, pendFocus, pendResize, grid>>
    BY <1>6, Zenon DEF Select
  <2> QED  BY <1>0, <1>1, <2>1, ActivateDesk
<1>7. ASSUME NEW t \in Threads, AnnounceClosed(t)
      PROVE  DeskInv'
  <2>1. UNCHANGED <<sizeVars, clientVars>>  BY <1>7, Zenon DEF AnnounceClosed
  <2> QED  BY <1>1, <2>1 DEF sizeVars, clientVars
<1>8. ASSUME NEW t \in Threads, ThreadStep(t)
      PROVE  DeskInv'
  BY <1>0, <1>2, <1>3, <1>4, <1>5, <1>6, <1>7, <1>8, ResizeDesk, ReplayDesk DEF ThreadStep
<1>9. ASSUME NEW w \in Windows,
        \/ EndOutput(w) \/ ResumeForwarding(w) \/ RestoreGeometry(w) \/ ProcessExit(w)
        \/ \E mid \in BOOLEAN : BeginOutput(w, mid)
      PROVE  DeskInv'
  <2>1. UNCHANGED <<sizeVars, clientVars>>
    BY <1>9 DEF EndOutput, ResumeForwarding, RestoreGeometry, ProcessExit, BeginOutput
  <2> QED  BY <1>1, <2>1 DEF sizeVars, clientVars
<1>10. ASSUME NEW w \in Windows, MarkWindowClosed(w)
       PROVE  DeskInv'
  <2>1. /\ UNCHANGED <<size, primary, focus, csize, claims>>
        /\ \/ \E v : Retire(w, v)
           \/ UNCHANGED <<published, pendFocus, pendResize, grid>>
    BY <1>10, Zenon DEF MarkWindowClosed
  <2> QED  BY <1>0, <1>1, <2>1, RetireDesk
<1>11. ASSUME NEW c \in Clients,
         ChooseTransition(c) \/ LockForAttach(c) \/ AbandonAttach(c) \/ LoseTransition(c)
         \/ RedrawAttached(c)
       PROVE  DeskInv'
  <2>1. UNCHANGED <<sizeVars, clientVars>>
    BY <1>11 DEF ChooseTransition, LockForAttach, AbandonAttach, LoseTransition, RedrawAttached
  <2> QED  BY <1>1, <2>1 DEF sizeVars, clientVars
<1>12. ASSUME NEW c \in Clients, ClientStep(c)
       PROVE  DeskInv'
  BY <1>0, <1>11, <1>12, AttachDesk DEF ClientStep
<1>13. ASSUME NEW c \in Clients,
         (\E g \in Grids : BeginAttach(c, g)) \/ Interact(c) \/ Disconnect(c) \/ AmbiguousEscape(c)
       PROVE  DeskInv'
  <2>1. /\ frame /\ UNCHANGED pendFocus
        /\ csize' = csize \/ \E g \in Grids : csize' = [csize EXCEPT ![c] = g]
        /\ claims' \in {claims, claims \cup {c}}
    BY <1>13 DEF BeginAttach, Interact, Disconnect, AmbiguousEscape, sizeVars, clientVars
  <2>2. csize' \in [Clients -> Sizes] /\ claims' \subseteq Clients
    BY <2>1 DEF DeskInv, ClientInv, Sizes
  <2> QED  BY <1>0, <2>1, <2>2, DeskFrame
<1>14. ASSUME NEW c \in Clients, ClaimFocus(c)
       PROVE  DeskInv'
  <2>1. CASE c \in Registered
    <3>1. TakeFocus(Attach(c), c, NoGrid, TRUE) /\ UNCHANGED <<size, published, pendResize, grid>>
      BY <1>14, <2>1 DEF ClaimFocus
    <3>2. NoGrid \in Sizes /\ Attach(c) \in Threads  BY ThreadSorts DEF Sizes
    <3> QED  BY <1>0, <2>1, <3>1, <3>2, TakeFocusDesk
  <2>2. CASE c \notin Registered
    <3>1. /\ frame /\ UNCHANGED <<pendFocus, csize>> /\ claims' = claims \ {c}
      BY <1>14, <2>2 DEF ClaimFocus
    <3> QED  BY <1>0, <3>1, DeskFrame DEF DeskInv, ClientInv
  <2> QED  BY <2>1, <2>2
<1>15. ASSUME NEW r, NEW event, NEW label, NEW a, Ask(r, event, label, a)
       PROVE  DeskInv'
  <2>1. UNCHANGED <<sizeVars, clientVars>>  BY <1>15 DEF Ask
  <2> QED  BY <1>1, <2>1 DEF sizeVars, clientVars
<1>16. CASE AskShutdown \/ TearDown \/ EndServerClose \/ UNCHANGED vars
  <2>1. UNCHANGED <<sizeVars, clientVars>>
    BY <1>16 DEF AskShutdown, TearDown, EndServerClose, vars
  <2> QED  BY <1>1, <2>1 DEF sizeVars, clientVars
<1>17. CASE BeginServerClose
  <2>1. /\ UNCHANGED <<size, published, pendResize, pendFocus, csize, grid, claims>>
        /\ primary' = NoClient /\ focus' = <<>> /\ closing' = "begun"
    BY <1>17 DEF BeginServerClose, sizeVars
  <2>2. <<>> \in Seq(Clients) /\ IsInjective(<<>>)  BY DEF IsInjective
  <2>3. SizeInv' /\ ClientInv'
    BY <2>1, <2>2 DEF DeskInv, SizeInv, ClientInv, Sizes
  <2> QED  BY <2>1, <2>3 DEF DeskInv, PrimaryIsLatest, GridsAgree, Closed
<1>18. CASE UserStep
  BY <1>9, <1>13, <1>14, <1>15, <1>16, <1>18
  DEF UserStep, AskTheme, AskCreate, AskWindow, AskResize, AskFocus
<1> QED  BY <1>8, <1>9, <1>10, <1>12, <1>16, <1>17, <1>18 DEF Next, WindowStep, ServerStep

(***************************************************************************)
(* Windows                                                                 *)
(***************************************************************************)
SameLife(r, q) ==
  /\ q.kind = r.kind /\ q.process = r.process /\ q.bridge = r.bridge
  /\ q.closing = r.closing /\ q.announced = r.announced

\* Only screens change.
Repaints == WinInv' /\ \A w \in Windows : SameLife(win[w], win'[w])

LEMMA OpenIsListed ==
  ASSUME WindowInv, NEW w, Open(w)
  PROVE  w \in Windows /\ w \in windows
<1>1. created \in 0 .. MaxWindows /\ windows \subseteq 1 .. created /\ w \in windows
  BY DEF WindowInv, Open
<1> QED  BY <1>1, MuxAssumption DEF Windows

LEMMA ScreenTypes ==
  ASSUME NEW r \in WinTypes, NEW g \in Sizes
  PROVE  /\ Resized(r, g) \in WinTypes /\ SameLife(r, Resized(r, g))
         /\ Danced(r, g) \in WinTypes /\ SameLife(r, Danced(r, g))
         /\ Delivered(r, g) \in WinTypes /\ SameLife(r, Delivered(r, g))
<1>1. Resized(r, g) \in WinTypes /\ SameLife(r, Resized(r, g))
  BY MuxAssumption DEF Resized, WinTypes, SameLife, Sizes
<1>2. Danced(r, g) \in WinTypes /\ SameLife(r, Danced(r, g))
  BY MuxAssumption DEF Danced, WinTypes, SameLife, Sizes
<1> QED  BY <1>1, <1>2 DEF Delivered

LEMMA PauseTypes ==
  ASSUME NEW r \in WinTypes
  PROVE  PausedForRedraw(r) \in WinTypes /\ SameLife(r, PausedForRedraw(r))
  BY DEF PausedForRedraw, WinTypes, SameLife

LEMMA SameLifeFollows ==
  ASSUME NEW r, NEW q, NEW s, SameLife(r, q), SameLife(q, s)
  PROVE  SameLife(r, s)
  BY Zenon DEF SameLife

LEMMA ChangeRepaints ==
  ASSUME WinInv, WindowInv, NEW w, NEW r,
         Open(w) => r \in WinTypes /\ SameLife(win[w], r), win' \in {win, Change(w, r)}
  PROVE  Repaints
<1>1. CASE win' = win
  BY <1>1 DEF WinInv, Repaints, SameLife, WinTypes
<1>2. CASE Open(w) /\ win' = [win EXCEPT ![w] = r]
  <2>1. w \in Windows /\ windows \subseteq Windows
    BY <1>2, MuxAssumption DEF WindowInv, Windows, Open
  <2>2. r \in WinTypes /\ SameLife(win[w], r)  BY <1>2
  <2>3. WinInv'  BY <1>2, <2>1, <2>2 DEF WinInv
  <2>4. \A v \in Windows : win'[v] = IF v = w THEN r ELSE win[v]
    BY <1>2, <2>1 DEF WinInv
  <2>5. \A v \in Windows : SameLife(win[v], win'[v])
    <3> TAKE v \in Windows
    <3>1. CASE v = w  BY <2>2, <2>4, <3>1
    <3>2. CASE v # w  BY <2>4, <3>2 DEF SameLife
    <3> QED  BY <3>1, <3>2
  <2> QED  BY <2>3, <2>5 DEF Repaints
<1> QED  BY <1>1, <1>2 DEF Change

\* The window w is made to repaint at the size g.
LEMMA DeliveryRepaints ==
  ASSUME WinInv, WindowInv, NEW w, NEW g \in Sizes,
         win' \in {win, Change(w, Delivered(PausedForRedraw(win[w]), g)), Change(w, Resized(win[w], g))}
  PROVE  Repaints
<1>1. ASSUME Open(w)
      PROVE  /\ Delivered(PausedForRedraw(win[w]), g) \in WinTypes
             /\ SameLife(win[w], Delivered(PausedForRedraw(win[w]), g))
             /\ Resized(win[w], g) \in WinTypes /\ SameLife(win[w], Resized(win[w], g))
  <2>1. win[w] \in WinTypes
    BY <1>1, MuxAssumption DEF WinInv, WindowInv, Windows, Open
  <2> QED  BY <2>1, ScreenTypes, PauseTypes, SameLifeFollows
<1> QED  BY <1>1, ChangeRepaints

LEMMA ThreadRepaints ==
  ASSUME TypeInv, NEW t \in Threads,
         \/ ResizeWithRedraw(t) \/ ReplayFocused(t) \/ RedrawFocused(t)
         \/ ShowNewWindow(t) \/ ShowActivated(t) \/ CommitClose(t)
  PROVE  Repaints
<1> USE DEF TypeInv
<1>1. published \in Sizes /\ arg[t].size \in Sizes
  BY DEF SizeInv, Sizes, ThreadInv, ArgTypes
<1>2. CASE ResizeWithRedraw(t)
  <2> DEFINE g == arg[t].size
             resized == Resized(win[active], g)
             danced == Danced(PausedForRedraw(resized), g)
  <2>1. win' \in {win, Change(active, resized), Change(active, danced)}
    BY <1>2 DEF ResizeWithRedraw, PostponeResize, PublishResize
  <2>2. ASSUME Open(active)
        PROVE  /\ resized \in WinTypes /\ SameLife(win[active], resized)
               /\ danced \in WinTypes /\ SameLife(win[active], danced)
    <3>0. active \in Windows  BY <2>2, OpenIsListed
    <3>1. win[active] \in WinTypes  BY <3>0 DEF WinInv
    <3>2. resized \in WinTypes /\ SameLife(win[active], resized)
      BY <1>1, <3>1, ScreenTypes
    <3> HIDE DEF resized
    <3>3. danced \in WinTypes /\ SameLife(PausedForRedraw(resized), danced)
          /\ SameLife(resized, PausedForRedraw(resized))
      BY <1>1, <3>2, ScreenTypes, PauseTypes
    <3> HIDE DEF danced
    <3> QED  BY <3>2, <3>3, SameLifeFollows
  <2> HIDE DEF resized, danced
  <2> QED  BY <2>1, <2>2, ChangeRepaints
<1>3. CASE ReplayFocused(t)
  <2>1. win' \in {win, Change(active, Resized(win[active], arg[t].size))}
    BY <1>3 DEF ReplayFocused
  <2> QED  BY <1>1, <2>1, DeliveryRepaints
<1>4. CASE RedrawFocused(t)
  <2>1. win' \in {win, Change(arg[t].win, Delivered(PausedForRedraw(win[arg[t].win]), published))}
    BY <1>4 DEF RedrawFocused
  <2> QED  BY <1>1, <2>1, DeliveryRepaints
<1>5. ASSUME NEW w, win' = Shown(w)
      PROVE  Repaints
  <2>1. Shown(w) \in {Change(w, win[w]), Change(w, Delivered(PausedForRedraw(win[w]), published))}
    BY DEF Shown
  <2>2. CASE win' = Change(w, win[w])
    <3>1. win' = win  BY <2>2 DEF Change, WinInv
    <3> QED  BY <1>1, <3>1, DeliveryRepaints
  <2>3. CASE win' = Change(w, Delivered(PausedForRedraw(win[w]), published))
    BY <1>1, <2>3, DeliveryRepaints
  <2> QED  BY <1>5, <2>1, <2>2, <2>3
<1>6. CASE ShowNewWindow(t)
  BY <1>5, <1>6 DEF ShowNewWindow
<1>7. CASE ShowActivated(t)
  <2>1. win' = Change(arg[t].next, Resized(win[arg[t].next], arg[t].size)) \/ win' = Shown(arg[t].next)
    BY <1>7 DEF ShowActivated
  <2> QED  BY <1>1, <1>5, <2>1, DeliveryRepaints
<1>8. CASE CommitClose(t)
  <2>1. win' \in {win, Change(arg[t].win, Retired(win[arg[t].win]))}
    BY <1>8 DEF CommitClose, Change
  <2>2. ASSUME Open(arg[t].win)
        PROVE  Retired(win[arg[t].win]) \in WinTypes
               /\ SameLife(win[arg[t].win], Retired(win[arg[t].win]))
    <3>1. win[arg[t].win] \in WinTypes
      BY <2>2, OpenIsListed DEF WinInv
    <3> QED  BY <3>1 DEF Retired, WinTypes, SameLife
  <2> QED  BY <2>1, <2>2, ChangeRepaints
<1> QED  BY <1>2, <1>3, <1>4, <1>6, <1>7, <1>8

LEMMA OtherRepaints ==
  ASSUME TypeInv,
         \/ \E c \in Clients : RegisterAttach(c) \/ RedrawAttached(c)
         \/ \E w \in Windows : \/ EndOutput(w) \/ ResumeForwarding(w) \/ RestoreGeometry(w)
                               \/ MarkWindowClosed(w) \/ \E mid \in BOOLEAN : BeginOutput(w, mid)
         \/ BeginServerClose
  PROVE  Repaints
<1> USE DEF TypeInv
<1>1. ASSUME NEW c \in Clients, RegisterAttach(c)
      PROVE  Repaints
  <2>1. win' = Change(active, Resized(win[active], PrimarySize(c, csize)))
    BY <1>1 DEF RegisterAttach
  <2>2. PrimarySize(c, csize) \in Sizes  BY PrimarySizeType DEF ClientInv, Sizes
  <2> QED  BY <2>1, <2>2, DeliveryRepaints
<1>2. ASSUME NEW c \in Clients, RedrawAttached(c)
      PROVE  Repaints
  <2> DEFINE w == arg[Attach(c)].win
  <2>1. win' \in {win, Change(w, Delivered(PausedForRedraw(win[w]), published))}
    BY <1>2 DEF RedrawAttached
  <2>2. published \in Sizes  BY DEF SizeInv, Sizes
  <2> QED  BY <2>1, <2>2, DeliveryRepaints
<1>3. ASSUME NEW w \in Windows, NEW mid \in BOOLEAN, BeginOutput(w, mid)
      PROVE  Repaints
  <2> DEFINE r == [win[w] EXCEPT !.mid = mid, !.forwarding = (active = w /\ Registered # {})]
  <2>1. win' = Change(w, r)  BY <1>3 DEF BeginOutput
  <2>2. (active = w /\ Registered # {}) \in BOOLEAN  OBVIOUS
  <2>3. r \in WinTypes /\ SameLife(win[w], r)  BY <2>2 DEF WinInv, WinTypes, SameLife
  <2> HIDE DEF r
  <2> QED  BY <2>1, <2>3, ChangeRepaints
<1>4. ASSUME NEW w \in Windows, EndOutput(w)
      PROVE  Repaints
  <2> DEFINE r == [win[w] EXCEPT !.forwarding = FALSE]
  <2>1. win' = Change(w, r)  BY <1>4 DEF EndOutput
  <2>2. r \in WinTypes /\ SameLife(win[w], r)  BY DEF WinInv, WinTypes, SameLife
  <2> HIDE DEF r
  <2> QED  BY <2>1, <2>2, ChangeRepaints
<1>5. ASSUME NEW w \in Windows, ResumeForwarding(w)
      PROVE  Repaints
  <2>1. Open(w) /\ win' = [win EXCEPT ![w] = [win[w] EXCEPT !.paused = FALSE]]
    BY <1>5 DEF ResumeForwarding, WinInv
  <2>2. [win[w] EXCEPT !.paused = FALSE] \in WinTypes
        /\ SameLife(win[w], [win[w] EXCEPT !.paused = FALSE])
    BY DEF WinInv, WinTypes, SameLife
  <2> QED  BY <2>1, <2>2, ChangeRepaints DEF Change
<1>6. ASSUME NEW w \in Windows, NEW g \in Sizes, win' = [win EXCEPT ![w] = Resized(win[w], g)]
      PROVE  Repaints
  <2>1. Resized(win[w], g) \in WinTypes /\ SameLife(win[w], Resized(win[w], g))
    BY ScreenTypes DEF WinInv
  <2>2. WinInv'  BY <1>6, <2>1 DEF WinInv
  <2>3. \A v \in Windows : win'[v] = IF v = w THEN Resized(win[w], g) ELSE win[v]
    BY <1>6 DEF WinInv
  <2> QED  BY <2>1, <2>2, <2>3 DEF Repaints, SameLife
<1>7. ASSUME NEW w \in Windows, RestoreGeometry(w)
      PROVE  Repaints
  <2>1. win' = [win EXCEPT ![w] = Resized(win[w], win[w].dance)]  BY <1>7 DEF RestoreGeometry
  <2>2. win[w].dance \in Sizes  BY DEF WinInv, WinTypes
  <2> QED  BY <1>6, <2>1, <2>2
<1>8. ASSUME NEW w \in Windows, MarkWindowClosed(w)
      PROVE  Repaints
  <2> DEFINE others == windows \ {w}
             v == IF others = {} THEN NoWindow ELSE Min(others)
             retired == [win EXCEPT ![w] = Retired(win[w])]
  <2>1. win' \in {win, retired} \/ (v # NoWindow /\ win' = [retired EXCEPT ![v] = Resized(win[v], size)])
    BY <1>8, Zenon DEF MarkWindowClosed
  <2>2. retired \in [Windows -> WinTypes] /\ \A u \in Windows : SameLife(win[u], retired[u])
    <3>1. Retired(win[w]) \in WinTypes /\ SameLife(win[w], Retired(win[w]))
      BY DEF Retired, WinInv, WinTypes, SameLife
    <3>2. \A u \in Windows : retired[u] = IF u = w THEN Retired(win[w]) ELSE win[u]
      BY DEF WinInv
    <3> QED  BY <3>1, <3>2 DEF WinInv, SameLife
  <2>3. v # NoWindow => v \in Windows
    <3>1. windows \subseteq Nat /\ windows \subseteq Windows
      BY MuxAssumption DEF WindowInv, Windows
    <3>2. others # {} => Min(others) \in others  BY <3>1, MinIsMember
    <3> QED  BY <3>1, <3>2
  <2> HIDE DEF v, retired
  <2>4. CASE win' \in {win, retired}
    BY <2>2, <2>4 DEF Repaints, SameLife, WinInv
  <2>5. CASE v # NoWindow /\ win' = [retired EXCEPT ![v] = Resized(win[v], size)]
    <3>1. size \in Sizes /\ v \in Windows  BY <2>3, <2>5 DEF SizeInv, Sizes
    <3>2. Resized(win[v], size) \in WinTypes /\ SameLife(win[v], Resized(win[v], size))
      BY <3>1, ScreenTypes DEF WinInv
    <3>3. \A u \in Windows : win'[u] = IF u = v THEN Resized(win[v], size) ELSE retired[u]
      BY <2>2, <2>5
    <3>4. WinInv'  BY <2>2, <2>5, <3>2 DEF WinInv
    <3> QED  BY <2>2, <3>2, <3>3, <3>4 DEF Repaints
  <2> QED  BY <2>1, <2>4, <2>5
<1>9. CASE BeginServerClose
  <2>1. win' = [w \in Windows |-> [win[w] EXCEPT !.paused = FALSE]]
    BY <1>9 DEF BeginServerClose
  <2>2. \A w \in Windows : [win[w] EXCEPT !.paused = FALSE] \in WinTypes
                           /\ SameLife(win[w], [win[w] EXCEPT !.paused = FALSE])
    BY DEF WinInv, WinTypes, SameLife
  <2> QED  BY <2>1, <2>2 DEF Repaints, WinInv
<1> QED  BY <1>1, <1>2, <1>3, <1>4, <1>5, <1>7, <1>8, <1>9

\* The ways in which a window's process and bridge may change while it is in
\* its place: they only end.
Tame ==
  \A w \in Windows :
    /\ win'[w].announced = win[w].announced
    /\ win'[w].kind = win[w].kind
    /\ win'[w].closing => win'[w].bridge # "none"
    /\ win[w].bridge # "running" => win'[w].bridge # "running"
    /\ win'[w].process = "running" => win[w].process = "running"

LEMMA RepaintIsTame ==
  ASSUME CloseInv, Repaints
  PROVE  WinInv' /\ Tame
  BY DEF CloseInv, Repaints, SameLife, Tame

LEMMA ClosingTypes ==
  ASSUME NEW v \in Windows, WinInv
  PROVE  \A q : q = [win[v] EXCEPT !.closing = TRUE] \/ q = [win[v] EXCEPT !.closing = FALSE] =>
           /\ q \in WinTypes /\ q.announced = win[v].announced /\ q.kind = win[v].kind
           /\ q.bridge = win[v].bridge /\ q.process = win[v].process
<1> DEFINE r == win[v]
<1>1. r \in WinTypes  BY DEF WinInv
<1> HIDE DEF r
<1>2. /\ [r EXCEPT !.closing = TRUE] \in WinTypes /\ [r EXCEPT !.closing = FALSE] \in WinTypes
  BY <1>1 DEF WinTypes
<1>3. /\ [r EXCEPT !.closing = TRUE].announced = r.announced
      /\ [r EXCEPT !.closing = TRUE].kind = r.kind
      /\ [r EXCEPT !.closing = TRUE].bridge = r.bridge
      /\ [r EXCEPT !.closing = TRUE].process = r.process
  BY <1>1 DEF WinTypes
<1>4. /\ [r EXCEPT !.closing = FALSE].announced = r.announced
      /\ [r EXCEPT !.closing = FALSE].kind = r.kind
      /\ [r EXCEPT !.closing = FALSE].bridge = r.bridge
      /\ [r EXCEPT !.closing = FALSE].process = r.process
  BY <1>1 DEF WinTypes
<1> QED  BY <1>2, <1>3, <1>4, Zenon DEF r

LEMMA NextIsTame ==
  ASSUME TypeInv, CloseInv, [Next]_vars,
         \A t \in Threads : ~PublishWindow(t) /\ ~AnnounceClosed(t)
  PROVE  WinInv' /\ Tame
<1> USE DEF TypeInv
<1>0. ASSUME win' = win
      PROVE  WinInv' /\ Tame
  BY <1>0 DEF WinInv, Tame, CloseInv
<1>1. ASSUME NEW t \in Threads,
        \/ ResizeForClient(t) \/ ForceRedraw(t) \/ RefreshPendingFocus(t) \/ RefreshPendingResize(t)
        \/ Focus(t) \/ AdmitStart(t) \/ StartProcess(t) \/ RejectWindow(t) \/ KillRejected(t)
        \/ Select(t) \/ SelectQuietly(t)
      PROVE  win' = win
  BY <1>1 DEF ResizeForClient, ForceRedraw, RefreshPendingFocus, RefreshPendingResize, Focus,
    AdmitStart, StartProcess, RejectWindow, KillRejected, Select, SelectQuietly, windowVars
<1>2. ASSUME NEW w, NEW r, w \in Windows =>
               /\ r \in WinTypes /\ r.announced = win[w].announced /\ r.kind = win[w].kind
               /\ r.closing => r.bridge # "none"
               /\ win[w].bridge # "running" => r.bridge # "running"
               /\ r.process = "running" => win[w].process = "running",
             win' = [win EXCEPT ![w] = r]
      PROVE  WinInv' /\ Tame
  <2>1. CASE w \notin Windows
    <3>1. win' = win  BY <1>2, <2>1 DEF WinInv
    <3> QED  BY <1>0, <3>1
  <2>2. CASE w \in Windows
    <3>1. WinInv'  BY <1>2, <2>2 DEF WinInv
    <3>2. \A v \in Windows : win'[v] = IF v = w THEN r ELSE win[v]  BY <1>2 DEF WinInv
    <3>3. Tame
      <4> SUFFICES ASSUME NEW v \in Windows
                   PROVE  /\ win'[v].announced = win[v].announced
                          /\ win'[v].kind = win[v].kind
                          /\ win'[v].closing => win'[v].bridge # "none"
                          /\ win[v].bridge # "running" => win'[v].bridge # "running"
                          /\ win'[v].process = "running" => win[v].process = "running"
        BY DEF Tame
      <4>1. CASE v = w  BY <1>2, <2>2, <3>2, <4>1
      <4>2. CASE v # w  BY <3>2, <4>2 DEF CloseInv
      <4> QED  BY <4>1, <4>2
    <3> QED  BY <3>1, <3>3
  <2> QED  BY <2>1, <2>2
<1>3. ASSUME NEW t \in Threads, BeginClose(t)
      PROVE  WinInv' /\ Tame
  <2> DEFINE w == arg[t].win
  <2>1. \/ win' = win
        \/ win[w].bridge # "none" /\ win' = [win EXCEPT ![w].closing = TRUE]
    BY <1>3, Zenon DEF BeginClose
  <2>2. CASE win[w].bridge # "none" /\ win' = [win EXCEPT ![w].closing = TRUE]
    <3>1. win' = [win EXCEPT ![w] = [win[w] EXCEPT !.closing = TRUE]]
      BY <2>2 DEF WinInv
    <3> DEFINE r == [win[w] EXCEPT !.closing = TRUE]
    <3>2. w \in Windows =>
            /\ r \in WinTypes /\ r.announced = win[w].announced /\ r.kind = win[w].kind
            /\ r.bridge = win[w].bridge /\ r.process = win[w].process
      BY ClosingTypes, Zenon DEF r
    <3> HIDE DEF r
    <3>3. win' = [win EXCEPT ![w] = r]  BY <3>1 DEF r
    <3>4. win[w].bridge # "none"  BY <2>2
    <3> QED  BY <1>2, <3>2, <3>3, <3>4
  <2> QED  BY <1>0, <2>1, <2>2
<1>4. ASSUME NEW t \in Threads, StopBridge(t)
      PROVE  WinInv' /\ Tame
  <2> DEFINE w == arg[t].win
             r == [win[w] EXCEPT !.bridge = "stopped"]
  <2>1. win' = [win EXCEPT ![w] = r]  BY <1>4 DEF StopBridge, WinInv
  <2>2. w \in Windows =>
          /\ r \in WinTypes /\ r.announced = win[w].announced /\ r.kind = win[w].kind
          /\ r.bridge = "stopped" /\ r.process = win[w].process
    BY DEF WinInv, WinTypes
  <2> HIDE DEF r
  <2> QED  BY <1>2, <2>1, <2>2
<1>5. ASSUME NEW t \in Threads, StopBridgeFails(t)
      PROVE  WinInv' /\ Tame
  <2> DEFINE w == arg[t].win
             r == [win[w] EXCEPT !.closing = FALSE]
  <2>1. win' = win \/ win' = [win EXCEPT ![w] = r]  BY <1>5 DEF StopBridgeFails, Change
  <2>2. w \in Windows =>
          /\ r \in WinTypes /\ r.announced = win[w].announced /\ r.kind = win[w].kind
          /\ ~r.closing /\ r.bridge = win[w].bridge /\ r.process = win[w].process
    <3> SUFFICES ASSUME w \in Windows
                 PROVE  /\ r \in WinTypes /\ r.announced = win[w].announced
                        /\ r.kind = win[w].kind
                        /\ ~r.closing /\ r.bridge = win[w].bridge /\ r.process = win[w].process
      OBVIOUS
    <3>1. /\ r \in WinTypes /\ r.announced = win[w].announced /\ r.kind = win[w].kind
          /\ r.bridge = win[w].bridge /\ r.process = win[w].process
      BY ClosingTypes, Zenon DEF r
    <3>2. win[w] \in WinTypes  BY DEF WinInv
    <3>3. r.closing = FALSE  BY <3>2 DEF WinTypes
    <3> HIDE DEF r
    <3> QED  BY <3>1, <3>3, Zenon
  <2> HIDE DEF r
  <2> QED  BY <1>0, <1>2, <2>1, <2>2
<1>6. ASSUME NEW w \in Windows, ProcessExit(w)
      PROVE  WinInv' /\ Tame
  <2> DEFINE r == [win[w] EXCEPT !.process = "ended"]
  <2>1. win' = [win EXCEPT ![w] = r]  BY <1>6 DEF ProcessExit, WinInv
  <2>2. /\ r \in WinTypes /\ r.announced = win[w].announced /\ r.kind = win[w].kind
        /\ r.closing = win[w].closing /\ r.bridge = win[w].bridge /\ r.process = "ended"
    BY DEF WinInv, WinTypes
  <2> HIDE DEF r
  <2> QED  BY <1>2, <2>1, <2>2 DEF CloseInv
<1>7. CASE TearDown
  <2>1. PICK stopped \in SUBSET {w \in windows : win[w].bridge = "running"} :
          win' = [w \in Windows |->
            [win[w] EXCEPT !.process = IF w \in windows /\ @ = "running" THEN "hungup" ELSE @,
                           !.bridge  = IF w \in stopped THEN "stopped" ELSE @]]
    BY <1>7 DEF TearDown
  <2>2. \A w \in Windows :
          /\ win'[w] \in WinTypes /\ win'[w].announced = win[w].announced
          /\ win'[w].kind = win[w].kind
          /\ win'[w].closing = win[w].closing /\ win'[w].bridge \in {win[w].bridge, "stopped"}
          /\ win'[w].process = "running" => win[w].process = "running"
    <3> TAKE w \in Windows
    <3> DEFINE p == IF w \in windows /\ win[w].process = "running" THEN "hungup" ELSE win[w].process
               b == IF w \in stopped THEN "stopped" ELSE win[w].bridge
    <3>1. win'[w] = [win[w] EXCEPT !.process = p, !.bridge = b]
      BY <2>1 DEF WinInv, WinTypes
    <3>2. win[w] \in WinTypes  BY DEF WinInv
    <3>3. /\ p \in {"none", "running", "hungup", "ended"} /\ b \in {win[w].bridge, "stopped"}
          /\ p = "running" => win[w].process = "running"
          /\ b \in {"none", "running", "stopped"}
      BY <3>2 DEF WinTypes
    <3> HIDE DEF p, b
    <3> QED  BY <3>1, <3>2, <3>3 DEF WinTypes
  <2>3. WinInv'  BY <2>1, <2>2 DEF WinInv
  <2> QED  BY <2>2, <2>3 DEF Tame, CloseInv
<1>8. ASSUME NEW c \in Clients, ChooseTransition(c) \/ LockForAttach(c) \/ AbandonAttach(c)
             \/ LoseTransition(c) \/ RemoveAttach(c)
      PROVE  win' = win
  BY <1>8 DEF ChooseTransition, LockForAttach, AbandonAttach, LoseTransition, RemoveAttach, windowVars
<1>9. ASSUME NEW c \in Clients,
         \/ \E g \in Grids : BeginAttach(c, g)
         \/ Interact(c) \/ Disconnect(c) \/ AmbiguousEscape(c) \/ ClaimFocus(c)
      PROVE  win' = win
  BY <1>9 DEF BeginAttach, Interact, Disconnect, AmbiguousEscape, ClaimFocus, windowVars
<1>10. ASSUME NEW r, NEW event, NEW label, NEW a, Ask(r, event, label, a)
       PROVE  win' = win
  BY <1>10 DEF Ask, windowVars
<1>11. CASE AskShutdown \/ EndServerClose \/ UNCHANGED vars
  <2>1. win' = win  BY <1>11 DEF AskShutdown, EndServerClose, vars, windowVars
  <2> QED  BY <1>0, <2>1
<1>12. ASSUME NEW t \in Threads, ThreadStep(t)
       PROVE  WinInv' /\ Tame
  <2>1. ~PublishWindow(t) /\ ~AnnounceClosed(t)  OBVIOUS
  <2> QED  BY <1>0, <1>1, <1>3, <1>4, <1>5, <1>12, <2>1, ThreadRepaints, RepaintIsTame DEF ThreadStep
<1>13. ASSUME NEW c \in Clients, ClientStep(c)
       PROVE  WinInv' /\ Tame
  BY <1>0, <1>8, <1>13, OtherRepaints, RepaintIsTame DEF ClientStep
<1>14. ASSUME NEW w \in Windows, WindowStep(w) \/ \E mid \in BOOLEAN : BeginOutput(w, mid)
       PROVE  WinInv' /\ Tame
  BY <1>14, OtherRepaints, RepaintIsTame DEF WindowStep
<1>15. CASE ServerStep
  BY <1>7, <1>11, <1>15, OtherRepaints, RepaintIsTame DEF ServerStep
<1>16. CASE UserStep
  <2>1. ASSUME NEW c \in Clients,
           \/ \E g \in Grids : BeginAttach(c, g)
           \/ Interact(c) \/ Disconnect(c) \/ AmbiguousEscape(c) \/ ClaimFocus(c)
        PROVE  WinInv' /\ Tame
    BY <1>0, <1>9, <2>1
  <2>2. ASSUME NEW r, NEW event, NEW label, NEW a, Ask(r, event, label, a)
        PROVE  WinInv' /\ Tame
    BY <1>0, <1>10, <2>2
  <2> QED
    BY <1>6, <1>11, <1>14, <1>16, <2>1, <2>2
    DEF UserStep, AskTheme, AskCreate, AskWindow, AskResize, AskFocus
<1> QED  BY <1>11, <1>12, <1>13, <1>14, <1>15, <1>16 DEF Next

(***************************************************************************)
(* Closing a window                                                        *)
(***************************************************************************)
LifeInv == CloseInv /\ AnnounceInv /\ OrphanInv

\* Threads move, and none of them takes a window away or announces one; the one
\* that begins to has seen that no bridge would run on.
MayClose(t) ==
  arg[t].win \in 1 .. created /\ (pc[t] = "commit" => win[arg[t].win].bridge # "running")

Quiet ==
  \A t \in Threads :
    /\ pc'[t] \in {"stopping", "commit"} =>
         (pc'[t] = pc[t] /\ arg'[t].win = arg[t].win) \/ MayClose(t)'
    /\ \A w \in Windows : ClosedBy(t, w)' <=> ClosedBy(t, w)
    /\ StartPending(t)' => StartPending(t) \/ ~Closed

LEMMA QuietFrame ==
  ASSUME UNCHANGED <<pc, arg>>
  PROVE  Quiet
  BY DEF Quiet, ClosedBy, StartPending

LEMMA QuietGoto ==
  ASSUME ThreadInv, NEW t \in Threads, NEW label, NEW a, Goto(t, label, a),
         label \notin {"stopping", "commit", "announcing"}, a.then # "announcing",
         pc[t] \notin {"announcing", "activated"},
         label \in {"starting", "started", "rejecting"} => StartPending(t) \/ ~Closed
  PROVE  Quiet
<1>1. \A u \in Threads : pc'[u] = (IF u = t THEN label ELSE pc[u])
                         /\ arg'[u] = (IF u = t THEN a ELSE arg[u])
  BY DEF Goto, ThreadInv
<1>2. arg[t].then # "announcing"  BY DEF ThreadInv, ThreadOK
<1> QED  BY <1>1, <1>2 DEF Quiet, ClosedBy, StartPending

LEMMA QuietFinish ==
  ASSUME ThreadInv, NEW t \in Threads, Finish(t), pc[t] # "announcing"
  PROVE  Quiet
<1> DEFINE a == [arg[t] EXCEPT !.then = "idle", !.client = NoClient, !.size = NoGrid]
<1>1. t[1] \in Sorts /\ ThreadOK(t[1], pc[t], arg[t])  BY ThreadSorts DEF ThreadInv
<1>2. CASE arg[t].then = "idle"
  <2>1. Goto(t, Home(t), NoArg) /\ Home(t) \in {"attached", "idle"} /\ NoArg.then = "idle"
    BY <1>2 DEF Finish, Home, NoArg
  <2>2. \A u \in Threads : pc'[u] = (IF u = t THEN Home(t) ELSE pc[u])
                           /\ arg'[u] = (IF u = t THEN NoArg ELSE arg[u])
    BY <2>1 DEF Goto, ThreadInv
  <2> QED  BY <1>2, <2>1, <2>2 DEF Quiet, ClosedBy, StartPending
<1>3. CASE arg[t].then # "idle"
  <2>1. Goto(t, arg[t].then, a)  BY <1>3 DEF Finish
  <2>2. arg[t].then \in Errands[t[1]] /\ arg[t] \in ArgTypes  BY <1>1 DEF ThreadOK
  <2>3. arg[t].then \notin {"stopping", "commit", "starting", "started", "rejecting"}
    BY <1>1, <2>2 DEF Errands, Sorts
  <2>4. a.then = "idle" /\ a.win = arg[t].win  BY <2>2 DEF ArgTypes
  <2> HIDE DEF a
  <2>5. \A u \in Threads : pc'[u] = (IF u = t THEN arg[t].then ELSE pc[u])
                           /\ arg'[u] = (IF u = t THEN a ELSE arg[u])
    BY <2>1 DEF Goto, ThreadInv
  <2> QED  BY <2>3, <2>4, <2>5 DEF Quiet, ClosedBy, StartPending
<1> QED  BY <1>2, <1>3

LEMMA LifeFrame ==
  ASSUME TypeInv, LifeInv, Tame, Quiet, UNCHANGED <<windows, created>>,
         closing' = closing \/ closing' \notin {"torn", "done"}
  PROVE  LifeInv'
<1>1. CloseInv'
  <2>1. \A w \in Windows : win'[w].closing => win'[w].bridge # "none"  BY DEF Tame
  <2>2. ASSUME NEW t \in Threads, pc'[t] \in {"stopping", "commit"}
        PROVE  MayClose(t)'
    <3> SUFFICES ASSUME ~MayClose(t)'
                 PROVE  MayClose(t)'
      OBVIOUS
    <3>1. pc'[t] = pc[t] /\ arg'[t].win = arg[t].win  BY <2>2 DEF Quiet
    <3>2. arg[t].win \in 1 .. created /\ (pc[t] = "commit" => win[arg[t].win].bridge # "running")
      BY <2>2, <3>1 DEF LifeInv, CloseInv
    <3>3. arg[t].win \in Windows  BY <3>2, MuxAssumption DEF TypeInv, WindowInv, Windows
    <3> QED  BY <3>1, <3>2, <3>3 DEF Tame, MayClose
  <2> QED  BY <2>1, <2>2 DEF CloseInv, MayClose
<1>2. AnnounceInv'
  <2> SUFFICES ASSUME NEW w \in Windows
               PROVE  /\ w \in windows' \/ w > created' =>
                           win'[w].announced = 0 /\ \A t \in Threads : ~ClosedBy(t, w)'
                      /\ w \in (1 .. created') \ windows' =>
                           \/ win'[w].announced = 1 /\ \A t \in Threads : ~ClosedBy(t, w)'
                           \/ /\ win'[w].announced = 0
                              /\ \E t \in Threads : ClosedBy(t, w)' /\ \A u \in Threads \ {t} : ~ClosedBy(u, w)'
    BY DEF AnnounceInv
  <2>1. \A t \in Threads : ClosedBy(t, w)' <=> ClosedBy(t, w)  BY DEF Quiet
  <2>2. win'[w].announced = win[w].announced  BY DEF Tame
  <2> QED  BY <2>1, <2>2, Zenon DEF LifeInv, AnnounceInv
<1>3. OrphanInv'
  <2>1. ASSUME NEW w \in Windows, win'[w].process = "running"
        PROVE  w \in windows' \/ \E t \in Threads : ClosedBy(t, w)'
    <3>1. win[w].process = "running"  BY <2>1 DEF Tame
    <3> QED  BY <3>1, Zenon DEF LifeInv, OrphanInv, Quiet
  <2>2. ASSUME closing' \in {"torn", "done"}, NEW w \in windows'
        PROVE  win'[w].process # "running"
    <3>1. w \in Windows  BY MuxAssumption DEF TypeInv, WindowInv, Windows
    <3>2. win[w].process # "running"  BY <2>2 DEF LifeInv, OrphanInv
    <3> QED  BY <3>1, <3>2 DEF Tame
  <2>3. ASSUME closing' = "done", NEW r \in Requests
        PROVE  ~StartPending(Request(r))'
    <3>1. Request(r) \in Threads /\ Closed /\ ~StartPending(Request(r))
      BY <2>3, ThreadSorts DEF LifeInv, OrphanInv, Closed
    <3> QED  BY <3>1 DEF Quiet
  <2> QED  BY <2>1, <2>2, <2>3 DEF OrphanInv
<1> QED  BY <1>1, <1>2, <1>3 DEF LifeInv

LEMMA QuietThreads ==
  ASSUME TypeInv, NEW t \in Threads,
         \/ ResizeWithRedraw(t) \/ ResizeForClient(t) \/ ForceRedraw(t)
         \/ RefreshPendingFocus(t) \/ RefreshPendingResize(t)
         \/ Focus(t) \/ ReplayFocused(t) \/ RedrawFocused(t)
         \/ AdmitStart(t) \/ StartProcess(t) \/ RejectWindow(t) \/ KillRejected(t)
         \/ ShowNewWindow(t) \/ Select(t) \/ ShowActivated(t) \/ SelectQuietly(t)
         \/ StopBridgeFails(t)
  PROVE  Quiet
<1> USE DEF TypeInv
<1>0. /\ arg[t] \in ArgTypes /\ (pc[t] # "activated" => arg[t].then # "announcing")
      /\ NoArg \in ArgTypes /\ NoArg.then = "idle"
  BY NoArgTypes DEF ThreadInv, ThreadOK, NoArg
<1> DEFINE calm(label, a) == /\ label \notin {"stopping", "commit", "announcing"}
                             /\ a.then # "announcing"
                             /\ pc[t] \notin {"announcing", "activated"}
                             /\ label \in {"starting", "started", "rejecting"} =>
                                  StartPending(t) \/ ~Closed
           same(a) == a.then = arg[t].then \/ a.then = "idle"
<1>1. ASSUME NEW label, NEW a, Goto(t, label, a), calm(label, a)
      PROVE  Quiet
  BY <1>1, QuietGoto
<1>2. ASSUME Finish(t), pc[t] # "announcing"
      PROVE  Quiet
  BY <1>2, QuietFinish
<1>3. CASE ResizeWithRedraw(t) \/ RedrawFocused(t) \/ ShowActivated(t) \/ SelectQuietly(t)
           \/ StopBridgeFails(t)
  BY <1>2, <1>3 DEF ResizeWithRedraw, RedrawFocused, ShowActivated, SelectQuietly, StopBridgeFails
<1>4. CASE AdmitStart(t) \/ StartProcess(t) \/ RejectWindow(t) \/ KillRejected(t)
  <2>1. \/ \E a \in {arg[t], NoArg, [arg[t] EXCEPT !.size = published]} :
             \/ Goto(t, "idle", a) /\ pc[t] \in {"create", "starting", "rejecting"}
             \/ Goto(t, "starting", a) /\ ~Closed /\ pc[t] = "create"
             \/ Goto(t, "started", a) /\ pc[t] = "starting"
             \/ Goto(t, "rejecting", a) /\ pc[t] = "started"
    BY <1>4 DEF AdmitStart, StartProcess, RejectWindow, KillRejected
  <2>2. \A a \in {arg[t], NoArg, [arg[t] EXCEPT !.size = published]} : same(a)
    BY <1>0 DEF ArgTypes
  <2>3. PICK a \in {arg[t], NoArg, [arg[t] EXCEPT !.size = published]} :
             \/ Goto(t, "idle", a) /\ pc[t] \in {"create", "starting", "rejecting"}
             \/ Goto(t, "starting", a) /\ ~Closed /\ pc[t] = "create"
             \/ Goto(t, "started", a) /\ pc[t] = "starting"
             \/ Goto(t, "rejecting", a) /\ pc[t] = "started"
    BY <2>1
  <2>4. same(a)  BY <2>2, <2>3
  <2> QED  BY <1>0, <1>1, <2>3, <2>4 DEF StartPending
<1>5. ASSUME NEW a, same(a), pc[t] \notin {"announcing", "activated"},
             \E label \in {"resizing", "replay", "replayed", "refreshFocus", "activated"} :
               Goto(t, label, a)
      PROVE  Quiet
  BY <1>0, <1>1, <1>5
<1>6. ASSUME pc[t] \notin {"announcing", "activated"}
      PROVE  /\ Goto(t, "resizing", arg[t]) => Quiet
             /\ \A g : Goto(t, "resizing", [arg[t] EXCEPT !.size = g]) => Quiet
             /\ \A c, g : Goto(t, "replay", [arg[t] EXCEPT !.client = c, !.size = g]) => Quiet
             /\ \A w : Goto(t, "replayed", [arg[t] EXCEPT !.win = w]) => Quiet
             /\ \A w, g : Goto(t, "activated", [arg[t] EXCEPT !.next = w, !.size = g]) => Quiet
             /\ \A w, g : Goto(t, "resizing", [NoArg EXCEPT !.size = g, !.pin = w]) => Quiet
             /\ Goto(t, "refreshFocus", arg[t]) => Quiet
  <2>1. /\ \A g : same([arg[t] EXCEPT !.size = g])
        /\ \A c, g : same([arg[t] EXCEPT !.client = c, !.size = g])
        /\ \A w : same([arg[t] EXCEPT !.win = w])
        /\ \A w, g : same([arg[t] EXCEPT !.next = w, !.size = g])
        /\ \A w, g : same([NoArg EXCEPT !.size = g, !.pin = w])
    BY <1>0 DEF ArgTypes, NoArg
  <2> QED  BY <1>5, <1>6, <2>1
<1>7. ASSUME NEW c, NEW g, NEW handoff, TakeFocus(t, c, g, handoff), pc[t] = "focus"
      PROVE  Quiet
  <2>1. \/ Finish(t) \/ (\E h : Goto(t, "resizing", [arg[t] EXCEPT !.size = h]))
        \/ \E h : Goto(t, "replay", [arg[t] EXCEPT !.client = c, !.size = h])
    BY <1>7, Zenon DEF TakeFocus
  <2> QED  BY <1>2, <1>6, <1>7, <2>1
<1>8. CASE ResizeForClient(t) \/ ForceRedraw(t) \/ RefreshPendingFocus(t)
           \/ RefreshPendingResize(t)
  <2>1. \/ Finish(t) \/ Goto(t, "resizing", arg[t])
        \/ \E h : Goto(t, "resizing", [arg[t] EXCEPT !.size = h])
        \/ \E c, h : Goto(t, "replay", [arg[t] EXCEPT !.client = c, !.size = h])
        \/ \E w, h : Goto(t, "resizing", [NoArg EXCEPT !.size = h, !.pin = w])
    BY <1>8, Zenon DEF ResizeForClient, ForceRedraw, RefreshPendingFocus, RefreshPendingResize
  <2>2. pc[t] \in {"resize", "theme", "refreshFocus", "refreshResize"}
    BY <1>8 DEF ResizeForClient, ForceRedraw, RefreshPendingFocus, RefreshPendingResize
  <2> QED  BY <1>2, <1>6, <2>1, <2>2
<1>9. CASE Focus(t)
  <2>1. pc[t] = "focus" /\ (Finish(t) \/ \E c, g, handoff : TakeFocus(t, c, g, handoff))
    BY <1>9 DEF Focus
  <2> QED  BY <1>2, <1>7, <2>1
<1>10. CASE ReplayFocused(t)
  <2>1. pc[t] = "replay" /\ (Finish(t) \/ \E w : Goto(t, "replayed", [arg[t] EXCEPT !.win = w]))
    BY <1>10, Zenon DEF ReplayFocused
  <2> QED  BY <1>2, <1>6, <2>1
<1>11. CASE ShowNewWindow(t)
  BY <1>2, <1>6, <1>11 DEF ShowNewWindow
<1>12. CASE Select(t)
  <2>1. pc[t] = "select" /\ (Finish(t) \/ \E w, g : Goto(t, "activated", [arg[t] EXCEPT !.next = w, !.size = g]))
    BY <1>12, Zenon DEF Select
  <2> QED  BY <1>2, <1>6, <2>1
<1> QED  BY <1>3, <1>4, <1>8, <1>9, <1>10, <1>11, <1>12

LEMMA QuietClients ==
  ASSUME TypeInv, NEW c \in Clients,
         \/ ClientStep(c) \/ (\E g \in Grids : BeginAttach(c, g))
         \/ Interact(c) \/ Disconnect(c) \/ AmbiguousEscape(c) \/ ClaimFocus(c)
  PROVE  Quiet
<1> USE DEF TypeInv
<1> DEFINE t == Attach(c)
<1>0. /\ t \in Threads /\ arg[t] \in ArgTypes /\ NoArg \in ArgTypes /\ NoArg.then = "idle"
      /\ pc[t] \notin {"announcing", "activated"} /\ arg[t].then # "announcing"
  <2>1. t \in Threads /\ t[1] = "client"  BY ThreadSorts
  <2>2. ThreadOK("client", pc[t], arg[t])  BY <2>1 DEF ThreadInv
  <2> QED  BY <2>1, <2>2, NoArgTypes DEF ThreadInv, ThreadOK, NoArg, Points, Errands
<1> HIDE DEF t
<1>1. ASSUME NEW label, NEW a, Goto(t, label, a), a.then # "announcing",
             label \in {"away", "waiting", "registering", "redrawing", "attached", "focus",
                        "replay", "resizing", "leaving"}
      PROVE  Quiet
  BY <1>0, <1>1, QuietGoto
<1>2. ASSUME Finish(t)
      PROVE  Quiet
  BY <1>0, <1>2, QuietFinish
<1>3. CASE ClientStep(c)
  <2>1. \/ UNCHANGED <<pc, arg>>
        \/ \E label \in {"registering", "away", "waiting", "attached"} : Goto(t, label, NoArg)
        \/ \E w : Goto(t, "redrawing", [NoArg EXCEPT !.win = w])
        \/ \E g : Goto(t, "resizing", [NoArg EXCEPT !.size = g, !.then = "away"])
    BY <1>3, Zenon DEF ClientStep, ChooseTransition, LockForAttach, AbandonAttach, LoseTransition,
      RegisterAttach, RedrawAttached, RemoveAttach, t
  <2>2. /\ \A w : [NoArg EXCEPT !.win = w].then = "idle"
        /\ \A g : [NoArg EXCEPT !.size = g, !.then = "away"].then = "away"
    BY DEF NoArg
  <2> QED  BY <1>0, <1>1, <2>1, <2>2, QuietFrame
<1>4. CASE (\E g \in Grids : BeginAttach(c, g)) \/ Interact(c) \/ Disconnect(c) \/ AmbiguousEscape(c)
  <2>1. \/ UNCHANGED <<pc, arg>>
        \/ \E label \in {"waiting", "leaving"} : Goto(t, label, NoArg)
        \/ Goto(t, "focus", [NoArg EXCEPT !.client = c, !.redraw = TRUE])
    BY <1>4, Zenon DEF BeginAttach, Interact, Disconnect, AmbiguousEscape, t
  <2>2. [NoArg EXCEPT !.client = c, !.redraw = TRUE].then = "idle"
    BY DEF NoArg
  <2> QED  BY <1>0, <1>1, <2>1, <2>2, QuietFrame
<1>5. CASE ClaimFocus(c)
  <2>1. \/ UNCHANGED <<pc, arg>> \/ Finish(t)
        \/ (\E h : Goto(t, "resizing", [arg[t] EXCEPT !.size = h]))
        \/ \E h : Goto(t, "replay", [arg[t] EXCEPT !.client = c, !.size = h])
    BY <1>5, Zenon DEF ClaimFocus, TakeFocus, t
  <2>2. /\ \A h : [arg[t] EXCEPT !.size = h].then = arg[t].then
        /\ \A h : [arg[t] EXCEPT !.client = c, !.size = h].then = arg[t].then
    BY <1>0 DEF ArgTypes
  <2> QED  BY <1>0, <1>1, <1>2, <2>1, <2>2, QuietFrame
<1> QED  BY <1>3, <1>4, <1>5

LEMMA QuietOthers ==
  ASSUME TypeInv,
         \/ \E w \in Windows : \/ EndOutput(w) \/ ResumeForwarding(w) \/ RestoreGeometry(w)
                               \/ ProcessExit(w) \/ \E mid \in BOOLEAN : BeginOutput(w, mid)
         \/ ServerStep \/ AskShutdown \/ UNCHANGED vars
         \/ \E r \in Requests :
              \/ AskTheme(r)
              \/ \E c \in Registered \cup {NoClient} :
                   \/ \E kind \in Kinds : AskCreate(r, c, kind)
                   \/ \E label \in {"select", "quiet", "close"}, w \in 1 .. created : AskWindow(r, c, label, w)
                   \/ \E g \in Grids : AskResize(r, c, g)
                   \/ \E g \in Grids, redraw \in BOOLEAN : c # NoClient /\ AskFocus(r, c, g, redraw)
  PROVE  Quiet
<1> USE DEF TypeInv
<1>0. /\ NoArg \in ArgTypes /\ NoArg.then = "idle"
      /\ \A w \in Windows : /\ Reader(w) \in Threads /\ Timer(w) \in Threads
                            /\ arg[Reader(w)] \in ArgTypes /\ arg[Timer(w)] \in ArgTypes
                            /\ pc[Reader(w)] \notin {"announcing", "activated"}
                            /\ pc[Timer(w)] \notin {"announcing", "activated"}
  <2>1. \A w \in Windows : /\ ThreadOK("reader", pc[Reader(w)], arg[Reader(w)])
                           /\ ThreadOK("timer", pc[Timer(w)], arg[Timer(w)])
    BY ThreadSorts DEF ThreadInv
  <2> QED  BY <2>1, NoArgTypes, ThreadSorts DEF ThreadOK, NoArg, Points
<1>1. ASSUME NEW t \in Threads, NEW label, NEW a, Goto(t, label, a), a.then # "announcing",
             label \in {"idle", "writing", "ending", "refreshFocus", "refreshResize"},
             pc[t] \notin {"announcing", "activated"}
      PROVE  Quiet
  BY <1>1, QuietGoto
<1>2. ASSUME NEW w \in Windows, EndOutput(w) \/ ResumeForwarding(w) \/ RestoreGeometry(w)
             \/ ProcessExit(w) \/ \E mid \in BOOLEAN : BeginOutput(w, mid)
      PROVE  Quiet
  <2>1. ASSUME NEW t \in {Reader(w), Timer(w)}, NEW focusDue, NEW resizeDue,
               Refresh(t, focusDue, resizeDue)
        PROVE  Quiet
    <3> DEFINE label == IF focusDue THEN "refreshFocus" ELSE IF resizeDue THEN "refreshResize" ELSE "idle"
               a == [arg[t] EXCEPT !.then = IF focusDue /\ resizeDue THEN "refreshResize" ELSE "idle"]
    <3>1. Goto(t, label, a)  BY <2>1 DEF Refresh
    <3>2. t \in Threads /\ arg[t] \in ArgTypes /\ pc[t] \notin {"announcing", "activated"}
      BY <1>0
    <3>3. a.then \in {"refreshResize", "idle"} /\ label \in {"idle", "refreshFocus", "refreshResize"}
      BY <3>2 DEF ArgTypes
    <3> HIDE DEF label, a
    <3> QED  BY <1>1, <3>1, <3>2, <3>3
  <2>2. CASE EndOutput(w) \/ ResumeForwarding(w)
    <3>1. \E t \in {Reader(w), Timer(w)} : \E focusDue, resizeDue : Refresh(t, focusDue, resizeDue)
      BY <2>2 DEF EndOutput, ResumeForwarding
    <3> QED  BY <2>1, <3>1
  <2>3. CASE \E mid \in BOOLEAN : BeginOutput(w, mid)
    <3>1. \E label \in {"writing", "ending"} : Goto(Reader(w), label, NoArg)
      BY <2>3 DEF BeginOutput
    <3> QED  BY <1>0, <1>1, <3>1
  <2>4. CASE RestoreGeometry(w) \/ ProcessExit(w)
    <3>1. UNCHANGED <<pc, arg>>  BY <2>4 DEF RestoreGeometry, ProcessExit
    <3> QED  BY <3>1, QuietFrame
  <2> QED  BY <1>2, <2>2, <2>3, <2>4
<1>3. CASE ServerStep \/ AskShutdown \/ UNCHANGED vars
  <2>1. UNCHANGED <<pc, arg>>
    BY <1>3 DEF ServerStep, BeginServerClose, TearDown, EndServerClose, AskShutdown, vars
  <2> QED  BY <2>1, QuietFrame
<1>4. ASSUME NEW r \in Requests, NEW event, NEW label, NEW a, Ask(r, event, label, a),
             a.then # "announcing", label \in {"theme", "create", "focus", "resize"}
      PROVE  Quiet
  <2>1. Request(r) \in Threads /\ Goto(Request(r), label, a) /\ pc[Request(r)] = "idle"
    BY <1>4, ThreadSorts DEF Ask
  <2> QED  BY <1>4, <2>1, QuietGoto
<1>5. ASSUME NEW r \in Requests, NEW c \in Registered \cup {NoClient}
      PROVE  /\ AskTheme(r) => Quiet
             /\ \A kind \in Kinds : AskCreate(r, c, kind) => Quiet
             /\ \A label \in {"select", "quiet", "close"}, w \in 1 .. created :
                  AskWindow(r, c, label, w) => Quiet
             /\ \A g \in Grids : AskResize(r, c, g) => Quiet
             /\ \A g \in Grids, redraw \in BOOLEAN : AskFocus(r, c, g, redraw) => Quiet
  <2>1. /\ [NoArg EXCEPT !.pin = active].then = "idle"
        /\ \A kind : [NoArg EXCEPT !.kind = kind].then = "idle"
        /\ \A kind : [NoArg EXCEPT !.client = c, !.kind = kind, !.then = "create"].then = "create"
        /\ \A w, label : [NoArg EXCEPT !.client = c, !.win = w, !.then = label].then = label
        /\ \A g : [NoArg EXCEPT !.client = c, !.size = g].then = "idle"
        /\ \A g, redraw : [NoArg EXCEPT !.client = c, !.size = g, !.redraw = redraw].then = "idle"
    BY DEF NoArg
  <2>2. AskTheme(r) => Quiet  BY <1>4, <2>1 DEF AskTheme
  <2>3. \A kind \in Kinds : AskCreate(r, c, kind) => Quiet  BY <1>4, <2>1 DEF AskCreate
  <2>4. \A label \in {"select", "quiet", "close"}, w \in 1 .. created :
          AskWindow(r, c, label, w) => Quiet
    <3> SUFFICES ASSUME NEW label \in {"select", "quiet", "close"}, NEW w \in 1 .. created,
                        AskWindow(r, c, label, w)
                 PROVE  Quiet
      OBVIOUS
    <3> DEFINE a == [NoArg EXCEPT !.client = c, !.win = w, !.then = label]
    <3>1. Ask(r, "manage", "focus", a)  BY DEF AskWindow
    <3>2. a.then # "announcing"  BY DEF NoArg
    <3> HIDE DEF a
    <3> QED  BY <1>4, <3>1, <3>2
  <2>5. \A g \in Grids : AskResize(r, c, g) => Quiet  BY <1>4, <2>1 DEF AskResize
  <2>6. \A g \in Grids, redraw \in BOOLEAN : AskFocus(r, c, g, redraw) => Quiet
    BY <1>4, <2>1 DEF AskFocus
  <2> QED  BY <2>2, <2>3, <2>4, <2>5, <2>6
<1> QED  BY <1>2, <1>3, <1>5

\* w leaves the list, and t has it to announce.
LEMMA RetireLife ==
  ASSUME TypeInv, LifeInv, Tame, ~Closed, closing' = closing, UNCHANGED created,
         NEW t \in Threads, NEW w \in windows, NEW label, NEW a, Goto(t, label, a),
         a.win = w, label \in {"activated", "announcing"},
         label = "announcing" \/ a.then = "announcing",
         pc[t] \notin {"activated", "announcing"}, windows' = windows \ {w}
  PROVE  LifeInv'
<1> USE DEF TypeInv
<1>0. w \in Windows /\ arg[t].then # "announcing"
  BY MuxAssumption DEF WindowInv, Windows, ThreadInv, ThreadOK
<1>1. \A u \in Threads : pc'[u] = (IF u = t THEN label ELSE pc[u])
                         /\ arg'[u] = (IF u = t THEN a ELSE arg[u])
  BY DEF Goto, ThreadInv
<1>2. \A u \in Threads, v \in Windows : ClosedBy(u, v)' <=> IF u = t THEN v = w ELSE ClosedBy(u, v)
  BY <1>1 DEF ClosedBy
<1>3. \A v \in Windows : ~ClosedBy(t, v)
  BY <1>0 DEF ClosedBy
<1>4. CloseInv'
  <2>1. \A v \in Windows : win'[v].closing => win'[v].bridge # "none"  BY DEF Tame
  <2>2. ASSUME NEW u \in Threads, pc'[u] \in {"stopping", "commit"}
        PROVE  arg'[u].win \in 1 .. created' /\ (pc'[u] = "commit" => win'[arg'[u].win].bridge # "running")
    <3>1. u # t /\ pc'[u] = pc[u] /\ arg'[u] = arg[u]  BY <1>1, <2>2
    <3>2. arg[u].win \in 1 .. created /\ (pc[u] = "commit" => win[arg[u].win].bridge # "running")
      BY <2>2, <3>1 DEF LifeInv, CloseInv
    <3>3. arg[u].win \in Windows  BY <3>2, MuxAssumption DEF WindowInv, Windows
    <3> QED  BY <3>1, <3>2, <3>3 DEF Tame
  <2> QED  BY <2>1, <2>2 DEF CloseInv
<1>5. AnnounceInv'
  <2> SUFFICES ASSUME NEW v \in Windows
               PROVE  /\ v \in windows' \/ v > created' =>
                           win'[v].announced = 0 /\ \A u \in Threads : ~ClosedBy(u, v)'
                      /\ v \in (1 .. created') \ windows' =>
                           \/ win'[v].announced = 1 /\ \A u \in Threads : ~ClosedBy(u, v)'
                           \/ /\ win'[v].announced = 0
                              /\ \E s \in Threads : ClosedBy(s, v)' /\ \A u \in Threads \ {s} : ~ClosedBy(u, v)'
    BY DEF AnnounceInv
  <2>1. win'[v].announced = win[v].announced  BY DEF Tame
  <2>2. CASE v = w
    <3>1. win[w].announced = 0 /\ \A u \in Threads : ~ClosedBy(u, w)
      BY <1>0 DEF LifeInv, AnnounceInv
    <3>2. ClosedBy(t, w)' /\ \A u \in Threads \ {t} : ~ClosedBy(u, w)'
      BY <1>0, <1>2, <3>1
    <3>3. w \notin windows' /\ w \in 1 .. created /\ ~(w > created)
      BY MuxAssumption DEF WindowInv
    <3> QED  BY <2>1, <2>2, <3>1, <3>2, <3>3
  <2>3. CASE v # w
    <3>1. \A u \in Threads : ClosedBy(u, v)' <=> ClosedBy(u, v)  BY <1>2, <1>3, <2>3
    <3>2. v \in windows' <=> v \in windows  BY <2>3
    <3> QED  BY <2>1, <3>1, <3>2, Zenon DEF LifeInv, AnnounceInv
  <2> QED  BY <2>2, <2>3
<1>6. OrphanInv'
  <2>1. ASSUME NEW v \in Windows, win'[v].process = "running"
        PROVE  v \in windows' \/ \E u \in Threads : ClosedBy(u, v)'
    <3>1. win[v].process = "running"  BY <2>1 DEF Tame
    <3>2. v \in windows \/ \E u \in Threads : ClosedBy(u, v)
      BY <3>1 DEF LifeInv, OrphanInv
    <3> QED  BY <1>2, <1>3, <3>2
  <2> QED  BY <2>1 DEF OrphanInv, Closed
<1> QED  BY <1>4, <1>5, <1>6 DEF LifeInv

LEMMA AfterRetireMoves ==
  ASSUME NEW t, NEW w, NEW v, NEW g, AfterRetire(t, w, v, g)
  PROVE  \E label \in {"activated", "announcing"} : \E a :
           Goto(t, label, a) /\ a.win = w /\ (label = "announcing" \/ a.then = "announcing")
<1> DEFINE a == [NoArg EXCEPT !.win = w, !.next = v, !.size = g, !.redraw = (windows = {w})]
           b == [a EXCEPT !.then = "announcing"]
<1>1. Goto(t, "activated", b) \/ Goto(t, "announcing", a)
  BY Zenon DEF AfterRetire
<1>2. a.win = w /\ b.win = w /\ b.then = "announcing"
  BY DEF NoArg
<1> HIDE DEF a, b
<1> QED  BY <1>1, <1>2

LEMMA PublishLife ==
  ASSUME TypeInv, LifeInv, NEW t \in Threads, PublishWindow(t)
  PROVE  WinInv' /\ LifeInv'
<1> USE DEF TypeInv
<1> DEFINE n == created + 1
           r == Started(arg[t].kind, arg[t].size)
           a == [NoArg EXCEPT !.born = n, !.redraw = FocusIsDue,
                   !.then = IF ResizeIsDue THEN "refreshResize" ELSE "idle"]
<1>1. /\ n \in Windows /\ created \in Nat /\ windows \subseteq 1 .. created /\ n \notin windows
      /\ \A v \in Windows : v > n => v > created
  BY MuxAssumption DEF WindowInv, PublishWindow, Windows
<1>2. /\ pc[t] = "started" /\ ~Closed /\ created' = n /\ windows' = windows \cup {n}
      /\ win' = [win EXCEPT ![n] = r] /\ Goto(t, "shown", a) /\ closing' = closing
  BY DEF PublishWindow, otherVars
<1>3. r \in WinTypes /\ r.announced = 0 /\ r.closing = FALSE
  BY DEF ThreadInv, ArgTypes, KindTypes, Started, NoWin, WinTypes, Sizes
<1>4. a.then # "announcing" /\ arg[t].then # "announcing"
  BY <1>2 DEF NoArg, ThreadInv, ThreadOK
<1> HIDE DEF r, a
<1>5. WinInv'  BY <1>1, <1>2, <1>3 DEF WinInv
<1>6. \A v \in Windows : win'[v] = IF v = n THEN r ELSE win[v]  BY <1>2 DEF WinInv
<1>7. \A u \in Threads : pc'[u] = (IF u = t THEN "shown" ELSE pc[u])
                         /\ arg'[u] = (IF u = t THEN a ELSE arg[u])
  BY <1>2 DEF Goto, ThreadInv
<1>8. \A u \in Threads, v \in Windows : ClosedBy(u, v)' <=> ClosedBy(u, v)
  BY <1>2, <1>4, <1>7 DEF ClosedBy
<1>9. CloseInv'
  <2>1. \A v \in Windows : win'[v].closing => win'[v].bridge # "none"
    BY <1>3, <1>6 DEF LifeInv, CloseInv
  <2>2. ASSUME NEW u \in Threads, pc'[u] \in {"stopping", "commit"}
        PROVE  arg'[u].win \in 1 .. created' /\ (pc'[u] = "commit" => win'[arg'[u].win].bridge # "running")
    <3>1. u # t /\ pc'[u] = pc[u] /\ arg'[u] = arg[u]  BY <1>7, <2>2
    <3>2. arg[u].win \in 1 .. created /\ (pc[u] = "commit" => win[arg[u].win].bridge # "running")
      BY <2>2, <3>1 DEF LifeInv, CloseInv
    <3>3. arg[u].win \in Windows /\ arg[u].win # n /\ arg[u].win \in 1 .. n
      BY <1>1, <3>2, MuxAssumption DEF WindowInv, Windows
    <3> QED  BY <1>2, <1>6, <3>1, <3>2, <3>3
  <2> QED  BY <2>1, <2>2 DEF CloseInv
<1>10. AnnounceInv'
  <2> SUFFICES ASSUME NEW v \in Windows
               PROVE  /\ v \in windows' \/ v > created' =>
                           win'[v].announced = 0 /\ \A u \in Threads : ~ClosedBy(u, v)'
                      /\ v \in (1 .. created') \ windows' =>
                           \/ win'[v].announced = 1 /\ \A u \in Threads : ~ClosedBy(u, v)'
                           \/ /\ win'[v].announced = 0
                              /\ \E s \in Threads : ClosedBy(s, v)' /\ \A u \in Threads \ {s} : ~ClosedBy(u, v)'
    BY DEF AnnounceInv
  <2>1. CASE v = n
    <3>1. n > created  BY <1>1
    <3>2. \A u \in Threads : ~ClosedBy(u, n)  BY <1>1, <3>1 DEF LifeInv, AnnounceInv
    <3>3. win'[v].announced = 0 /\ v \in windows'  BY <1>1, <1>2, <1>3, <1>6, <2>1
    <3>4. \A u \in Threads : ~ClosedBy(u, v)  BY <2>1, <3>2
    <3>5. \A u \in Threads : ~ClosedBy(u, v)'  BY <1>8, <3>4
    <3> QED  BY <3>3, <3>5
  <2>2. CASE v # n
    <3>1. win'[v] = win[v] /\ (v \in windows' <=> v \in windows)  BY <1>2, <1>6, <2>2
    <3>2. (v > created' => v > created) /\ (v \in 1 .. created' => v \in 1 .. created)
      BY <1>1, <1>2, <2>2
    <3> QED  BY <1>8, <3>1, <3>2, Zenon DEF LifeInv, AnnounceInv
  <2> QED  BY <2>1, <2>2
<1>11. OrphanInv'
  <2>1. ASSUME NEW v \in Windows, win'[v].process = "running"
        PROVE  v \in windows' \/ \E u \in Threads : ClosedBy(u, v)'
    <3>1. CASE v = n  BY <1>2, <3>1
    <3>2. CASE v # n
      <4>1. win[v].process = "running"  BY <1>6, <2>1, <3>2
      <4>2. v \in windows \/ \E u \in Threads : ClosedBy(u, v)
        BY <4>1 DEF LifeInv, OrphanInv
      <4> QED  BY <1>2, <1>8, <4>2
    <3> QED  BY <3>1, <3>2
  <2> QED  BY <1>2, <2>1 DEF OrphanInv, Closed
<1> QED  BY <1>5, <1>9, <1>10, <1>11 DEF LifeInv

LEMMA AnnounceLife ==
  ASSUME TypeInv, LifeInv, NEW t \in Threads, AnnounceClosed(t)
  PROVE  WinInv' /\ LifeInv'
<1> USE DEF TypeInv
<1> DEFINE w == arg[t].win
           label == IF t[1] = "watcher" THEN "over" ELSE "idle"
<1>1. /\ pc[t] = "announcing" /\ Goto(t, label, NoArg) /\ UNCHANGED <<windows, created>>
      /\ label \in {"over", "idle"}
  BY DEF AnnounceClosed
<1>2. closing' = closing \/ closing' \notin {"torn", "done"}
  BY Zenon DEF AnnounceClosed
<1>3. \A u \in Threads : pc'[u] = (IF u = t THEN label ELSE pc[u])
                         /\ arg'[u] = (IF u = t THEN NoArg ELSE arg[u])
  BY <1>1 DEF Goto, ThreadInv
<1> HIDE DEF label
<1>4. \A u \in Threads, v \in Windows : ClosedBy(u, v)' <=> u # t /\ ClosedBy(u, v)
  BY <1>1, <1>3 DEF ClosedBy, NoArg
<1>5. \A v \in Windows : ClosedBy(t, v) <=> v = w
  BY <1>1 DEF ClosedBy, ThreadInv, ThreadOK
<1>6. \A v \in Windows : v # w => win'[v] = win[v]
  <2>1. PICK b : win' = [win EXCEPT ![w].announced = @ + 1, ![w].bridge = b,
                                   ![w].process = IF @ = "running" THEN "hungup" ELSE @]
    BY DEF AnnounceClosed
  <2> QED  BY <2>1 DEF WinInv
<1>7. w \in Windows =>
        /\ win'[w] \in WinTypes /\ win'[w].announced = win[w].announced + 1
        /\ win'[w].process # "running"
        /\ win'[w].bridge \in {win[w].bridge, "stopped"}
        /\ win'[w].closing = win[w].closing
  <2> SUFFICES ASSUME w \in Windows
               PROVE  /\ win'[w] \in WinTypes /\ win'[w].announced = win[w].announced + 1
                      /\ win'[w].process # "running"
                      /\ win'[w].bridge \in {win[w].bridge, "stopped"}
                      /\ win'[w].closing = win[w].closing
    OBVIOUS
  <2> DEFINE p == IF win[w].process = "running" THEN "hungup" ELSE win[w].process
             n == win[w].announced + 1
  <2>1. PICK b \in {win[w].bridge, "stopped"} :
          win' = [win EXCEPT ![w].announced = @ + 1, ![w].bridge = b,
                             ![w].process = IF @ = "running" THEN "hungup" ELSE @]
    BY DEF AnnounceClosed
  <2>2. win[w] \in WinTypes  BY DEF WinInv
  <2>3. win'[w] = [win[w] EXCEPT !.announced = n, !.bridge = b, !.process = p]
    BY <2>1, <2>2 DEF WinInv, WinTypes
  <2>4. /\ n \in Nat /\ p \in {"none", "hungup", "ended"}
        /\ b \in {"none", "running", "stopped"}
    BY <2>1, <2>2 DEF WinTypes
  <2> HIDE DEF p, w
  <2>5. /\ win'[w] \in WinTypes /\ win'[w].announced = n /\ win'[w].process = p
        /\ win'[w].bridge = b
    BY <2>2, <2>3, <2>4 DEF WinTypes
  <2>6. [win[w] EXCEPT !.announced = n, !.bridge = b, !.process = p].closing = win[w].closing
    BY <2>2 DEF WinTypes
  <2> QED  BY <2>3, <2>4, <2>5, <2>6
<1>8. WinInv'
  <2>1. \E r : win' = [win EXCEPT ![w] = r]
    <3>1. PICK b : win' = [win EXCEPT ![w].announced = @ + 1, ![w].bridge = b,
                                     ![w].process = IF @ = "running" THEN "hungup" ELSE @]
      BY DEF AnnounceClosed
    <3> QED  BY <3>1, Zenon
  <2> QED  BY <1>6, <1>7, <2>1 DEF WinInv
<1>9. w \in Windows =>
        /\ w \in (1 .. created) \ windows /\ ~(w > created) /\ win[w].announced = 0
        /\ \A u \in Threads \ {t} : ~ClosedBy(u, w)
  <2> SUFFICES ASSUME w \in Windows
               PROVE  /\ w \in (1 .. created) \ windows /\ ~(w > created) /\ win[w].announced = 0
                      /\ \A u \in Threads \ {t} : ~ClosedBy(u, w)
    OBVIOUS
  <2>1. ClosedBy(t, w)  BY <1>5
  <2>2. w \notin windows /\ ~(w > created)  BY <2>1 DEF LifeInv, AnnounceInv
  <2>3. w \in 1 .. created  BY <2>2, MuxAssumption DEF WindowInv, Windows
  <2>4. PICK s \in Threads : /\ win[w].announced = 0 /\ ClosedBy(s, w)
                             /\ \A u \in Threads \ {s} : ~ClosedBy(u, w)
    BY <2>1, <2>2, <2>3, Zenon DEF LifeInv, AnnounceInv
  <2>5. s = t  BY <2>1, <2>4
  <2> QED  BY <2>2, <2>3, <2>4, <2>5
<1> HIDE DEF w
<1>10. CloseInv'
  <2>1. \A v \in Windows : win'[v].closing => win'[v].bridge # "none"
    BY <1>6, <1>7 DEF LifeInv, CloseInv
  <2>2. ASSUME NEW u \in Threads, pc'[u] \in {"stopping", "commit"}
        PROVE  arg'[u].win \in 1 .. created' /\ (pc'[u] = "commit" => win'[arg'[u].win].bridge # "running")
    <3>1. u # t /\ pc'[u] = pc[u] /\ arg'[u] = arg[u]  BY <1>1, <1>3, <2>2
    <3>2. arg[u].win \in 1 .. created /\ (pc[u] = "commit" => win[arg[u].win].bridge # "running")
      BY <2>2, <3>1 DEF LifeInv, CloseInv
    <3>3. arg[u].win \in Windows  BY <3>2, MuxAssumption DEF WindowInv, Windows
    <3> QED  BY <1>1, <1>6, <1>7, <3>1, <3>2, <3>3
  <2> QED  BY <2>1, <2>2 DEF CloseInv
<1>11. AnnounceInv'
  <2> SUFFICES ASSUME NEW v \in Windows
               PROVE  /\ v \in windows' \/ v > created' =>
                           win'[v].announced = 0 /\ \A u \in Threads : ~ClosedBy(u, v)'
                      /\ v \in (1 .. created') \ windows' =>
                           \/ win'[v].announced = 1 /\ \A u \in Threads : ~ClosedBy(u, v)'
                           \/ /\ win'[v].announced = 0
                              /\ \E s \in Threads : ClosedBy(s, v)' /\ \A u \in Threads \ {s} : ~ClosedBy(u, v)'
    BY DEF AnnounceInv
  <2>1. CASE v = w
    <3>1. win'[v].announced = 1 /\ \A u \in Threads : ~ClosedBy(u, v)'
      BY <1>4, <1>7, <1>9, <2>1
    <3> QED  BY <1>1, <1>9, <2>1, <3>1
  <2>2. CASE v # w
    <3>1. win'[v] = win[v] /\ \A u \in Threads : ClosedBy(u, v)' <=> ClosedBy(u, v)
      BY <1>4, <1>5, <1>6, <2>2
    <3> QED  BY <1>1, <3>1, Zenon DEF LifeInv, AnnounceInv
  <2> QED  BY <2>1, <2>2
<1>12. OrphanInv'
  <2>1. ASSUME NEW v \in Windows, win'[v].process = "running"
        PROVE  v \in windows' \/ \E u \in Threads : ClosedBy(u, v)'
    <3>1. v # w /\ win[v].process = "running"  BY <1>6, <1>7, <2>1
    <3>2. v \in windows \/ \E u \in Threads : ClosedBy(u, v)
      BY <3>1 DEF LifeInv, OrphanInv
    <3> QED  BY <1>1, <1>4, <1>5, <3>1, <3>2
  <2>2. ASSUME closing' \in {"torn", "done"}, NEW v \in windows'
        PROVE  win'[v].process # "running"
    <3>1. v \in Windows /\ v # w
      BY <1>1, <1>9, MuxAssumption DEF WindowInv, Windows
    <3>2. win[v].process # "running"  BY <1>1, <1>2, <2>2 DEF LifeInv, OrphanInv
    <3> QED  BY <1>6, <3>1, <3>2
  <2>3. ASSUME closing' = "done", NEW r \in Requests
        PROVE  ~StartPending(Request(r))'
    <3>1. Request(r) \in Threads /\ ~StartPending(Request(r))
      BY <1>2, <2>3, ThreadSorts DEF LifeInv, OrphanInv
    <3> QED  BY <1>1, <1>3, <3>1 DEF StartPending
  <2> QED  BY <2>1, <2>2, <2>3 DEF OrphanInv
<1> QED  BY <1>8, <1>10, <1>11, <1>12 DEF LifeInv

LEMMA ShutdownLife ==
  ASSUME TypeInv, LifeInv, Tame, Quiet, TearDown \/ EndServerClose
  PROVE  LifeInv'
<1> USE DEF TypeInv
<1>1. UNCHANGED <<windows, created, pc, arg>> /\ closing \in {"begun", "torn"}
  BY DEF TearDown, EndServerClose, windowVars
<1>2. CloseInv' /\ AnnounceInv'
  <2> DEFINE frame == closing' = closing
  <2>1. \A w \in Windows : win'[w].closing => win'[w].bridge # "none"  BY DEF Tame
  <2>2. ASSUME NEW t \in Threads, pc'[t] \in {"stopping", "commit"}
        PROVE  MayClose(t)'
    <3>1. arg[t].win \in 1 .. created /\ (pc[t] = "commit" => win[arg[t].win].bridge # "running")
      BY <1>1, <2>2 DEF LifeInv, CloseInv
    <3>2. arg[t].win \in Windows  BY <3>1, MuxAssumption DEF WindowInv, Windows
    <3> QED  BY <1>1, <3>1, <3>2 DEF Tame, MayClose
  <2>3. CloseInv'  BY <2>1, <2>2 DEF CloseInv, MayClose
  <2>4. \A t \in Threads, w \in Windows : ClosedBy(t, w)' <=> ClosedBy(t, w)  BY DEF Quiet
  <2>5. \A w \in Windows : win'[w].announced = win[w].announced  BY DEF Tame
  <2>6. AnnounceInv'  BY <1>1, <2>4, <2>5, Zenon DEF LifeInv, AnnounceInv
  <2> QED  BY <2>3, <2>6
<1>3. \A w \in Windows :
        win'[w].process = "running" => w \in windows' \/ \E t \in Threads : ClosedBy(t, w)'
  <2> SUFFICES ASSUME NEW w \in Windows, win'[w].process = "running"
               PROVE  w \in windows' \/ \E t \in Threads : ClosedBy(t, w)'
    OBVIOUS
  <2>1. win[w].process = "running"  BY DEF Tame
  <2> QED  BY <1>1, <2>1, Zenon DEF LifeInv, OrphanInv, Quiet
<1>4. \A w \in windows' : win'[w].process # "running"
  <2> SUFFICES ASSUME NEW w \in windows
               PROVE  win'[w].process # "running"
    BY <1>1
  <2>1. w \in Windows  BY MuxAssumption DEF WindowInv, Windows
  <2>2. CASE TearDown
    <3>1. PICK stopped \in SUBSET {v \in windows : win[v].bridge = "running"} :
            win' = [v \in Windows |->
              [win[v] EXCEPT !.process = IF v \in windows /\ @ = "running" THEN "hungup" ELSE @,
                             !.bridge  = IF v \in stopped THEN "stopped" ELSE @]]
      BY <2>2 DEF TearDown
    <3> QED  BY <2>1, <3>1 DEF WinInv, WinTypes
  <2>3. CASE EndServerClose
    <3>1. closing = "torn" /\ win' = win  BY <2>3 DEF EndServerClose, windowVars
    <3> QED  BY <3>1 DEF LifeInv, OrphanInv
  <2> QED  BY <2>2, <2>3
<1>5. closing' = "done" => \A r \in Requests : ~StartPending(Request(r))'
  <2> SUFFICES ASSUME closing' = "done"
               PROVE  \A r \in Requests : ~StartPending(Request(r))'
    OBVIOUS
  <2>1. \A r \in Requests : ~StartPending(Request(r))
    BY DEF TearDown, EndServerClose
  <2> QED  BY <1>1, <2>1 DEF StartPending
<1> QED  BY <1>2, <1>3, <1>4, <1>5 DEF LifeInv, OrphanInv

\* A move that leaves the list and the state of the server alone, in most cases.
LEMMA LifeStep ==
  ASSUME TypeInv, LifeInv, [Next]_vars
  PROVE  WinInv' /\ LifeInv'
<1> USE DEF TypeInv
<1>1. ASSUME NEW t \in Threads, PublishWindow(t) \/ AnnounceClosed(t)
      PROVE  WinInv' /\ LifeInv'
  BY <1>1, PublishLife, AnnounceLife
<1> SUFFICES ASSUME \A t \in Threads : ~PublishWindow(t) /\ ~AnnounceClosed(t)
             PROVE  WinInv' /\ LifeInv'
  BY <1>1
<1>2. WinInv' /\ Tame  BY NextIsTame DEF LifeInv
<1> DEFINE frame == /\ UNCHANGED <<windows, created>>
                    /\ closing' = closing \/ closing' \notin {"torn", "done"}
<1>3. ASSUME Quiet, frame
      PROVE  LifeInv'
  BY <1>2, <1>3, LifeFrame
<1>4. ASSUME NEW t \in Threads,
        \/ ResizeWithRedraw(t) \/ ResizeForClient(t) \/ ForceRedraw(t)
        \/ RefreshPendingFocus(t) \/ RefreshPendingResize(t)
        \/ Focus(t) \/ ReplayFocused(t) \/ RedrawFocused(t)
        \/ AdmitStart(t) \/ StartProcess(t) \/ RejectWindow(t) \/ KillRejected(t)
        \/ ShowNewWindow(t) \/ Select(t) \/ ShowActivated(t) \/ SelectQuietly(t)
        \/ StopBridgeFails(t)
      PROVE  LifeInv'
  <2>1. frame
    BY <1>4 DEF ResizeWithRedraw, ResizeForClient, ForceRedraw, RefreshPendingFocus,
      RefreshPendingResize, Focus, ReplayFocused, RedrawFocused, AdmitStart, StartProcess,
      RejectWindow, KillRejected, ShowNewWindow, Select, ShowActivated, SelectQuietly,
      StopBridgeFails, windowVars, otherVars
  <2>2. Quiet  BY <1>4, QuietThreads
  <2> QED  BY <1>3, <2>1, <2>2
<1>5. ASSUME NEW t \in Threads, NEW label, Goto(t, label, arg[t]),
             label \in {"stopping", "commit"}, pc[t] \in {"close", "stopping"},
             arg[t].win \in 1 .. created, label = "commit" => win'[arg[t].win].bridge # "running",
             frame
      PROVE  LifeInv'
  <2>1. \A u \in Threads : pc'[u] = (IF u = t THEN label ELSE pc[u]) /\ arg'[u] = arg[u]
    BY <1>5 DEF Goto, ThreadInv
  <2>2. arg[t].then # "announcing"  BY <1>5 DEF ThreadInv, ThreadOK
  <2>3. MayClose(t)'  BY <1>5, <2>1 DEF MayClose
  <2>4. Quiet  BY <1>5, <2>1, <2>2, <2>3 DEF Quiet, ClosedBy, StartPending
  <2> QED  BY <1>3, <1>5, <2>4
<1>6. ASSUME NEW t \in Threads, BeginClose(t)
      PROVE  LifeInv'
  <2> DEFINE w == arg[t].win
  <2>1. frame /\ pc[t] = "close"  BY <1>6 DEF BeginClose, otherVars
  <2>2. \/ Finish(t)
        \/ Open(w) /\ Goto(t, "stopping", arg[t])
        \/ Open(w) /\ Goto(t, "commit", arg[t]) /\ win' = win /\ win[w].bridge = "none"
    BY <1>6, Zenon DEF BeginClose
  <2>3. Open(w) => w \in 1 .. created  BY DEF Open, WindowInv
  <2>4. CASE Finish(t)
    <3>1. Quiet  BY <2>1, <2>4, QuietFinish
    <3> QED  BY <1>3, <2>1, <3>1
  <2> HIDE DEF frame
  <2>5. CASE Open(w) /\ Goto(t, "stopping", arg[t])
    BY <1>5, <2>1, <2>3, <2>5
  <2>6. CASE Open(w) /\ Goto(t, "commit", arg[t]) /\ win' = win /\ win[w].bridge = "none"
    BY <1>5, <2>1, <2>3, <2>6
  <2> QED  BY <2>2, <2>4, <2>5, <2>6
<1>7. ASSUME NEW t \in Threads, StopBridge(t)
      PROVE  LifeInv'
  <2> DEFINE w == arg[t].win
  <2>1. /\ pc[t] = "stopping" /\ Goto(t, "commit", arg[t]) /\ frame
        /\ win' = [win EXCEPT ![w].bridge = "stopped"]
    BY <1>7 DEF StopBridge, otherVars
  <2>2. w \in 1 .. created  BY <2>1 DEF LifeInv, CloseInv
  <2>3. w \in Windows  BY <2>2, MuxAssumption DEF WindowInv, Windows
  <2>4. win'[w].bridge # "running"  BY <2>1, <2>3 DEF WinInv, WinTypes
  <2> QED  BY <1>5, <2>1, <2>2, <2>4
<1>8. ASSUME NEW t \in Threads, CommitClose(t)
      PROVE  LifeInv'
  <2> DEFINE w == arg[t].win
  <2>1. CASE Open(w)
    <3>1. /\ Retire(w, Replacement(w)) /\ AfterRetire(t, w, Replacement(w), size)
          /\ closing' = closing /\ created' = created /\ pc[t] = "commit"
      BY <1>8, <2>1 DEF CommitClose
    <3>2. windows' = windows \ {w} /\ w \in windows /\ ~Closed
      BY <2>1, <3>1 DEF Retire, Open
    <3>3. PICK label \in {"activated", "announcing"} : \E a :
            Goto(t, label, a) /\ a.win = w /\ (label = "announcing" \/ a.then = "announcing")
      BY <3>1, AfterRetireMoves
    <3>4. PICK a :
            Goto(t, label, a) /\ a.win = w /\ (label = "announcing" \/ a.then = "announcing")
      BY <3>3
    <3> HIDE DEF w
    <3> QED  BY <1>2, <3>1, <3>2, <3>4, RetireLife
  <2>2. CASE ~Open(w)
    <3>1. frame /\ Finish(t) /\ pc[t] = "commit"
      BY <1>8, <2>2, Zenon DEF CommitClose
    <3>2. Quiet  BY <3>1, QuietFinish
    <3> QED  BY <1>3, <3>1, <3>2
  <2> QED  BY <2>1, <2>2
<1>9. ASSUME NEW w \in Windows, MarkWindowClosed(w)
      PROVE  LifeInv'
  <2> DEFINE t == Watcher(w)
             others == windows \ {w}
             v == IF others = {} THEN NoWindow ELSE Min(others)
  <2>0. t \in Threads  BY ThreadSorts
  <2>1. closing' = closing /\ created' = created /\ pc[t] = "idle"
    BY <1>9 DEF MarkWindowClosed, otherVars
  <2>2. CASE Open(w)
    <3>1. Retire(w, v) /\ AfterRetire(t, w, v, NoGrid)
      BY <1>9, <2>2 DEF MarkWindowClosed
    <3>2. windows' = windows \ {w} /\ w \in windows /\ ~Closed
      BY <2>2, <3>1 DEF Retire, Open
    <3>3. PICK label \in {"activated", "announcing"} : \E a :
            Goto(t, label, a) /\ a.win = w /\ (label = "announcing" \/ a.then = "announcing")
      BY <3>1, AfterRetireMoves
    <3>4. PICK a :
            Goto(t, label, a) /\ a.win = w /\ (label = "announcing" \/ a.then = "announcing")
      BY <3>3
    <3> HIDE DEF t, v
    <3> QED  BY <1>2, <2>0, <2>1, <3>2, <3>4, RetireLife
  <2>3. CASE ~Open(w)
    <3>1. UNCHANGED windows /\ Goto(t, "over", NoArg)
      BY <1>9, <2>3 DEF MarkWindowClosed
    <3>2. NoArg.then = "idle"  BY DEF NoArg
    <3> HIDE DEF t
    <3>3. Quiet  BY <2>0, <2>1, <3>1, <3>2, QuietGoto
    <3> QED  BY <1>3, <2>1, <3>1, <3>3
  <2> QED  BY <2>2, <2>3
<1>10. ASSUME NEW t \in Threads, ThreadStep(t)
       PROVE  LifeInv'
  <2>1. ~PublishWindow(t) /\ ~AnnounceClosed(t)  OBVIOUS
  <2> QED  BY <1>4, <1>6, <1>7, <1>8, <1>10, <2>1 DEF ThreadStep
<1>11. ASSUME NEW c \in Clients,
         \/ ClientStep(c) \/ (\E g \in Grids : BeginAttach(c, g))
         \/ Interact(c) \/ Disconnect(c) \/ AmbiguousEscape(c) \/ ClaimFocus(c)
       PROVE  LifeInv'
  <2>1. frame
    BY <1>11 DEF ClientStep, ChooseTransition, LockForAttach, AbandonAttach, LoseTransition,
      RegisterAttach, RedrawAttached, RemoveAttach, BeginAttach, Interact, Disconnect,
      AmbiguousEscape, ClaimFocus, windowVars, otherVars
  <2>2. Quiet  BY <1>11, QuietClients
  <2> QED  BY <1>3, <2>1, <2>2
<1>12. ASSUME NEW w \in Windows,
         \/ EndOutput(w) \/ ResumeForwarding(w) \/ RestoreGeometry(w)
         \/ ProcessExit(w) \/ \E mid \in BOOLEAN : BeginOutput(w, mid)
       PROVE  LifeInv'
  <2>1. frame
    BY <1>12 DEF EndOutput, ResumeForwarding, RestoreGeometry, ProcessExit, BeginOutput, otherVars
  <2>2. Quiet  BY <1>12, QuietOthers
  <2> QED  BY <1>3, <2>1, <2>2
<1>13. CASE ServerStep
  <2>1. Quiet  BY <1>13, QuietOthers
  <2>2. CASE BeginServerClose
    <3>1. frame  BY <2>2 DEF BeginServerClose
    <3> QED  BY <1>2, <1>3, <2>1, <3>1
  <2> QED  BY <1>2, <1>13, <2>1, <2>2, ShutdownLife DEF ServerStep
<1>14. CASE AskShutdown \/ UNCHANGED vars
  <2>1. Quiet  BY <1>14, QuietOthers
  <2>2. frame  BY <1>14 DEF AskShutdown, vars, windowVars, otherVars
  <2> QED  BY <1>2, <1>3, <2>1, <2>2
<1>15. CASE \E r \in Requests :
              \/ AskTheme(r)
              \/ \E c \in Registered \cup {NoClient} :
                   \/ \E kind \in Kinds : AskCreate(r, c, kind)
                   \/ \E label \in {"select", "quiet", "close"}, w \in 1 .. created : AskWindow(r, c, label, w)
                   \/ \E g \in Grids : AskResize(r, c, g)
                   \/ \E g \in Grids, redraw \in BOOLEAN : c # NoClient /\ AskFocus(r, c, g, redraw)
  <2>1. Quiet  BY <1>15, QuietOthers
  <2>2. \A r, event, label, a : Ask(r, event, label, a) => frame  BY DEF Ask, windowVars
  <2>3. frame
    BY <1>15, <2>2 DEF AskTheme, AskCreate, AskWindow, AskResize, AskFocus
  <2> QED  BY <1>2, <1>3, <2>1, <2>3
<1>16. CASE UserStep
  BY <1>2, <1>11, <1>12, <1>14, <1>15, <1>16 DEF UserStep
<1> QED  BY <1>2, <1>9, <1>10, <1>11, <1>12, <1>13, <1>14, <1>16 DEF Next, WindowStep

(***************************************************************************)
(* The size of the window that is shown                                    *)
(***************************************************************************)
\* A step of t keeps what was chosen, and a repair that t does not make.
Steady(t) ==
  ChosenInv' /\ \A w \in Windows : Repairing(w) => Repairing(w)' \/ Repairs(t, w)

KindsKept ==
  1 .. created \subseteq 1 .. created' /\ \A w \in 1 .. created : win'[w].kind = win[w].kind

LEMMA SteadyFrame ==
  ASSUME ChosenInv, KindsKept, UNCHANGED <<pc, arg>>, NEW t
  PROVE  Steady(t)
<1>1. ChosenInv'  BY DEF ChosenInv, ChosenOK, KindsKept
<1>2. \A w \in Windows : Repairing(w) => Repairing(w)'  BY DEF Repairing, Repairs
<1> QED  BY <1>1, <1>2 DEF Steady

LEMMA SteadyGoto ==
  ASSUME ThreadInv, ChosenInv, KindsKept, NEW t \in Threads, NEW label, NEW a,
         Goto(t, label, a), ChosenOK(label, a)
  PROVE  Steady(t)
<1>1. \A u \in Threads : pc'[u] = (IF u = t THEN label ELSE pc[u])
                         /\ arg'[u] = (IF u = t THEN a ELSE arg[u])
  BY DEF Goto, ThreadInv
<1>2. ASSUME NEW u \in Threads
      PROVE  ChosenOK(pc[u], arg[u])'
  <2>1. CASE u = t
    <3>1. pc'[u] = label /\ arg'[u] = a  BY <1>1, <2>1
    <3> QED  BY <3>1 DEF ChosenOK, KindsKept
  <2>2. CASE u # t
    <3>1. pc'[u] = pc[u] /\ arg'[u] = arg[u] /\ ChosenOK(pc[u], arg[u])
      BY <1>1, <2>2 DEF ChosenInv
    <3> QED  BY <3>1 DEF ChosenOK, KindsKept
  <2> QED  BY <2>1, <2>2
<1>3. ASSUME NEW w \in Windows, Repairing(w)
      PROVE  Repairing(w)' \/ Repairs(t, w)
  <2>1. PICK u \in Threads : Repairs(u, w)  BY <1>3 DEF Repairing
  <2>2. CASE u = t  BY <2>1, <2>2
  <2>3. CASE u # t
    <3>1. pc'[u] = pc[u] /\ arg'[u] = arg[u]  BY <1>1, <2>3
    <3>2. Repairs(u, w)'  BY <2>1, <3>1 DEF Repairs
    <3> QED  BY <3>2 DEF Repairing
  <2> QED  BY <2>2, <2>3
<1> QED  BY <1>2, <1>3 DEF Steady, ChosenInv

LEMMA SteadyFinish ==
  ASSUME ThreadInv, ChosenInv, KindsKept, NEW t \in Threads, Finish(t)
  PROVE  Steady(t)
<1> DEFINE a == [arg[t] EXCEPT !.then = "idle", !.client = NoClient, !.size = NoGrid]
<1>1. t[1] \in Sorts /\ ThreadOK(t[1], pc[t], arg[t]) /\ ChosenOK(pc[t], arg[t])
  BY ThreadSorts DEF ThreadInv, ChosenInv
<1>2. CASE arg[t].then = "idle"
  <2>1. Goto(t, Home(t), NoArg) /\ Home(t) \in {"attached", "idle"} /\ NoArg.then = "idle"
    BY <1>2 DEF Finish, Home, NoArg
  <2>2. ChosenOK(Home(t), NoArg)  BY <2>1 DEF ChosenOK
  <2> QED  BY <2>1, <2>2, SteadyGoto
<1>3. CASE arg[t].then # "idle"
  <2>1. Goto(t, arg[t].then, a)  BY <1>3 DEF Finish
  <2>2. arg[t].then \in Errands[t[1]] /\ arg[t] \in ArgTypes  BY <1>1 DEF ThreadOK
  <2>3. arg[t].then \notin {"shown", "refreshFocus", "replay", "replayed", "focus"}
    BY <1>1, <2>2 DEF Errands, Sorts
  <2>4. a.then = "idle" /\ a.win = arg[t].win  BY <2>2 DEF ArgTypes
  <2> HIDE DEF a
  <2>5. ChosenOK(arg[t].then, a)  BY <1>1, <2>3, <2>4 DEF ChosenOK
  <2> QED  BY <2>1, <2>5, SteadyGoto
<1> QED  BY <1>2, <1>3

LEMMA SteadyThreads ==
  ASSUME TypeInv, ChosenInv, KindsKept, NEW t \in Threads,
         \/ ResizeWithRedraw(t) \/ ResizeForClient(t) \/ ForceRedraw(t)
         \/ RefreshPendingFocus(t) \/ RefreshPendingResize(t)
         \/ Focus(t) \/ ReplayFocused(t) \/ RedrawFocused(t)
         \/ AdmitStart(t) \/ StartProcess(t) \/ RejectWindow(t) \/ KillRejected(t)
         \/ ShowNewWindow(t) \/ Select(t) \/ ShowActivated(t) \/ SelectQuietly(t)
         \/ BeginClose(t) \/ StopBridge(t) \/ StopBridgeFails(t) \/ AnnounceClosed(t)
  PROVE  Steady(t)
<1> USE DEF TypeInv
<1>0. arg[t] \in ArgTypes /\ ChosenOK(pc[t], arg[t]) /\ NoArg.then = "idle"
  BY DEF ThreadInv, ChosenInv, NoArg
<1>1. ASSUME NEW label, NEW a, Goto(t, label, a), ChosenOK(label, a)
      PROVE  Steady(t)
  BY <1>1, SteadyGoto
<1>2. ASSUME Finish(t)
      PROVE  Steady(t)
  BY <1>2, SteadyFinish
<1> DEFINE same(a) == a.then = arg[t].then /\ a.win = arg[t].win
           plain == {"idle", "over", "resizing", "activated", "starting", "started", "rejecting",
                     "stopping", "commit"}
\* The thread goes on with what it was sent for.
<1>3. ASSUME NEW a, same(a), \E label \in plain : Goto(t, label, a)
      PROVE  Steady(t)
  <2>1. PICK label \in plain : Goto(t, label, a)  BY <1>3
  <2>2. ChosenOK(label, a)  BY <1>0, <1>3 DEF ChosenOK
  <2> QED  BY <1>1, <2>1, <2>2
\* It has nothing else to do, or something else.
<1>4. ASSUME NEW label, NEW a, label # "quiet", a.then # "quiet", Goto(t, label, a)
      PROVE  Steady(t)
  <2>1. ChosenOK(label, a)  BY <1>4 DEF ChosenOK
  <2> QED  BY <1>1, <1>4, <2>1
<1>5. /\ \A g : same([arg[t] EXCEPT !.size = g])
      /\ \A c, g : same([arg[t] EXCEPT !.client = c, !.size = g])
      /\ \A w, g : same([arg[t] EXCEPT !.next = w, !.size = g])
      /\ \A w : [arg[t] EXCEPT !.win = w].then = arg[t].then
      /\ \A w, g : [NoArg EXCEPT !.size = g, !.pin = w].then = "idle"
  BY <1>0 DEF ArgTypes, NoArg
<1> HIDE DEF same, plain
<1>6. CASE ResizeWithRedraw(t) \/ RedrawFocused(t) \/ ShowActivated(t) \/ SelectQuietly(t)
           \/ StopBridgeFails(t)
  BY <1>2, <1>6 DEF ResizeWithRedraw, RedrawFocused, ShowActivated, SelectQuietly, StopBridgeFails
<1>7. CASE AdmitStart(t) \/ StartProcess(t) \/ RejectWindow(t) \/ KillRejected(t)
           \/ BeginClose(t) \/ StopBridge(t) \/ AnnounceClosed(t)
  <2>1. \/ Finish(t)
        \/ \E label \in {"idle", "over", "rejecting"} : Goto(t, label, NoArg)
        \/ Goto(t, "starting", [arg[t] EXCEPT !.size = published])
        \/ \E label \in {"started", "stopping", "commit"} : Goto(t, label, arg[t])
    BY <1>7, Zenon DEF AdmitStart, StartProcess, RejectWindow, KillRejected, BeginClose,
      StopBridge, AnnounceClosed
  <2>2. same(arg[t])  BY DEF same
  <2>3. {"starting", "started", "stopping", "commit"} \subseteq plain  BY DEF plain
  <2> QED  BY <1>0, <1>2, <1>3, <1>4, <1>5, <2>1, <2>2, <2>3
<1>8. /\ \A g : Goto(t, "resizing", [arg[t] EXCEPT !.size = g]) => Steady(t)
      /\ Goto(t, "resizing", arg[t]) => Steady(t)
      /\ \A w, g : Goto(t, "activated", [arg[t] EXCEPT !.next = w, !.size = g]) => Steady(t)
      /\ \A w, g : Goto(t, "resizing", [NoArg EXCEPT !.size = g, !.pin = w]) => Steady(t)
  <2>1. same(arg[t]) /\ {"resizing", "activated"} \subseteq plain  BY DEF same, plain
  <2> QED  BY <1>3, <1>4, <1>5, <2>1
<1>9. ASSUME arg[t].then # "quiet"
      PROVE  /\ \A c, g : Goto(t, "replay", [arg[t] EXCEPT !.client = c, !.size = g]) => Steady(t)
             /\ \A w : Goto(t, "replayed", [arg[t] EXCEPT !.win = w]) => Steady(t)
             /\ Goto(t, "refreshFocus", arg[t]) => Steady(t)
  <2>1. /\ \A c, g : [arg[t] EXCEPT !.client = c, !.size = g].then # "quiet"
        /\ \A w : [arg[t] EXCEPT !.win = w].then # "quiet"
    BY <1>5, <1>9 DEF same
  <2>2. \A c, g : Goto(t, "replay", [arg[t] EXCEPT !.client = c, !.size = g]) => Steady(t)
    BY <1>4, <2>1
  <2>3. \A w : Goto(t, "replayed", [arg[t] EXCEPT !.win = w]) => Steady(t)
    BY <1>4, <2>1
  <2>4. Goto(t, "refreshFocus", arg[t]) => Steady(t)
    BY <1>4, <1>9
  <2> QED  BY <2>2, <2>3, <2>4
<1>10. CASE ResizeForClient(t) \/ ForceRedraw(t) \/ RefreshPendingResize(t)
  <2>1. \/ Finish(t) \/ Goto(t, "resizing", arg[t])
        \/ \E h : Goto(t, "resizing", [arg[t] EXCEPT !.size = h])
        \/ \E w, h : Goto(t, "resizing", [NoArg EXCEPT !.size = h, !.pin = w])
    BY <1>10, Zenon DEF ResizeForClient, ForceRedraw, RefreshPendingResize
  <2> QED  BY <1>2, <1>8, <2>1
<1>11. CASE RefreshPendingFocus(t)
  <2>1. arg[t].then # "quiet"  BY <1>0, <1>11 DEF RefreshPendingFocus, ChosenOK
  <2>2. Finish(t) \/ \E c, h : Goto(t, "replay", [arg[t] EXCEPT !.client = c, !.size = h])
    BY <1>11, Zenon DEF RefreshPendingFocus
  <2> QED  BY <1>2, <1>9, <2>1, <2>2
<1>12. CASE Focus(t)
  <2> DEFINE c == IF arg[t].client = NoClient THEN primary ELSE arg[t].client
  <2>1. pc[t] = "focus" /\ (Finish(t) \/ TakeFocus(t, c, arg[t].size, arg[t].redraw))
    BY <1>12 DEF Focus
  <2> HIDE DEF c
  <2>2. \/ Finish(t) \/ (\E h : Goto(t, "resizing", [arg[t] EXCEPT !.size = h]))
        \/ arg[t].redraw /\ \E h : Goto(t, "replay", [arg[t] EXCEPT !.client = c, !.size = h])
    BY <2>1, Zenon DEF TakeFocus
  <2>3. arg[t].redraw => arg[t].then # "quiet"  BY <1>0, <2>1 DEF ChosenOK
  <2> QED  BY <1>2, <1>8, <1>9, <2>2, <2>3
<1>13. CASE ReplayFocused(t)
  <2>1. arg[t].then # "quiet"  BY <1>0, <1>13 DEF ReplayFocused, ChosenOK
  <2>2. Finish(t) \/ \E w : Goto(t, "replayed", [arg[t] EXCEPT !.win = w])
    BY <1>13, Zenon DEF ReplayFocused
  <2> QED  BY <1>2, <1>9, <2>1, <2>2
<1>14. CASE ShowNewWindow(t)
  <2>1. arg[t].then # "quiet"  BY <1>0, <1>14 DEF ShowNewWindow, ChosenOK
  <2>2. Finish(t) \/ Goto(t, "refreshFocus", arg[t])
    BY <1>14, Zenon DEF ShowNewWindow
  <2> QED  BY <1>2, <1>9, <2>1, <2>2
<1>15. CASE Select(t)
  <2>1. Finish(t) \/ \E w, g : Goto(t, "activated", [arg[t] EXCEPT !.next = w, !.size = g])
    BY <1>15, Zenon DEF Select
  <2> QED  BY <1>2, <1>8, <2>1
<1> QED  BY <1>6, <1>7, <1>10, <1>11, <1>12, <1>13, <1>14, <1>15

LEMMA SteadyClients ==
  ASSUME TypeInv, ChosenInv, KindsKept, NEW c \in Clients,
         \/ ClientStep(c) \/ (\E g \in Grids : BeginAttach(c, g))
         \/ Interact(c) \/ Disconnect(c) \/ AmbiguousEscape(c) \/ ClaimFocus(c)
  PROVE  Steady(Attach(c))
<1> USE DEF TypeInv
<1> DEFINE t == Attach(c)
<1>0. t \in Threads /\ arg[t] \in ArgTypes /\ NoArg.then = "idle" /\ arg[t].then # "quiet"
  <2>1. t \in Threads /\ t[1] = "client"  BY ThreadSorts
  <2>2. ThreadOK("client", pc[t], arg[t])  BY <2>1 DEF ThreadInv
  <2> QED  BY <2>1, <2>2 DEF ThreadInv, ThreadOK, NoArg, Errands
<1> SUFFICES Steady(t)  OBVIOUS
<1> HIDE DEF t
<1>1. ASSUME NEW label, NEW a, Goto(t, label, a), a.then # "quiet", label # "quiet"
      PROVE  Steady(t)
  <2>1. ChosenOK(label, a)  BY <1>1 DEF ChosenOK
  <2> QED  BY <1>0, <1>1, <2>1, SteadyGoto
<1>2. ASSUME Finish(t)
      PROVE  Steady(t)
  BY <1>0, <1>2, SteadyFinish
<1>3. CASE ClientStep(c)
  <2>1. \/ UNCHANGED <<pc, arg>>
        \/ \E label \in {"registering", "away", "waiting", "attached"} : Goto(t, label, NoArg)
        \/ \E w : Goto(t, "redrawing", [NoArg EXCEPT !.win = w])
        \/ \E g : Goto(t, "resizing", [NoArg EXCEPT !.size = g, !.then = "away"])
    BY <1>3, Zenon DEF ClientStep, ChooseTransition, LockForAttach, AbandonAttach, LoseTransition,
      RegisterAttach, RedrawAttached, RemoveAttach, t
  <2>2. /\ \A w : [NoArg EXCEPT !.win = w].then = "idle"
        /\ \A g : [NoArg EXCEPT !.size = g, !.then = "away"].then = "away"
    BY DEF NoArg
  <2> QED  BY <1>0, <1>1, <2>1, <2>2, SteadyFrame
<1>4. CASE (\E g \in Grids : BeginAttach(c, g)) \/ Interact(c) \/ Disconnect(c) \/ AmbiguousEscape(c)
  <2>1. \/ UNCHANGED <<pc, arg>>
        \/ \E label \in {"waiting", "leaving"} : Goto(t, label, NoArg)
        \/ Goto(t, "focus", [NoArg EXCEPT !.client = c, !.redraw = TRUE])
    BY <1>4, Zenon DEF BeginAttach, Interact, Disconnect, AmbiguousEscape, t
  <2>2. [NoArg EXCEPT !.client = c, !.redraw = TRUE].then = "idle"
    BY DEF NoArg
  <2> QED  BY <1>0, <1>1, <2>1, <2>2, SteadyFrame
<1>5. CASE ClaimFocus(c)
  <2>1. \/ UNCHANGED <<pc, arg>> \/ Finish(t)
        \/ (\E h : Goto(t, "resizing", [arg[t] EXCEPT !.size = h]))
        \/ \E h : Goto(t, "replay", [arg[t] EXCEPT !.client = c, !.size = h])
    BY <1>5, Zenon DEF ClaimFocus, TakeFocus, t
  <2>2. /\ \A h : [arg[t] EXCEPT !.size = h].then = arg[t].then
        /\ \A h : [arg[t] EXCEPT !.client = c, !.size = h].then = arg[t].then
    BY <1>0 DEF ArgTypes
  <2> QED  BY <1>0, <1>1, <1>2, <2>1, <2>2, SteadyFrame
<1> QED  BY <1>3, <1>4, <1>5

LEMMA SteadyOutput ==
  ASSUME TypeInv, ChosenInv, KindsKept, NEW w \in Windows,
         \/ EndOutput(w) \/ ResumeForwarding(w) \/ RestoreGeometry(w) \/ ProcessExit(w)
         \/ \E mid \in BOOLEAN : BeginOutput(w, mid)
  PROVE  \E t \in {Reader(w), Timer(w)} : Steady(t) /\ \A v : ~Repairs(t, v)
<1> USE DEF TypeInv
<1>0. ASSUME NEW t \in {Reader(w), Timer(w)}
      PROVE  t \in Threads /\ arg[t] \in ArgTypes /\ \A v : ~Repairs(t, v)
  <2>1. t \in Threads /\ t[1] \in {"reader", "timer"}  BY ThreadSorts
  <2>2. ThreadOK(t[1], pc[t], arg[t])  BY <2>1 DEF ThreadInv
  <2> QED  BY <2>1, <2>2 DEF ThreadOK, Repairs, Points
<1>1. ASSUME NEW t \in {Reader(w), Timer(w)}, NEW label, NEW a, Goto(t, label, a),
             a.then # "quiet", label \in {"idle", "writing", "ending", "refreshFocus", "refreshResize"}
      PROVE  Steady(t)
  <2>1. ChosenOK(label, a)  BY <1>1 DEF ChosenOK
  <2> QED  BY <1>0, <1>1, <2>1, SteadyGoto
<1>2. CASE EndOutput(w) \/ ResumeForwarding(w)
  <2>1. PICK t \in {Reader(w), Timer(w)} : \E focusDue, resizeDue : Refresh(t, focusDue, resizeDue)
    BY <1>2 DEF EndOutput, ResumeForwarding
  <2>2. PICK focusDue, resizeDue : Refresh(t, focusDue, resizeDue)  BY <2>1
  <2> DEFINE label == IF focusDue THEN "refreshFocus" ELSE IF resizeDue THEN "refreshResize" ELSE "idle"
             a == [arg[t] EXCEPT !.then = IF focusDue /\ resizeDue THEN "refreshResize" ELSE "idle"]
  <2>3. Goto(t, label, a)  BY <2>2 DEF Refresh
  <2>4. a.then \in {"refreshResize", "idle"} /\ label \in {"idle", "refreshFocus", "refreshResize"}
    BY <1>0 DEF ArgTypes
  <2> HIDE DEF label, a
  <2>5. Steady(t)  BY <1>1, <2>3, <2>4
  <2> QED  BY <1>0, <2>5
<1>3. CASE \E mid \in BOOLEAN : BeginOutput(w, mid)
  <2>1. \E label \in {"writing", "ending"} : Goto(Reader(w), label, NoArg)
    BY <1>3 DEF BeginOutput
  <2>2. NoArg.then = "idle"  BY DEF NoArg
  <2>3. Steady(Reader(w))  BY <1>1, <2>1, <2>2
  <2> QED  BY <1>0, <2>3
<1>4. CASE RestoreGeometry(w) \/ ProcessExit(w)
  <2>1. UNCHANGED <<pc, arg>>  BY <1>4 DEF RestoreGeometry, ProcessExit
  <2>2. Steady(Reader(w))  BY <2>1, SteadyFrame
  <2> QED  BY <1>0, <2>2
<1> QED  BY <1>2, <1>3, <1>4

LEMMA SteadyAsk ==
  ASSUME TypeInv, ChosenInv, KindsKept, NEW r \in Requests, NEW c \in Registered \cup {NoClient}
  PROVE  /\ AskTheme(r) => Steady(Request(r))
         /\ \A kind \in Kinds : AskCreate(r, c, kind) => Steady(Request(r))
         /\ \A label \in {"select", "quiet", "close"}, w \in 1 .. created :
              AskWindow(r, c, label, w) => Steady(Request(r))
         /\ \A g \in Grids : AskResize(r, c, g) => Steady(Request(r))
         /\ \A g \in Grids, redraw \in BOOLEAN : AskFocus(r, c, g, redraw) => Steady(Request(r))
<1> USE DEF TypeInv
<1> DEFINE t == Request(r)
<1>1. ASSUME NEW event, NEW label, NEW a, Ask(r, event, label, a), ChosenOK(label, a)
      PROVE  Steady(t)
  <2>1. t \in Threads /\ Goto(t, label, a)
    BY <1>1, ThreadSorts DEF Ask
  <2> HIDE DEF t
  <2> QED  BY <1>1, <2>1, SteadyGoto
<1>2. ASSUME NEW event, NEW label, NEW a, Ask(r, event, label, a), a.then # "quiet",
             label \in {"theme", "create", "focus", "resize"}
      PROVE  Steady(t)
  <2>1. ChosenOK(label, a)  BY <1>2 DEF ChosenOK
  <2> QED  BY <1>1, <1>2, <2>1
<1>3. /\ [NoArg EXCEPT !.pin = active].then = "idle"
      /\ \A kind : [NoArg EXCEPT !.kind = kind].then = "idle"
      /\ \A kind : [NoArg EXCEPT !.client = c, !.kind = kind, !.then = "create"].then = "create"
      /\ \A g : [NoArg EXCEPT !.client = c, !.size = g].then = "idle"
      /\ \A g, redraw : [NoArg EXCEPT !.client = c, !.size = g, !.redraw = redraw].then = "idle"
  BY DEF NoArg
<1> HIDE DEF t
<1>4. AskTheme(r) => Steady(t)  BY <1>2, <1>3 DEF AskTheme
<1>5. \A kind \in Kinds : AskCreate(r, c, kind) => Steady(t)  BY <1>2, <1>3 DEF AskCreate
<1>6. ASSUME NEW label \in {"select", "quiet", "close"}, NEW w \in 1 .. created,
             AskWindow(r, c, label, w)
      PROVE  Steady(t)
  <2> DEFINE a == [NoArg EXCEPT !.client = c, !.win = w, !.then = label]
  <2>1. Ask(r, "manage", "focus", a) /\ (label = "quiet" => win[w].kind = "native")
    BY <1>6 DEF AskWindow
  <2>2. a.then = label /\ a.win = w /\ a.redraw = FALSE  BY DEF NoArg
  <2> HIDE DEF a
  <2>3. ChosenOK("focus", a)  BY <2>1, <2>2 DEF ChosenOK
  <2> QED  BY <1>1, <2>1, <2>3
<1>7. \A g \in Grids : AskResize(r, c, g) => Steady(t)  BY <1>2, <1>3 DEF AskResize
<1>8. \A g \in Grids, redraw \in BOOLEAN : AskFocus(r, c, g, redraw) => Steady(t)
  BY <1>2, <1>3 DEF AskFocus
<1> QED  BY <1>4, <1>5, <1>6, <1>7, <1>8 DEF t

LEMMA KindsStep ==
  ASSUME TypeInv, LifeInv, [Next]_vars
  PROVE  KindsKept
<1> USE DEF TypeInv
<1>0. created \in Nat /\ 1 .. created \subseteq Windows
  BY MuxAssumption DEF WindowInv, Windows
<1>1. ASSUME NEW t \in Threads, PublishWindow(t)
      PROVE  KindsKept
  <2>1. created' = created + 1 /\ \E r : win' = [win EXCEPT ![created + 1] = r]
    BY <1>1 DEF PublishWindow
  <2> QED  BY <1>0, <2>1 DEF KindsKept, WinInv
<1>2. ASSUME NEW t \in Threads, AnnounceClosed(t)
      PROVE  KindsKept
  <2>1. created' = created  BY <1>2 DEF AnnounceClosed
  <2>2. PICK b : win' = [win EXCEPT ![arg[t].win].announced = @ + 1, ![arg[t].win].bridge = b,
                             ![arg[t].win].process = IF @ = "running" THEN "hungup" ELSE @]
    BY <1>2 DEF AnnounceClosed
  <2>3. \A w \in Windows : win'[w].kind = win[w].kind  BY <2>2 DEF WinInv, WinTypes
  <2> QED  BY <1>0, <2>1, <2>3 DEF KindsKept
<1> SUFFICES ASSUME \A t \in Threads : ~PublishWindow(t) /\ ~AnnounceClosed(t)
             PROVE  KindsKept
  BY <1>1, <1>2
<1>3. Tame  BY NextIsTame DEF LifeInv
<1>4. ASSUME NEW t \in Threads, ThreadStep(t)
      PROVE  created' = created
  BY <1>4 DEF ThreadStep, ResizeWithRedraw, ResizeForClient, ForceRedraw, RefreshPendingFocus,
      RefreshPendingResize, Focus, ReplayFocused, RedrawFocused, AdmitStart, StartProcess,
      RejectWindow, KillRejected, ShowNewWindow, Select, ShowActivated, SelectQuietly,
      BeginClose, StopBridge, StopBridgeFails, CommitClose, windowVars
<1>5. ASSUME NEW c \in Clients,
         \/ ClientStep(c) \/ (\E g \in Grids : BeginAttach(c, g))
         \/ Interact(c) \/ Disconnect(c) \/ AmbiguousEscape(c) \/ ClaimFocus(c)
      PROVE  created' = created
  BY <1>5 DEF ClientStep, ChooseTransition, LockForAttach, AbandonAttach, LoseTransition,
      RegisterAttach, RedrawAttached, RemoveAttach, BeginAttach, Interact, Disconnect,
      AmbiguousEscape, ClaimFocus, windowVars
<1>6. ASSUME NEW w \in Windows,
         WindowStep(w) \/ ProcessExit(w) \/ \E mid \in BOOLEAN : BeginOutput(w, mid)
      PROVE  created' = created
  BY <1>6 DEF WindowStep, EndOutput, ResumeForwarding, RestoreGeometry, MarkWindowClosed,
      ProcessExit, BeginOutput
<1>7. CASE ServerStep \/ AskShutdown \/ UNCHANGED vars
  <2>1. created' = created
    BY <1>7 DEF ServerStep, BeginServerClose, TearDown, EndServerClose, AskShutdown, vars, windowVars
  <2> QED  BY <1>0, <1>3, <2>1 DEF KindsKept, Tame
<1>8. \A r, event, label, a : Ask(r, event, label, a) => created' = created
  BY DEF Ask, windowVars
<1>9. CASE UserStep
  <2>1. created' = created
    BY <1>5, <1>6, <1>8, <1>9
    DEF UserStep, AskTheme, AskCreate, AskWindow, AskResize, AskFocus, AskShutdown, windowVars
  <2> QED  BY <1>0, <1>3, <2>1 DEF KindsKept, Tame
<1>10. created' = created => KindsKept  BY <1>0, <1>3 DEF KindsKept, Tame
<1> QED  BY <1>4, <1>5, <1>6, <1>7, <1>9, <1>10 DEF Next

SameScreen(r, q) == q.kind = r.kind /\ q.pty = r.pty /\ q.dance = r.dance

LEMMA StillServing ==
  ASSUME Closed => Closed', focus' = focus \/ Registered # {} \/ focus' = <<>>,
         windows' \subseteq windows, active' = active
  PROVE  Serving' => Serving
<1>1. focus' = focus => Registered' = Registered  BY DEF Registered
<1>2. focus' = <<>> => Registered' = {}  BY DEF Registered, ToSet
<1> QED  BY <1>1, <1>2 DEF Serving, Open

\* Nothing happens to the size or to the window that is shown, or it is repaired.
LEMMA ShownFrame ==
  ASSUME TypeInv, ShownInv, NEW t, Steady(t), Serving' => Serving, UNCHANGED <<published, active>>,
         Open(active) => /\ win'[active].kind = win[active].kind
                         /\ Fits(active) => Fits(active)'
                         /\ Serving' /\ Repairs(t, active) => Fits(active)'
  PROVE  FitInv'
<1> SUFFICES ASSUME Serving', win'[active'].kind # "native"
             PROVE  Fits(active)' \/ Repairing(active)'
  BY DEF FitInv, ShownInv, Steady
<1>1. Open(active) /\ active \in Windows  BY OpenIsListed DEF Serving, TypeInv
<1>2. Fits(active) \/ Repairing(active)  BY <1>1 DEF ShownInv
<1>3. CASE Fits(active)  BY <1>1, <1>3
<1>4. CASE Repairing(active)
  <2>1. Repairing(active)' \/ Repairs(t, active)  BY <1>1, <1>4 DEF Steady, Repairing, Repairs
  <2> QED  BY <1>1, <2>1
<1> QED  BY <1>2, <1>3, <1>4

\* The window that is shown takes the size that is published.
LEMMA ShownResized ==
  ASSUME TypeInv, ChosenInv', Closed => Closed', UNCHANGED <<active, windows>>,
         NEW r, win' = Change(active, r),
         Open(active) => r.dance = published' \/ (r.dance = NoGrid /\ r.pty = published')
  PROVE  FitInv'
<1> SUFFICES ASSUME Serving'
             PROVE  Fits(active)'
  BY DEF FitInv, ShownInv
<1>1. Open(active)  BY DEF Serving, Open
<1>2. active \in Windows  BY <1>1, OpenIsListed DEF TypeInv
<1>3. win'[active] = r  BY <1>1, <1>2 DEF Change, TypeInv, WinInv
<1> QED  BY <1>1, <1>3 DEF Fits

LEMMA Delivering ==
  ASSUME TypeInv, NEW w, win' = Change(w, Delivered(PausedForRedraw(win[w]), published)),
         UNCHANGED <<published, active>>
  PROVE  Open(active) => /\ win'[active].kind = win[active].kind
                         /\ Fits(active) => Fits(active)'
                         /\ active = w => Fits(active)'
<1> USE DEF TypeInv
<1> DEFINE p == PausedForRedraw(win[w])
           r == Delivered(p, published)
<1> SUFFICES ASSUME Open(active)
             PROVE  /\ win'[active].kind = win[active].kind
                    /\ Fits(active) => Fits(active)'
                    /\ active = w => Fits(active)'
  OBVIOUS
<1>1. active \in Windows  BY OpenIsListed
<1>2. CASE active # w
  BY <1>1, <1>2 DEF Change, Fits, WinInv
<1>3. CASE active = w
  <2>1. p \in WinTypes /\ p.kind = win[w].kind
    BY <1>1, <1>3, PauseTypes DEF WinInv, SameLife
  <2>2. win'[w] = r  BY <1>1, <1>3 DEF Change, WinInv
  <2> HIDE DEF p
  <2>3. r.kind = p.kind /\ (r.dance = published \/ (r.dance = NoGrid /\ r.pty = published))
    BY <2>1 DEF Delivered, Resized, Danced, WinTypes
  <2> QED  BY <1>3, <2>1, <2>2, <2>3 DEF Fits
<1> QED  BY <1>2, <1>3

LEMMA ScreensKept ==
  ASSUME TypeInv,
         \/ \E t \in Threads :
              \/ ResizeForClient(t) \/ ForceRedraw(t) \/ RefreshPendingFocus(t)
              \/ RefreshPendingResize(t) \/ Focus(t)
              \/ AdmitStart(t) \/ StartProcess(t) \/ RejectWindow(t) \/ KillRejected(t)
              \/ BeginClose(t) \/ StopBridge(t) \/ StopBridgeFails(t) \/ AnnounceClosed(t)
         \/ \E w \in Windows : \/ EndOutput(w) \/ ResumeForwarding(w) \/ ProcessExit(w)
                               \/ \E mid \in BOOLEAN : BeginOutput(w, mid)
  PROVE  \A w \in Windows : SameScreen(win[w], win'[w])
<1> USE DEF TypeInv
<1>1. ASSUME NEW t \in Threads,
        \/ ResizeForClient(t) \/ ForceRedraw(t) \/ RefreshPendingFocus(t)
        \/ RefreshPendingResize(t) \/ Focus(t)
        \/ AdmitStart(t) \/ StartProcess(t) \/ RejectWindow(t) \/ KillRejected(t)
      PROVE  \A w \in Windows : SameScreen(win[w], win'[w])
  <2>1. win' = win
    BY <1>1 DEF ResizeForClient, ForceRedraw, RefreshPendingFocus, RefreshPendingResize, Focus,
      AdmitStart, StartProcess, RejectWindow, KillRejected, windowVars
  <2> QED  BY <2>1 DEF SameScreen
<1>2. ASSUME NEW t \in Threads, BeginClose(t) \/ StopBridge(t) \/ StopBridgeFails(t)
      PROVE  \A w \in Windows : SameScreen(win[w], win'[w])
  <2> DEFINE v == arg[t].win
  <2>1. \/ win' = win \/ win' = [win EXCEPT ![v].closing = TRUE]
        \/ win' = [win EXCEPT ![v].bridge = "stopped"]
        \/ win' = [win EXCEPT ![v] = [win[v] EXCEPT !.closing = FALSE]]
    BY <1>2, Zenon DEF BeginClose, StopBridge, StopBridgeFails, Change
  <2> HIDE DEF v
  <2> QED  BY <2>1 DEF WinInv, WinTypes, SameScreen
<1>3. ASSUME NEW t \in Threads, AnnounceClosed(t)
      PROVE  \A w \in Windows : SameScreen(win[w], win'[w])
  <2>1. PICK b : win' = [win EXCEPT ![arg[t].win].announced = @ + 1, ![arg[t].win].bridge = b,
                             ![arg[t].win].process = IF @ = "running" THEN "hungup" ELSE @]
    BY <1>3 DEF AnnounceClosed
  <2> QED  BY <2>1 DEF WinInv, WinTypes, SameScreen
<1>4. ASSUME NEW v \in Windows,
         \/ EndOutput(v) \/ ResumeForwarding(v) \/ ProcessExit(v)
         \/ \E mid \in BOOLEAN : BeginOutput(v, mid)
      PROVE  \A w \in Windows : SameScreen(win[w], win'[w])
  <2>1. CASE EndOutput(v)
    <3>1. win' = Change(v, [win[v] EXCEPT !.forwarding = FALSE])  BY <2>1 DEF EndOutput
    <3> QED  BY <3>1 DEF Change, WinInv, WinTypes, SameScreen
  <2>2. CASE ResumeForwarding(v) \/ ProcessExit(v)
    <3>1. win' = [win EXCEPT ![v].paused = FALSE] \/ win' = [win EXCEPT ![v].process = "ended"]
      BY <2>2 DEF ResumeForwarding, ProcessExit
    <3> QED  BY <3>1 DEF WinInv, WinTypes, SameScreen
  <2>3. ASSUME NEW mid \in BOOLEAN, BeginOutput(v, mid)
        PROVE  \A w \in Windows : SameScreen(win[w], win'[w])
    <3>1. win' = Change(v, [win[v] EXCEPT !.mid = mid,
                              !.forwarding = (active = v /\ Registered # {})])
      BY <2>3 DEF BeginOutput
    <3> DEFINE f == active = v /\ Registered # {}
    <3> HIDE DEF f
    <3>2. win' = Change(v, [win[v] EXCEPT !.mid = mid, !.forwarding = f])  BY <3>1 DEF f
    <3> QED  BY <3>2 DEF Change, WinInv, WinTypes, SameScreen
  <2> QED  BY <1>4, <2>1, <2>2, <2>3
<1> QED  BY <1>1, <1>2, <1>3, <1>4

LEMMA SameScreensFit ==
  ASSUME TypeInv, \A w \in Windows : SameScreen(win[w], win'[w]), UNCHANGED <<published, active>>
  PROVE  Open(active) => win'[active].kind = win[active].kind /\ (Fits(active) => Fits(active)')
  BY OpenIsListed DEF SameScreen, Fits, TypeInv

LEMMA RetireFits ==
  ASSUME TypeInv, FitInv, KindsKept, NEW t \in Threads, NEW w \in windows,
         NEW v \in (windows \ {w}) \cup {NoWindow}, NEW g, Retire(w, v), AfterRetire(t, w, v, g),
         pc[t] \notin {"activated", "shown"}, UNCHANGED <<focus, closing>>,
         active # w => \A u \in Windows \ {w} : SameScreen(win[u], win'[u])
  PROVE  FitInv'
<1> USE DEF TypeInv
<1> DEFINE a == [NoArg EXCEPT !.win = w, !.next = v, !.size = g, !.redraw = (windows = {w})]
           b == [a EXCEPT !.then = "announcing"]
<1>1. a.then = "idle" /\ b.then = "announcing" /\ b.next = v
  BY DEF NoArg
<1>2. IF active = w /\ v # NoWindow THEN Goto(t, "activated", b) ELSE Goto(t, "announcing", a)
  BY Zenon DEF AfterRetire
<1> HIDE DEF a, b
<1>3. Steady(t)
  <2>1. ChosenOK("activated", b) /\ ChosenOK("announcing", a)  BY <1>1 DEF ChosenOK
  <2> QED  BY <1>2, <2>1, SteadyGoto DEF FitInv
<1>4. windows' = windows \ {w} /\ active' = (IF active # w THEN active ELSE v)
      /\ (active # w => published' = published)
  BY DEF Retire, Activate
<1>5. CASE active # w
  <2>1. Serving' => Serving  BY <1>4, <1>5, StillServing DEF Closed
  <2>2. Open(active) => active \in Windows \ {w}  BY <1>5, OpenIsListed
  <2>3. Open(active) => win'[active].kind = win[active].kind /\ (Fits(active) => Fits(active)')
    BY <1>4, <1>5, <2>2 DEF SameScreen, Fits
  <2>4. ~Repairs(t, active)  BY DEF Repairs
  <2> QED  BY <1>3, <1>4, <1>5, <2>1, <2>3, <2>4, ShownFrame DEF FitInv
<1>6. CASE active = w /\ v # NoWindow
  <2>1. pc'[t] = "activated" /\ arg'[t] = b  BY <1>2, <1>6 DEF Goto, ThreadInv
  <2>2. Repairing(active)'  BY <1>1, <1>4, <1>6, <2>1 DEF Repairing, Repairs
  <2> QED  BY <1>3, <2>2 DEF FitInv, ShownInv, Steady
<1>7. CASE active = w /\ v = NoWindow
  <2>1. active' = NoWindow /\ NoWindow \notin windows'
    BY <1>4, <1>7, MuxAssumption DEF WindowInv, NoWindow
  <2>2. ~Serving'  BY <2>1 DEF Serving, Open
  <2> QED  BY <1>3, <2>2 DEF FitInv, ShownInv, Steady
<1> QED  BY <1>5, <1>6, <1>7

LEMMA FitThreads ==
  ASSUME TypeInv, LifeInv, FitInv, KindsKept, Closed => Closed', NEW t \in Threads, ThreadStep(t)
  PROVE  FitInv'
<1> USE DEF TypeInv
<1> DEFINE kept == /\ UNCHANGED <<published, active, windows>>
                   /\ focus' = focus \/ Registered # {}
\* The window that is shown stays as it is.
<1>1. ASSUME \/ ResizeForClient(t) \/ ForceRedraw(t) \/ RefreshPendingFocus(t)
             \/ RefreshPendingResize(t) \/ Focus(t)
             \/ AdmitStart(t) \/ StartProcess(t) \/ RejectWindow(t) \/ KillRejected(t)
             \/ BeginClose(t) \/ StopBridge(t) \/ StopBridgeFails(t) \/ AnnounceClosed(t)
      PROVE  FitInv'
  <2>1. \A w : ~Repairs(t, w)
    BY <1>1 DEF Repairs, ResizeForClient, ForceRedraw, RefreshPendingFocus, RefreshPendingResize, Focus,
      AdmitStart, StartProcess, RejectWindow, KillRejected, BeginClose, StopBridge, StopBridgeFails,
      AnnounceClosed
  <2>2. kept
    BY <1>1 DEF ResizeForClient, ForceRedraw, RefreshPendingFocus, RefreshPendingResize, Focus,
      AdmitStart, StartProcess, RejectWindow, KillRejected, BeginClose, StopBridge, StopBridgeFails,
      AnnounceClosed, windowVars, sizeVars, clientVars
  <2>3. Steady(t)  BY <1>1, SteadyThreads DEF FitInv
  <2>4. Open(active) => win'[active].kind = win[active].kind /\ (Fits(active) => Fits(active)')
    BY <1>1, <2>2, ScreensKept, SameScreensFit
  <2>5. Serving' => Serving  BY <2>2, StillServing
  <2> QED  BY <2>1, <2>2, <2>3, <2>4, <2>5, ShownFrame DEF FitInv
\* It takes the size that is published.
<1>2. ASSUME ResizeWithRedraw(t) \/ ReplayFocused(t)
      PROVE  FitInv'
  <2>1. UNCHANGED <<active, windows, focus>> /\ \A w : ~Repairs(t, w)
    BY <1>2 DEF ResizeWithRedraw, ReplayFocused, Repairs
  <2>2. Steady(t)  BY <1>2, SteadyThreads DEF FitInv
  <2>3. CASE UNCHANGED <<win, published>>
    <3>1. Serving' => Serving  BY <2>1, StillServing
    <3> QED  BY <2>1, <2>2, <2>3, <3>1, ShownFrame DEF FitInv, Fits
  <2> DEFINE resized == Resized(win[active], arg[t].size)
             danced == Danced(PausedForRedraw(resized), arg[t].size)
  <2>4. \/ UNCHANGED <<win, published>>
        \/ published' = arg[t].size /\ \E r \in {resized, danced} : win' = Change(active, r)
    <3>1. CASE ResizeWithRedraw(t)
      <4>1. UNCHANGED <<win, published>> \/ PublishResize(t)
        BY <3>1 DEF ResizeWithRedraw, PostponeResize
      <4> QED  BY <4>1 DEF PublishResize
    <3>2. CASE ReplayFocused(t)
      <4> HIDE DEF danced
      <4>1. \/ UNCHANGED <<win, sizeVars>> \/ UNCHANGED <<win, published>>
            \/ published' = arg[t].size /\ win' = Change(active, resized)
        BY <3>2, Zenon DEF ReplayFocused
      <4> QED  BY <4>1 DEF sizeVars
    <3> QED  BY <1>2, <3>1, <3>2
  <2>5. ASSUME Open(active), published' = arg[t].size, NEW r \in {resized, danced}
        PROVE  r.dance = published' \/ (r.dance = NoGrid /\ r.pty = published')
    <3>1. win[active] \in WinTypes  BY <2>5, OpenIsListed DEF WinInv
    <3>2. resized.dance = NoGrid /\ resized.pty = arg[t].size  BY <3>1 DEF Resized, WinTypes
    <3>3. danced.dance = arg[t].size
      <4>1. arg[t].size \in Sizes  BY DEF ThreadInv, ArgTypes
      <4>2. resized \in WinTypes  BY <3>1, <4>1, ScreenTypes
      <4> HIDE DEF resized
      <4>3. PausedForRedraw(resized) \in WinTypes  BY <4>2, PauseTypes
      <4> DEFINE p == PausedForRedraw(resized)
      <4> HIDE DEF p
      <4>4. p \in WinTypes  BY <4>3 DEF p
      <4>5. Danced(p, arg[t].size).dance = arg[t].size  BY <4>4 DEF Danced, WinTypes
      <4> QED  BY <4>5 DEF p
    <3> QED  BY <2>5, <3>2, <3>3
  <2> HIDE DEF resized, danced
  <2>6. ChosenInv'  BY <2>2 DEF Steady
  <2>7. CASE published' = arg[t].size /\ \E r \in {resized, danced} : win' = Change(active, r)
    <3>1. PICK r \in {resized, danced} : win' = Change(active, r)  BY <2>7
    <3>2. Open(active) => r.dance = published' \/ (r.dance = NoGrid /\ r.pty = published')
      BY <2>5, <2>7
    <3> QED  BY <2>1, <2>6, <3>1, <3>2, ShownResized
  <2> QED  BY <2>3, <2>4, <2>7
\* A frame is delivered, and its program repaints.
<1>3. ASSUME RedrawFocused(t) \/ ShowNewWindow(t) \/ ShowActivated(t)
      PROVE  FitInv'
  <2>1. UNCHANGED <<published, active, windows, focus>>
    BY <1>3 DEF RedrawFocused, ShowNewWindow, ShowActivated, sizeVars, clientVars
  <2>2. Steady(t)  BY <1>3, SteadyThreads DEF FitInv
  <2>3. Serving' => Serving  BY <2>1, StillServing
  <2>4. PICK w : /\ \/ win' = Change(w, Delivered(PausedForRedraw(win[w]), published))
                    \/ win' = win /\ pc[t] = "replayed"
                    \/ Registered = {}
                 /\ \A v : Repairs(t, v) => v = w
    <3>1. CASE RedrawFocused(t)
      <4>1. pc[t] = "replayed" /\ win' \in {win, Change(arg[t].win,
               Delivered(PausedForRedraw(win[arg[t].win]), published))}
        BY <3>1 DEF RedrawFocused
      <4> QED  BY <4>1 DEF Repairs
    <3>2. CASE ShowNewWindow(t)
      <4>1. pc[t] = "shown" /\ win' = Shown(arg[t].born)  BY <3>2 DEF ShowNewWindow
      <4> QED  BY <4>1 DEF Shown, Repairs
    <3>3. CASE ShowActivated(t)
      <4>1. pc[t] = "activated" /\ (Registered = {} \/ win' = Shown(arg[t].next))
        BY <3>3 DEF ShowActivated
      <4> QED  BY <4>1 DEF Shown, Repairs
    <3> QED  BY <1>3, <3>1, <3>2, <3>3
  <2>5. CASE win' = Change(w, Delivered(PausedForRedraw(win[w]), published))
    <3>1. Open(active) => /\ win'[active].kind = win[active].kind
                          /\ Fits(active) => Fits(active)'
                          /\ active = w => Fits(active)'
      BY <2>1, <2>5, Delivering
    <3> QED  BY <2>1, <2>2, <2>3, <2>4, <3>1, ShownFrame DEF FitInv
  <2>6. CASE win' = win /\ pc[t] = "replayed"
    <3>1. \A v : ~Repairs(t, v)  BY <2>6 DEF Repairs
    <3> QED  BY <2>1, <2>2, <2>3, <2>6, <3>1, ShownFrame DEF FitInv, Fits
  <2>7. CASE Registered = {}
    <3>1. ~Serving'  BY <2>1, <2>7 DEF Serving, Registered
    <3> QED  BY <2>2, <3>1 DEF FitInv, ShownInv, Steady
  <2> QED  BY <2>4, <2>5, <2>6, <2>7
\* Another window is shown, and a frame of it is on its way.
<1>4. ASSUME PublishWindow(t)
      PROVE  FitInv'
  <2> DEFINE a == [NoArg EXCEPT !.born = created + 1, !.redraw = FocusIsDue,
                     !.then = IF ResizeIsDue THEN "refreshResize" ELSE "idle"]
  <2>1. Goto(t, "shown", a) /\ active' = created + 1  BY <1>4 DEF PublishWindow
  <2>2. a.then # "quiet" /\ a.born = created + 1  BY DEF NoArg
  <2> HIDE DEF a
  <2>3. ChosenOK("shown", a)  BY <2>2 DEF ChosenOK
  <2>4. Steady(t)  BY <2>1, <2>3, SteadyGoto DEF FitInv
  <2>5. pc'[t] = "shown" /\ arg'[t] = a  BY <2>1 DEF Goto, ThreadInv
  <2>6. Repairing(active)'  BY <2>1, <2>2, <2>5 DEF Repairing, Repairs
  <2> QED  BY <2>4, <2>6 DEF FitInv, ShownInv, Steady
<1>5. ASSUME Select(t)
      PROVE  FitInv'
  <2> DEFINE w == arg[t].win
             a == [arg[t] EXCEPT !.next = w, !.size = size]
  <2>1. Steady(t)  BY <1>5, SteadyThreads DEF FitInv
  <2>2. CASE Open(w)
    <3>1. Goto(t, "activated", a) /\ active' = w  BY <1>5, <2>2 DEF Select, Activate
    <3>2. a.next = w  BY DEF ThreadInv, ArgTypes
    <3> HIDE DEF a, w
    <3>3. pc'[t] = "activated" /\ arg'[t] = a  BY <3>1 DEF Goto, ThreadInv
    <3>4. Repairing(active)'  BY <3>1, <3>2, <3>3 DEF Repairing, Repairs
    <3> QED  BY <2>1, <3>4 DEF FitInv, ShownInv, Steady
  <2>3. CASE ~Open(w)
    <3>1. UNCHANGED <<published, active, windows, focus, win>> /\ pc[t] = "select"
      BY <1>5, <2>3 DEF Select
    <3>2. Serving' => Serving  BY <3>1, StillServing
    <3>3. \A v : ~Repairs(t, v)  BY <3>1 DEF Repairs
    <3> QED  BY <2>1, <3>1, <3>2, <3>3, ShownFrame DEF FitInv, Fits
  <2> QED  BY <2>2, <2>3
<1>6. ASSUME SelectQuietly(t)
      PROVE  FitInv'
  <2>1. Steady(t)  BY <1>6, SteadyThreads DEF FitInv
  <2>2. /\ UNCHANGED <<published, windows, focus, win>> /\ pc[t] = "quiet"
        /\ active' = active \/ active' = arg[t].win
    BY <1>6 DEF SelectQuietly, sizeVars, clientVars
  <2>3. CASE active' = active
    <3>1. Serving' => Serving  BY <2>2, <2>3, StillServing
    <3>2. \A v : ~Repairs(t, v)  BY <2>2 DEF Repairs
    <3> QED  BY <2>1, <2>2, <2>3, <3>1, <3>2, ShownFrame DEF FitInv, Fits
  <2>4. CASE active' = arg[t].win
    <3>1. win[arg[t].win].kind = "native"  BY <2>2 DEF FitInv, ChosenInv, ChosenOK
    <3>2. win'[active'].kind = "native"  BY <2>2, <2>4, <3>1
    <3> QED  BY <2>1, <3>2 DEF FitInv, ShownInv, Steady
  <2> QED  BY <2>2, <2>3, <2>4
<1>7. ASSUME CommitClose(t)
      PROVE  FitInv'
  <2> DEFINE w == arg[t].win
  <2>1. pc[t] = "commit" /\ focus' = focus  BY <1>7 DEF CommitClose
  <2>2. CASE Open(w)
    <3>1. /\ Retire(w, Replacement(w)) /\ AfterRetire(t, w, Replacement(w), size)
          /\ closing' = closing /\ win' = [win EXCEPT ![w] = Retired(win[w])] /\ w \in windows
      BY <1>7, <2>2 DEF CommitClose, Open
    <3>2. Replacement(w) \in (windows \ {w}) \cup {NoWindow}  BY <3>1, ReplacementTypes
    <3>3. \A u \in Windows \ {w} : SameScreen(win[u], win'[u])  BY <3>1 DEF WinInv, SameScreen
    <3> HIDE DEF w
    <3> QED  BY <2>1, <3>1, <3>2, <3>3, RetireFits
  <2>3. CASE ~Open(w)
    <3>1. UNCHANGED <<published, active, windows, win>> /\ Finish(t)
      BY <1>7, <2>3 DEF CommitClose
    <3>2. Serving' => Serving  BY <2>1, <3>1, StillServing
    <3>3. \A v : ~Repairs(t, v)  BY <2>1 DEF Repairs
    <3>4. Steady(t)  BY <3>1, SteadyFinish DEF FitInv
    <3> QED  BY <3>1, <3>2, <3>3, <3>4, ShownFrame DEF FitInv, Fits
  <2> QED  BY <2>2, <2>3
<1> QED  BY <1>1, <1>2, <1>3, <1>4, <1>5, <1>6, <1>7 DEF ThreadStep

LEMMA FitStep ==
  ASSUME TypeInv, LifeInv, FitInv, [Next]_vars
  PROVE  FitInv'
<1> USE DEF TypeInv
<1>1. KindsKept /\ (Closed => Closed')  BY KindsStep, ClosedForGood
<1> DEFINE kept == /\ UNCHANGED <<published, active, windows>>
                   /\ focus' = focus \/ Registered # {} \/ focus' = <<>>
<1>2. ASSUME NEW t, Steady(t), kept, \A v : ~Repairs(t, v), \A w \in Windows : SameScreen(win[w], win'[w])
      PROVE  FitInv'
  <2>1. Serving' => Serving  BY <1>1, <1>2, StillServing
  <2>2. Open(active) => win'[active].kind = win[active].kind /\ (Fits(active) => Fits(active)')
    BY <1>2, SameScreensFit
  <2> QED  BY <1>2, <2>1, <2>2, ShownFrame DEF FitInv
<1>3. ASSUME NEW c \in Clients, RegisterAttach(c)
      PROVE  FitInv'
  <2> DEFINE g == PrimarySize(c, csize)
             r == Resized(win[active], g)
  <2>1. published' = g /\ win' = Change(active, r) /\ UNCHANGED <<active, windows>>
    BY <1>3 DEF RegisterAttach
  <2>2. Open(active) => r.dance = NoGrid /\ r.pty = g
    BY OpenIsListed DEF WinInv, WinTypes, Resized
  <2>3. ChosenInv'
    <3>1. Steady(Attach(c))  BY <1>1, <1>3, SteadyClients DEF ClientStep, FitInv
    <3> QED  BY <3>1 DEF Steady
  <2> HIDE DEF g, r
  <2> QED  BY <1>1, <2>1, <2>2, <2>3, ShownResized
<1>4. ASSUME NEW c \in Clients, RedrawAttached(c)
      PROVE  FitInv'
  <2> DEFINE t == Attach(c)
             w == arg[t].win
  <2>1. /\ kept /\ pc[t] = "redrawing"
        /\ win' = win \/ win' = Change(w, Delivered(PausedForRedraw(win[w]), published))
    BY <1>4 DEF RedrawAttached, sizeVars, clientVars
  <2>2. Steady(t)  BY <1>1, <1>4, SteadyClients DEF ClientStep, FitInv
  <2>3. \A v : ~Repairs(t, v)  BY <2>1 DEF Repairs
  <2>4. CASE win' = win
    <3>1. \A v \in Windows : SameScreen(win[v], win'[v])  BY <2>4 DEF SameScreen
    <3> QED  BY <1>2, <2>1, <2>2, <2>3, <3>1
  <2>5. CASE win' = Change(w, Delivered(PausedForRedraw(win[w]), published))
    <3>1. Open(active) => win'[active].kind = win[active].kind /\ (Fits(active) => Fits(active)')
      BY <2>1, <2>5, Delivering
    <3>2. Serving' => Serving  BY <1>1, <2>1, StillServing
    <3> HIDE DEF t
    <3> QED  BY <2>1, <2>2, <2>3, <3>1, <3>2, ShownFrame DEF FitInv
  <2> QED  BY <2>1, <2>4, <2>5
<1>5. ASSUME NEW c \in Clients,
         \/ ChooseTransition(c) \/ LockForAttach(c) \/ AbandonAttach(c) \/ LoseTransition(c)
         \/ RemoveAttach(c) \/ (\E g \in Grids : BeginAttach(c, g))
         \/ Interact(c) \/ Disconnect(c) \/ AmbiguousEscape(c) \/ ClaimFocus(c)
      PROVE  FitInv'
  <2>1. Steady(Attach(c))  BY <1>1, <1>5, SteadyClients DEF ClientStep, FitInv
  <2>2. \A v : ~Repairs(Attach(c), v)
    <3>1. ThreadOK("client", pc[Attach(c)], arg[Attach(c)])  BY ThreadSorts DEF ThreadInv
    <3> QED  BY <3>1 DEF ThreadOK, Points, Repairs
  <2>3. kept /\ win' = win
    BY <1>5 DEF ChooseTransition, LockForAttach, AbandonAttach, LoseTransition, RemoveAttach,
      BeginAttach, Interact, Disconnect, AmbiguousEscape, ClaimFocus, windowVars, sizeVars, clientVars
  <2>4. \A w \in Windows : SameScreen(win[w], win'[w])  BY <2>3 DEF SameScreen
  <2> QED  BY <1>2, <2>1, <2>2, <2>3, <2>4
<1>6. ASSUME NEW v \in Windows,
         \/ EndOutput(v) \/ ResumeForwarding(v) \/ ProcessExit(v)
         \/ \E mid \in BOOLEAN : BeginOutput(v, mid)
      PROVE  FitInv'
  <2>1. PICK t \in {Reader(v), Timer(v)} : Steady(t) /\ \A w : ~Repairs(t, w)
    BY <1>1, <1>6, SteadyOutput DEF FitInv
  <2>2. kept
    BY <1>6 DEF EndOutput, ResumeForwarding, ProcessExit, BeginOutput, sizeVars, clientVars
  <2>3. \A w \in Windows : SameScreen(win[w], win'[w])  BY <1>6, ScreensKept
  <2> QED  BY <1>2, <2>1, <2>2, <2>3
<1>7. ASSUME NEW v \in Windows, RestoreGeometry(v)
      PROVE  FitInv'
  <2>1. PICK t \in {Reader(v), Timer(v)} : Steady(t) /\ \A w : ~Repairs(t, w)
    BY <1>1, <1>7, SteadyOutput DEF FitInv
  <2>2. kept /\ win[v].dance # NoGrid /\ win' = [win EXCEPT ![v] = Resized(win[v], win[v].dance)]
    BY <1>7 DEF RestoreGeometry, sizeVars, clientVars
  <2>3. Serving' => Serving  BY <1>1, <2>2, StillServing
  <2>4. Open(active) => win'[active].kind = win[active].kind /\ (Fits(active) => Fits(active)')
    <3> SUFFICES ASSUME Open(active)
                 PROVE  win'[active].kind = win[active].kind /\ (Fits(active) => Fits(active)')
      OBVIOUS
    <3>1. active \in Windows  BY OpenIsListed
    <3>2. CASE active # v  BY <2>2, <3>1, <3>2 DEF WinInv, Fits
    <3>3. CASE active = v
      <4>1. win'[v] = Resized(win[v], win[v].dance) /\ win[v] \in WinTypes
        BY <2>2 DEF WinInv
      <4>2. win'[v].kind = win[v].kind /\ win'[v].pty = win[v].dance /\ win'[v].dance = NoGrid
        BY <4>1 DEF Resized, WinTypes
      <4> QED  BY <2>2, <3>3, <4>2 DEF Fits
    <3> QED  BY <3>2, <3>3
  <2> QED  BY <2>1, <2>2, <2>3, <2>4, ShownFrame DEF FitInv
<1>8. ASSUME NEW w \in Windows, MarkWindowClosed(w)
      PROVE  FitInv'
  <2> DEFINE t == Watcher(w)
             others == windows \ {w}
             v == IF others = {} THEN NoWindow ELSE Min(others)
  <2>0. t \in Threads  BY ThreadSorts
  <2>1. UNCHANGED <<closing, focus>> /\ pc[t] = "idle"
    BY <1>8 DEF MarkWindowClosed, otherVars
  <2>2. CASE Open(w)
    <3>1. Retire(w, v) /\ AfterRetire(t, w, v, NoGrid) /\ w \in windows
      BY <1>8, <2>2 DEF MarkWindowClosed, Open
    <3>2. active # w => win' = [win EXCEPT ![w] = Retired(win[w])]
      BY <1>8, <2>2 DEF MarkWindowClosed
    <3>3. active # w => \A u \in Windows \ {w} : SameScreen(win[u], win'[u])
      BY <3>2 DEF WinInv, SameScreen
    <3>4. v \in others \cup {NoWindow}
      <4>1. windows \subseteq Nat  BY MuxAssumption DEF WindowInv
      <4>2. others \subseteq Nat  BY <4>1
      <4>3. others # {} => Min(others) \in others  BY <4>2, MinIsMember
      <4> QED  BY <4>3
    <3> HIDE DEF t, v
    <3> QED  BY <1>1, <2>0, <2>1, <3>1, <3>3, <3>4, RetireFits
  <2>3. CASE ~Open(w)
    <3>1. UNCHANGED <<windows, win, active, published>> /\ Goto(t, "over", NoArg)
      BY <1>8, <2>3 DEF MarkWindowClosed
    <3>2. ChosenOK("over", NoArg)  BY DEF ChosenOK, NoArg
    <3> HIDE DEF t
    <3>3. Steady(t)  BY <1>1, <2>0, <3>1, <3>2, SteadyGoto DEF FitInv
    <3>4. \A u : ~Repairs(t, u)  BY <2>1 DEF Repairs
    <3>5. \A u \in Windows : SameScreen(win[u], win'[u])  BY <3>1 DEF SameScreen
    <3> QED  BY <1>2, <2>1, <3>1, <3>3, <3>4, <3>5
  <2> QED  BY <2>2, <2>3
<1>9. CASE ServerStep
  <2>1. UNCHANGED <<pc, arg>> /\ Closed'
    BY <1>9 DEF ServerStep, BeginServerClose, TearDown, EndServerClose, Closed
  <2>2. Steady(Free)  BY <1>1, <2>1, SteadyFrame DEF FitInv
  <2> QED  BY <2>1, <2>2 DEF FitInv, ShownInv, Serving, Steady
<1>10. CASE AskShutdown \/ UNCHANGED vars
  <2>1. UNCHANGED <<pc, arg, win>> /\ kept
    BY <1>10 DEF AskShutdown, vars, windowVars, sizeVars, clientVars
  <2>2. Steady(Free)  BY <1>1, <2>1, SteadyFrame DEF FitInv
  <2>4. Serving' => Serving  BY <1>1, <2>1, StillServing
  <2>5. Repairing(active) => Repairing(active)'  BY <2>1 DEF Repairing, Repairs
  <2> QED  BY <2>1, <2>2, <2>4, <2>5 DEF FitInv, ShownInv, Fits, Steady
<1>11. ASSUME NEW r \in Requests, NEW c \in Registered \cup {NoClient},
         \/ AskTheme(r)
         \/ \E kind \in Kinds : AskCreate(r, c, kind)
         \/ \E label \in {"select", "quiet", "close"}, w \in 1 .. created : AskWindow(r, c, label, w)
         \/ \E g \in Grids : AskResize(r, c, g)
         \/ \E g \in Grids, redraw \in BOOLEAN : c # NoClient /\ AskFocus(r, c, g, redraw)
       PROVE  FitInv'
  <2>1. \A event, label, a : Ask(r, event, label, a) => kept /\ win' = win /\ pc[Request(r)] = "idle"
    BY DEF Ask, windowVars, sizeVars, clientVars
  <2>2. kept /\ win' = win /\ pc[Request(r)] = "idle"
    BY <1>11, <2>1 DEF AskTheme, AskCreate, AskWindow, AskResize, AskFocus
  <2>3. Steady(Request(r))  BY <1>1, <1>11, SteadyAsk DEF FitInv
  <2>4. \A v : ~Repairs(Request(r), v)  BY <2>2 DEF Repairs
  <2>5. \A w \in Windows : SameScreen(win[w], win'[w])  BY <2>2 DEF SameScreen
  <2> QED  BY <1>2, <2>2, <2>3, <2>4, <2>5
<1>12. CASE UserStep
  <2>1. NoClient \in Registered \cup {NoClient}  OBVIOUS
  <2> QED  BY <1>5, <1>6, <1>10, <1>11, <1>12, <2>1 DEF UserStep
<1>13. ASSUME NEW t \in Threads, ThreadStep(t)
       PROVE  FitInv'
  BY <1>1, <1>13, FitThreads
<1>14. ASSUME NEW c \in Clients, ClientStep(c)
       PROVE  FitInv'
  BY <1>3, <1>4, <1>5, <1>14 DEF ClientStep
<1>15. ASSUME NEW w \in Windows, WindowStep(w)
       PROVE  FitInv'
  BY <1>6, <1>7, <1>8, <1>15 DEF WindowStep
<1> QED  BY <1>9, <1>10, <1>12, <1>13, <1>14, <1>15 DEF Next

(***************************************************************************)
(* The invariant                                                           *)
(***************************************************************************)
Inv == TypeInv /\ DeskInv /\ LifeInv /\ FitInv

LEMMA InitInv ==
  ASSUME Init
  PROVE  Inv
<1>0. PICK g \in Grids, s \in Scenarios : \E a \in 1 .. Len(s.kinds) :
        /\ budget = s /\ created = Len(s.kinds) /\ windows = 1 .. created
        /\ win = [w \in Windows |-> IF w <= created THEN Started(s.kinds[w], g) ELSE NoWin]
        /\ active = a /\ last = IF a = created THEN IF a = 1 THEN NoWindow ELSE a - 1 ELSE created
        /\ size = g /\ published = g /\ pendResize = NoResize /\ pendFocus = NoClient
        /\ primary = NoClient /\ focus = <<>> /\ claims = {}
        /\ csize = [c \in Clients |-> NoGrid] /\ grid = [c \in Clients |-> NoGrid]
        /\ transition = NoWindow /\ closing = "no"
        /\ attachMu = Free /\ resizeMu = Free
        /\ pc = [t \in Threads |-> IF t[1] = "client" THEN "away" ELSE "idle"]
        /\ arg = [t \in Threads |-> NoArg]
  BY Zenon DEF Init
<1>1. PICK a \in 1 .. Len(s.kinds) :
        /\ budget = s /\ created = Len(s.kinds) /\ windows = 1 .. created
        /\ win = [w \in Windows |-> IF w <= created THEN Started(s.kinds[w], g) ELSE NoWin]
        /\ active = a /\ last = IF a = created THEN IF a = 1 THEN NoWindow ELSE a - 1 ELSE created
        /\ size = g /\ published = g /\ pendResize = NoResize /\ pendFocus = NoClient
        /\ primary = NoClient /\ focus = <<>> /\ claims = {}
        /\ csize = [c \in Clients |-> NoGrid] /\ grid = [c \in Clients |-> NoGrid]
        /\ transition = NoWindow /\ closing = "no"
        /\ attachMu = Free /\ resizeMu = Free
        /\ pc = [t \in Threads |-> IF t[1] = "client" THEN "away" ELSE "idle"]
        /\ arg = [t \in Threads |-> NoArg]
  BY <1>0
<1>2. created \in 1 .. MaxWindows /\ windows = 1 .. created /\ windows \subseteq Windows
  BY <1>1, MuxAssumption DEF Windows
<1>3. \A t \in Threads : pc[t] \in {"away", "idle"} /\ arg[t] = NoArg
  BY <1>1
<1>4. ThreadInv
  <2>1. \A t \in Threads : pc[t] = (IF t[1] = "client" THEN "away" ELSE "idle")  BY <1>1
  <2>2. \A t \in Threads : ThreadOK(t[1], pc[t], NoArg)
    <3> TAKE t \in Threads
    <3>1. t[1] \in Sorts  BY ThreadSorts
    <3>2. pc[t] \in Points[t[1]] /\ "idle" \in Errands[t[1]]
      BY <2>1, <3>1 DEF Points, Errands, Sorts
    <3>3. NoArg.then = "idle"  BY DEF NoArg
    <3> QED  BY <1>3, <3>2, <3>3, NoArgTypes DEF ThreadOK, Sized
  <2>3. \A t \in Threads : pc[t] \in AllPoints
    <3> TAKE t \in Threads
    <3>1. t[1] \in Sorts /\ pc[t] \in Points[t[1]]  BY <2>2, ThreadSorts DEF ThreadOK
    <3> QED  BY <3>1, PointTypes
  <2>4. pc \in [Threads -> AllPoints] /\ arg \in [Threads -> ArgTypes]
    BY <1>1, <2>3, NoArgTypes
  <2> QED  BY <1>1, <1>3, <2>2, <2>4 DEF ThreadInv
<1>5. \A w \in Windows :
        /\ win[w] \in WinTypes /\ win[w].announced = 0 /\ win[w].closing = FALSE
        /\ (w \notin windows => win[w].process = "none")
  <2> TAKE w \in Windows
  <2>1. CASE w \in windows
    <3>1. s.kinds[w] \in KindTypes
      <4>1. s.kinds \in Seq(KindTypes) /\ w \in 1 .. Len(s.kinds)
        BY <1>1, <2>1, MuxAssumption DEF KindTypes
      <4> QED  BY <4>1, ElementOfSeq
    <3>2. win[w] = Started(s.kinds[w], g)  BY <1>1, <1>2, <2>1
    <3> DEFINE k == s.kinds[w]
    <3> HIDE DEF k
    <3>3. Started(k, g) \in WinTypes /\ Started(k, g).announced = 0 /\ Started(k, g).closing = FALSE
      BY <3>1 DEF Started, NoWin, WinTypes, Sizes, KindTypes, k
    <3> QED  BY <2>1, <3>2, <3>3 DEF k
  <2>2. CASE w \notin windows
    <3>1. win[w] = NoWin  BY <1>1, <1>2, <2>2, MuxAssumption DEF Windows
    <3> QED  BY <3>1, MuxAssumption DEF NoWin, WinTypes, Sizes, KindTypes
  <2> QED  BY <2>1, <2>2
<1>6. WinInv  BY <1>1, <1>5 DEF WinInv
<1>7. WindowInv
  <2>1. a \in 1 .. created /\ active = a /\ created \in Nat  BY <1>1, MuxAssumption
  <2>2. last \in {0, a - 1, created}  BY <1>1 DEF NoWindow
  <2>3. last \in 0 .. created  BY <2>1, <2>2
  <2> QED  BY <1>1, <1>2, <2>1, <2>3 DEF WindowInv, NoWindow
<1>8. SizeInv  BY <1>1 DEF SizeInv, NoResize, Sizes
<1>9. ClientInv
  <2>1. focus \in Seq(Clients) /\ IsInjective(focus)
    BY <1>1 DEF IsInjective
  <2> QED  BY <1>1, <2>1 DEF ClientInv, Sizes
<1>10. TypeInv  BY <1>4, <1>6, <1>7, <1>8, <1>9 DEF TypeInv
<1>11. Registered = {}  BY <1>1 DEF Registered, ToSet
<1>12. DeskInv
  BY <1>1, <1>8, <1>9, <1>11 DEF DeskInv, PrimaryIsLatest, GridsAgree
<1>13. \A t \in Threads : \A w : ~ClosedBy(t, w)  BY <1>3 DEF ClosedBy, NoArg
<1>14. LifeInv
  <2>1. CloseInv  BY <1>3, <1>5 DEF CloseInv
  <2>2. AnnounceInv
    <3>1. windows = 1 .. created  BY <1>1
    <3> QED  BY <1>5, <1>13, <3>1 DEF AnnounceInv
  <2>3. OrphanInv  BY <1>1, <1>5 DEF OrphanInv
  <2> QED  BY <2>1, <2>2, <2>3 DEF LifeInv
<1>15. FitInv
  <2>1. ChosenInv  BY <1>3 DEF ChosenInv, ChosenOK, NoArg
  <2>2. ~Serving  BY <1>11 DEF Serving
  <2> QED  BY <2>1, <2>2 DEF FitInv, ShownInv
<1> QED  BY <1>10, <1>12, <1>14, <1>15 DEF Inv

LEMMA NextInv ==
  ASSUME Inv, [Next]_vars
  PROVE  Inv'
<1> USE DEF Inv
<1>1. DeskInv'  BY DeskStep
<1>2. WinInv' /\ LifeInv'  BY LifeStep
<1>3. FitInv'  BY FitStep
<1>4. ThreadInv' /\ WindowInv'  BY ThreadInvStep, WindowInvStep
<1> QED  BY <1>1, <1>2, <1>3, <1>4 DEF TypeInv, DeskInv

\* Inv is inductive: it holds in every state that the server can reach.
THEOREM InvHolds == Spec => []Inv
<1>1. Init => Inv  BY InitInv
<1>2. Inv /\ [Next]_vars => Inv'  BY NextInv
<1> QED  BY <1>1, <1>2, PTL DEF Spec

(***************************************************************************)
(* The properties                                                          *)
(***************************************************************************)
\* Every variable stays in its type: the list of windows and the active one,
\* the sizes, and the order of focus, in which no client has two places.
THEOREM MuxTypesCorrect == Spec => []MuxTypes
<1>1. Inv => MuxTypes
  <2> SUFFICES ASSUME Inv
               PROVE  MuxTypes
    OBVIOUS
  <2>1. Registered \subseteq Clients  BY RegisteredTypes DEF Inv, TypeInv
  <2>2. pendResize.size \in Grids \cup {NoGrid}
    BY DEF Inv, TypeInv, SizeInv, Sizes
  <2> QED
    BY <2>1, <2>2 DEF MuxTypes, Inv, TypeInv, ThreadInv, WindowInv, SizeInv, ClientInv
<1> QED  BY <1>1, InvHolds, PTL

\* The primary client is the one that gained the focus last, through every
\* attach, promotion, ambiguous ESC and detach (promoteAttachClientLocked,
\* removeAttachClient), and a postponed frame is owed to no one else.
THEOREM PrimaryCorrect == Spec => []PrimaryIsLatest
<1>1. Inv => PrimaryIsLatest  BY DEF Inv, DeskInv
<1> QED  BY <1>1, InvHolds, PTL

\* Whoever publishes a size tells every clipping client of it in the same
\* critical section (enqueueAttachViewportResizeLocked), and a client that
\* joins is told too: the grid it clips to is the published one.
THEOREM GridsCorrect == Spec => []GridsAgree
<1>1. Inv => GridsAgree  BY DEF Inv, DeskInv
<1> QED  BY <1>1, InvHolds, PTL

\* At rest the terminal that clients see has the published size: activation
\* publishes a size before the terminal takes it, and the frame that delivers
\* it is never lost (broadcastAttachReplayAndResizeLocked).
THEOREM PtyCorrect == Spec => []PtyFits
<1>1. Inv => PtyFits
  <2> SUFFICES ASSUME Inv, Serving, Resting, win[active].kind # "native",
                      win[active].dance = NoGrid
               PROVE  win[active].pty = published
    BY DEF PtyFits
  <2>1. Fits(active) \/ Repairing(active)  BY DEF Inv, FitInv, ShownInv
  <2>2. ~Repairing(active)  BY DEF Repairing, Repairs, Resting
  <2>3. published # NoGrid
    BY MuxAssumption DEF Inv, DeskInv, SizeInv, NoGrid
  <2> QED  BY <2>1, <2>2, <2>3 DEF Fits
<1> QED  BY <1>1, InvHolds, PTL

\* However many goroutines find a window gone (closeWindow, markWindowClosed,
\* the server's close), one of them takes it from the list and announces it.
THEOREM RemovalCorrect == Spec => []RemovedOnce
<1>1. Inv => RemovedOnce
  <2> SUFFICES ASSUME Inv
               PROVE  RemovedOnce
    OBVIOUS
  <2>0. 1 .. created \subseteq Windows /\ created \in Nat
    BY MuxAssumption DEF Inv, TypeInv, WindowInv, Windows
  <2>1. \A w \in Windows : win[w].announced <= 1
    <3> TAKE w \in Windows
    <3>1. win[w].announced \in {0, 1}
      <4>1. w \in windows \/ w > created \/ w \in (1 .. created) \ windows
        BY <2>0 DEF Windows
      <4> QED  BY <4>1, Zenon DEF Inv, LifeInv, AnnounceInv
    <3> QED  BY <3>1
  <2>2. ASSUME Resting, NEW w \in (1 .. created) \ windows
        PROVE  win[w].announced = 1
    <3>1. \A t \in Threads : ~ClosedBy(t, w)
      BY <2>2 DEF Resting, ClosedBy, Inv, TypeInv, ThreadInv, ThreadOK
    <3> QED  BY <2>0, <3>1 DEF Inv, LifeInv, AnnounceInv
  <2> QED  BY <2>1, <2>2 DEF RemovedOnce
<1> QED  BY <1>1, InvHolds, PTL

\* A closed server has waited for the windows that were starting, and hung up
\* every program of its windows, except of those whose closer does it.
THEOREM CloseCorrect == Spec => []NothingOutlivesClose
<1>1. Inv => NothingOutlivesClose
  <2> SUFFICES ASSUME Inv, closing = "done"
               PROVE  /\ \A r \in Requests : ~StartPending(Request(r))
                      /\ \A w \in 1 .. created :
                           win[w].process = "running" => \E t \in Threads : ClosedBy(t, w)
    BY DEF NothingOutlivesClose
  <2>1. OrphanInv /\ 1 .. created \subseteq Windows
    BY MuxAssumption DEF Inv, LifeInv, TypeInv, WindowInv, Windows
  <2> QED  BY <2>1 DEF OrphanInv
<1> QED  BY <1>1, InvHolds, PTL

\* What leaves the list, and when clients may be told a new grid.
KeptUntilStopped == \A w \in windows \ windows' :
          win[w].closing => win[w].bridge = "stopped" \/ win[w].process = "ended"

LEMMA IdentityStep ==
  ASSUME Inv, [Next]_vars
  PROVE  KeptUntilStopped
<1> USE DEF Inv, KeptUntilStopped
<1>1. ASSUME NEW t \in Threads, CommitClose(t)
      PROVE  KeptUntilStopped
  <2> DEFINE w == arg[t].win
  <2>1. pc[t] = "commit" /\ (windows' = windows \/ windows' = windows \ {w})
    BY <1>1, Zenon DEF CommitClose, Retire
  <2>2. w \in Windows /\ win[w].bridge # "running"
    <3>1. w \in 1 .. created /\ win[w].bridge # "running"
      BY <2>1 DEF LifeInv, CloseInv
    <3> QED  BY <3>1, MuxAssumption DEF TypeInv, WindowInv, Windows
  <2>3. win[w].closing => win[w].bridge # "none"  BY <2>2 DEF LifeInv, CloseInv
  <2>4. win[w].bridge \in {"none", "running", "stopped"}  BY <2>2 DEF TypeInv, WinInv, WinTypes
  <2> QED  BY <2>1, <2>2, <2>3, <2>4
<1>2. ASSUME NEW w \in Windows, MarkWindowClosed(w)
      PROVE  KeptUntilStopped
  <2>1. win[w].process = "ended" /\ (windows' = windows \/ windows' = windows \ {w})
    BY <1>2, Zenon DEF MarkWindowClosed, Retire
  <2> QED  BY <2>1
<1>3. ASSUME NEW t \in Threads, ThreadStep(t), ~CommitClose(t)
      PROVE  windows \subseteq windows'
  BY <1>3 DEF ThreadStep, ResizeWithRedraw, ResizeForClient, ForceRedraw, RefreshPendingFocus,
    RefreshPendingResize, Focus, ReplayFocused, RedrawFocused, AdmitStart, StartProcess,
    PublishWindow, RejectWindow, KillRejected, ShowNewWindow, Select, ShowActivated,
    SelectQuietly, BeginClose, StopBridge, StopBridgeFails, AnnounceClosed, windowVars
<1>4. ASSUME NEW c \in Clients,
         \/ ClientStep(c) \/ (\E g \in Grids : BeginAttach(c, g))
         \/ Interact(c) \/ Disconnect(c) \/ AmbiguousEscape(c) \/ ClaimFocus(c)
      PROVE  windows \subseteq windows'
  BY <1>4 DEF ClientStep, ChooseTransition, LockForAttach, AbandonAttach, LoseTransition,
    RegisterAttach, RedrawAttached, RemoveAttach, BeginAttach, Interact, Disconnect,
    AmbiguousEscape, ClaimFocus, windowVars
<1>5. ASSUME NEW w \in Windows,
         \/ EndOutput(w) \/ ResumeForwarding(w) \/ RestoreGeometry(w) \/ ProcessExit(w)
         \/ \E mid \in BOOLEAN : BeginOutput(w, mid)
      PROVE  windows \subseteq windows'
  BY <1>5 DEF EndOutput, ResumeForwarding, RestoreGeometry, ProcessExit, BeginOutput
<1>6. CASE ServerStep \/ AskShutdown \/ UNCHANGED vars
  BY <1>6 DEF ServerStep, BeginServerClose, TearDown, EndServerClose, AskShutdown, vars, windowVars
<1>7. \A r, event, label, a : Ask(r, event, label, a) => windows' = windows
  BY DEF Ask, windowVars
<1>8. CASE UserStep
  <2>1. windows \subseteq windows'
    BY <1>4, <1>5, <1>7, <1>8
    DEF UserStep, AskTheme, AskCreate, AskWindow, AskResize, AskFocus, AskShutdown, windowVars
  <2> QED  BY <2>1
<1>9. windows \subseteq windows' => KeptUntilStopped  OBVIOUS
<1> HIDE DEF KeptUntilStopped
<1> QED  BY <1>1, <1>2, <1>3, <1>4, <1>5, <1>6, <1>8, <1>9 DEF Next, WindowStep

\* A native window that is being closed leaves the list only when closeWindow
\* has seen its bridge stop, or its program's end was noticed (markWindowClosed):
\* a bridge that may run on keeps its window.
THEOREM IdentityIsKept == Spec => IdentityKept
<1>1. Inv /\ [Next]_vars => [KeptUntilStopped]_vars  BY IdentityStep
<1> QED  BY <1>1, InvHolds, PTL DEF Spec, IdentityKept, KeptUntilStopped

GridWaits == grid' # grid /\ ~Safe(active) => active' # active \/ Selected

LEMMA WaitStep ==
  ASSUME Inv, [Next]_vars
  PROVE  GridWaits
<1> USE DEF Inv, GridWaits
<1>1. ASSUME NEW t \in Threads, ResizeWithRedraw(t)
      PROVE  GridWaits
  <2>1. CASE grid' = grid  BY <2>1
  <2>2. CASE PublishResize(t) /\ ~MustWait
    <3>1. CASE SomeoneClips  BY <2>2, <3>1 DEF MustWait
    <3>2. CASE ~SomeoneClips
      <4>1. grid' = [c \in Clients |-> grid[c]]
        BY <2>2, <3>2 DEF PublishResize, GridFor, SomeoneClips
      <4>2. grid' = grid  BY <4>1 DEF TypeInv, ClientInv
      <4> QED  BY <4>2
    <3> QED  BY <3>1, <3>2
  <2> QED  BY <1>1, <2>1, <2>2 DEF ResizeWithRedraw, PostponeResize
<1>2. ASSUME NEW t \in Threads, ReplayFocused(t)
      PROVE  GridWaits
  <2>1. Safe(active) \/ grid' = grid  BY <1>2, Zenon DEF ReplayFocused
  <2> QED  BY <2>1
<1>3. ASSUME NEW c \in Clients, RegisterAttach(c)
      PROVE  GridWaits
  BY <1>3 DEF RegisterAttach
<1>4. ASSUME NEW t \in Threads, Select(t)
      PROVE  GridWaits
  <2>1. CASE Open(arg[t].win)
    <3>1. pc[t] = "select" /\ pc'[t] = "activated"
      BY <1>4, <2>1 DEF Select, Goto, TypeInv, ThreadInv
    <3>2. t[1] = "request"
      <4>1. t[1] \in Sorts /\ pc[t] \in Points[t[1]]
        BY ThreadSorts DEF TypeInv, ThreadInv, ThreadOK
      <4> QED  BY <3>1, <4>1 DEF Sorts, Points
    <3> QED  BY <3>1, <3>2, ThreadSorts DEF Selected
  <2>2. CASE ~Open(arg[t].win)
    <3>1. grid' = grid  BY <1>4, <2>2 DEF Select
    <3> QED  BY <3>1
  <2> QED  BY <2>1, <2>2
<1>5. ASSUME NEW w, NEW v, v # w, Retire(w, v)
      PROVE  GridWaits
  <2>1. grid' = grid \/ (active = w /\ active' \in {v, NoWindow})
    BY <1>5, Zenon DEF Retire, Activate
  <2>2. CASE active = w /\ v # NoWindow
    <3>1. active' = v  BY <1>5, <2>2 DEF Retire, Activate
    <3> QED  BY <1>5, <2>2, <3>1
  <2>3. CASE active # w \/ v = NoWindow
    <3>1. grid' = grid  BY <1>5, <2>3, Zenon DEF Retire
    <3> QED  BY <3>1
  <2> QED  BY <2>2, <2>3
<1>6. windows \subseteq Nat \ {0}
  <2>1. windows \subseteq 1 .. created /\ created \in Nat
    BY MuxAssumption DEF TypeInv, WindowInv
  <2> QED  BY <2>1
<1>7. ASSUME NEW t \in Threads, CommitClose(t)
      PROVE  GridWaits
  <2> DEFINE w == arg[t].win
  <2>1. grid' = grid \/ (Retire(w, Replacement(w)) /\ w \in windows)
    BY <1>7, Zenon DEF CommitClose, Open
  <2>2. w \in windows => Replacement(w) # w
    BY <1>6, ReplacementTypes DEF TypeInv, NoWindow
  <2> HIDE DEF w
  <2>3. CASE grid' = grid  BY <2>3
  <2> QED  BY <1>5, <2>1, <2>2, <2>3
<1>8. ASSUME NEW w \in Windows, MarkWindowClosed(w)
      PROVE  GridWaits
  <2> DEFINE others == windows \ {w}
             v == IF others = {} THEN NoWindow ELSE Min(others)
  <2>1. grid' = grid \/ (Retire(w, v) /\ w \in windows)
    BY <1>8, Zenon DEF MarkWindowClosed, Open
  <2>2. w \in windows => v # w
    <3>1. others \subseteq Nat  BY <1>6
    <3>2. others # {} => Min(others) \in others  BY <3>1, MinIsMember
    <3> QED  BY <1>6, <3>2 DEF NoWindow
  <2> HIDE DEF v
  <2>3. CASE grid' = grid  BY <2>3
  <2> QED  BY <1>5, <2>1, <2>2, <2>3
<1>9. ASSUME NEW t \in Threads,
         \/ ResizeForClient(t) \/ ForceRedraw(t) \/ RefreshPendingFocus(t)
         \/ RefreshPendingResize(t) \/ Focus(t) \/ RedrawFocused(t)
         \/ AdmitStart(t) \/ StartProcess(t) \/ PublishWindow(t) \/ RejectWindow(t)
         \/ KillRejected(t) \/ ShowNewWindow(t) \/ ShowActivated(t) \/ SelectQuietly(t)
         \/ BeginClose(t) \/ StopBridge(t) \/ StopBridgeFails(t) \/ AnnounceClosed(t)
      PROVE  grid' = grid
  BY <1>9 DEF ResizeForClient, ForceRedraw, RefreshPendingFocus,
    RefreshPendingResize, Focus, RedrawFocused, AdmitStart, StartProcess,
    PublishWindow, RejectWindow, KillRejected, ShowNewWindow, ShowActivated,
    SelectQuietly, BeginClose, StopBridge, StopBridgeFails, AnnounceClosed, clientVars
<1>10. ASSUME NEW c \in Clients,
         \/ ChooseTransition(c) \/ LockForAttach(c) \/ AbandonAttach(c) \/ LoseTransition(c)
         \/ RedrawAttached(c) \/ RemoveAttach(c) \/ (\E g \in Grids : BeginAttach(c, g))
         \/ Interact(c) \/ Disconnect(c) \/ AmbiguousEscape(c) \/ ClaimFocus(c)
      PROVE  grid' = grid
  BY <1>10 DEF ChooseTransition, LockForAttach, AbandonAttach, LoseTransition,
    RedrawAttached, RemoveAttach, BeginAttach, Interact, Disconnect,
    AmbiguousEscape, ClaimFocus, clientVars
<1>11. ASSUME NEW w \in Windows,
         \/ EndOutput(w) \/ ResumeForwarding(w) \/ RestoreGeometry(w) \/ ProcessExit(w)
         \/ \E mid \in BOOLEAN : BeginOutput(w, mid)
      PROVE  grid' = grid
  BY <1>11 DEF EndOutput, ResumeForwarding, RestoreGeometry, ProcessExit, BeginOutput, clientVars
<1>12. CASE ServerStep \/ AskShutdown \/ UNCHANGED vars
  <2>1. grid' = grid
    BY <1>12 DEF ServerStep, BeginServerClose, TearDown, EndServerClose, AskShutdown, vars, clientVars
  <2> QED  BY <2>1
<1>13. \A r, event, label, a : Ask(r, event, label, a) => grid' = grid
  BY DEF Ask, clientVars
<1>14. CASE UserStep
  <2>1. grid' = grid
    BY <1>10, <1>11, <1>13, <1>14
    DEF UserStep, AskTheme, AskCreate, AskWindow, AskResize, AskFocus, AskShutdown, clientVars
  <2> QED  BY <2>1
<1>15. grid' = grid => GridWaits  OBVIOUS
<1> HIDE DEF GridWaits
<1>16. ASSUME NEW t \in Threads, ThreadStep(t)
       PROVE  GridWaits
  BY <1>1, <1>2, <1>4, <1>7, <1>9, <1>15, <1>16 DEF ThreadStep
<1>17. ASSUME NEW c \in Clients, ClientStep(c)
       PROVE  GridWaits
  BY <1>3, <1>10, <1>15, <1>17 DEF ClientStep
<1> QED  BY <1>8, <1>11, <1>12, <1>14, <1>15, <1>16, <1>17 DEF Next, WindowStep

\* No client is sent a new grid between the two halves of a sequence: a resize
\* waits for its end (resizeWithRedraw, replayFocusedWindowToClient, handleAttach),
\* unless another window is shown instead.
THEOREM ResizesWait == Spec => ResizeWaits
<1>1. Inv /\ [Next]_vars => [GridWaits]_vars  BY WaitStep
<1> QED  BY <1>1, InvHolds, PTL DEF Spec, ResizeWaits, GridWaits
=============================================================================
