------------------------------ MODULE PiSessions ------------------------------
(***************************************************************************)
(* discoverPiSessions of src/remote/monkeymux/main.go: which conversation  *)
(* each Pi window of a server that is being replaced goes on with.  What a *)
(* window was showing must be inferred, from its process, its title and    *)
(* the times of the session files, and is left open when it is not clear.  *)
(*                                                                         *)
(* ws is the sequence of windows, es that of the session files: a session  *)
(* goes by its position in es, 0 is none.  A time is a slot of ten         *)
(* seconds, 0 is unknown: a session was created by a process if it was in  *)
(* the slot in which that started or the next (2 s before to 10 s after),  *)
(* and belongs to a window's activity if it is at most one slot away       *)
(* (15 s).  Working directories are normalized, and all have one root.     *)
(***************************************************************************)
LOCAL INSTANCE Naturals
LOCAL INSTANCE FiniteSets
LOCAL INSTANCE SequencesExt

NoSession == 0
Windows(ws) == 1 .. Len(ws)
Sessions(es) == 1 .. Len(es)

(***************************************************************************)
(* Windows and files                                                       *)
(***************************************************************************)
\* agentToolForRestore: a shell that ran Pi once is not Pi.
IsPi(w) == w.tool = "pi" /\ (w.shell => w.confirmed)
Considered(w) == w.tool = "pi" /\ (IsPi(w) \/ w.live)
Trusted(w) == w.live \/ (w.confirmed /\ IsPi(w))

\* annotatePiSessionOrigins: where the first file of the chain of parents was;
\* a file that is not there any more is known by its name.
Root(es, s) ==
  LET up[n \in 0 .. Len(es)] ==
        [x \in Sessions(es) |->
           IF n = 0 \/ es[x].parent = NoSession THEN x ELSE up[n - 1][es[x].parent]]
  IN up[Len(es)][s]
Cyclic(es, s) == es[Root(es, s)].parent # NoSession
OriginDir(es, s) == IF Cyclic(es, s) THEN "none" ELSE es[Root(es, s)].from.cwd
OriginCreated(es, s) == IF Cyclic(es, s) THEN 0 ELSE es[Root(es, s)].from.created

\* piSessionMatchesPaneTitle, piSessionCwdMatchesPaneTitle
NameShown(e, w) == e.name # "none" /\ w.title = [name |-> e.name, cwd |-> e.cwd]
CwdShown(e, w)  == w.title = [name |-> "none", cwd |-> e.cwd]

\* sessionUpdatedDuringProcess
Updated(e, start) == e.mod # 0 /\ start # 0 /\ e.mod >= start

Near(e, w) == e.mod # 0 /\ e.mod <= w.activity + 1 /\ w.activity <= e.mod + 1

\* piSessionFreshForRestoreWindow
Fresh(w, e) ==
  IF w.live THEN Updated(e, w.start)
  ELSE /\ w.confirmed /\ IsPi(w)
       /\ NameShown(e, w) \/ (w.activity # 0 /\ Near(e, w))

\* piSessionsCreatedForProcessStart
Created(es, among, start) ==
  {s \in among : LET c == IF OriginCreated(es, s) # 0 THEN OriginCreated(es, s) ELSE es[s].created
                 IN start # 0 /\ c # 0 /\ c \in {start, start + 1}}

\* piLeafSessionMatches: a session that another match descends from was left.
Ancestors(es, among, s) ==
  LET up[n \in 0 .. Len(es)] ==
        IF n = 0 THEN {es[s].parent}
        ELSE up[n - 1] \cup {es[p].parent : p \in up[n - 1] \cap among}
  IN up[Len(es)] \ {NoSession}
Leaves(es, matches, among) ==
  IF Cardinality(matches) < 2 THEN matches
  ELSE matches \ UNION {Ancestors(es, among, s) : s \in matches}

\* piSessionWasSuperseded: the process may have gone on to another session.
Superseded(es, among, s, start, owned) ==
  start = 0 \/ \E o \in among \ ({s} \cup owned) :
    /\ es[o].mod >= start
    /\ \/ es[o].mod > es[s].mod
       \/ es[o].created > start + 1 /\ es[o].mod >= es[s].mod

\* Mutant: the windows that match a session are not counted.
FirstAssignments(matches) ==
  [i \in DOMAIN matches |->
     IF Cardinality(matches[i]) = 1 THEN CHOOSE s \in matches[i] : TRUE ELSE NoSession]

\* uniquePiSessionAssignments: one window, one session.
UniqueAssignments(matches) ==
  [i \in DOMAIN matches |->
     IF /\ Cardinality(matches[i]) = 1
        /\ \A j \in DOMAIN matches \ {i} : matches[i] \cap matches[j] = {}
       THEN CHOOSE s \in matches[i] : TRUE ELSE NoSession]

(***************************************************************************)
(* What is inferred.  A result has the session of every window; those in   *)
(* it and those that other windows hold are used.                          *)
(***************************************************************************)
Reserved(ws) == {ws[i].held : i \in {j \in Windows(ws) : ~IsPi(ws[j])}} \ {NoSession}
Used(ws, got) == Reserved(ws) \cup ({got[i] : i \in Windows(ws)} \ {NoSession})
Given(got, more) == [i \in DOMAIN got |-> IF i \in DOMAIN more /\ more[i] # NoSession
                                            THEN more[i] ELSE got[i]]
Open(got, at) == {i \in at : got[i] = NoSession}

\* A live process names its session: what an extension reported, an argument,
\* or a file that it holds open, in this order.
Proven(ws) ==
  LET proof(got, w) ==
        LET free == SelectSeq(w.proofs, LAMBDA s : s # NoSession /\ s \notin Used(ws, got)) IN
        IF Considered(w) /\ w.live /\ free # <<>> THEN Head(free) ELSE NoSession
      give(got, i) == [got EXCEPT ![i] = proof(got, ws[i])]
  IN FoldLeft(give, [i \in Windows(ws) |-> NoSession], [i \in Windows(ws) |-> i])

\* The windows of a bucket are those without proof in one directory; it has the
\* sessions of that directory, and those that their titles point to.
Bucket(ws, got, cwd) ==
  {i \in Windows(ws) : Considered(ws[i]) /\ got[i] = NoSession /\ ws[i].cwd = cwd}
Candidates(ws, es, got, at, cwd) ==
  {s \in Sessions(es) \ Used(ws, got) :
     \/ es[s].cwd = cwd \/ OriginDir(es, s) = cwd
     \/ \E i \in at : NameShown(es[s], ws[i]) \/ CwdShown(es[s], ws[i])}

ByTitle(ws, es, got, at, among) ==
  LET m == UniqueAssignments([i \in at |->
             Leaves(es, {s \in among : NameShown(es[s], ws[i])}, among)])
      sure(i) == m[i] # NoSession /\ Trusted(ws[i]) /\ Fresh(ws[i], es[m[i]])
  IN Given(got, [i \in {j \in at : sure(j)} |-> m[i]])

ByActivity(ws, es, got, at, all) ==
  LET left == Open(got, at)
      among == all \ Used(ws, got)
      near(i) == IF ws[i].activity = 0 THEN {} ELSE {s \in among : Near(es[s], ws[i])}
      m == UniqueAssignments([i \in {j \in left : Trusted(ws[j])} |-> Leaves(es, near(i), among)])
      fresh == {i \in DOMAIN m : m[i] # NoSession /\ Fresh(ws[i], es[m[i]])}
      owned == {m[i] : i \in fresh}
      sure(i) == ws[i].start # 0 => ~Superseded(es, among, m[i], ws[i].start, owned)
  IN Given(got, [i \in {j \in fresh : sure(j)} |-> m[i]])

\* By the start of the process, and then by what the window held before: the
\* sessions that others own do not supersede any.
StartMatches(ws, es, left, among) ==
  UniqueAssignments([i \in left |-> Leaves(es, Created(es, among, ws[i].start), among)])

ByStart(ws, es, got, left, among) ==
  LET m == StartMatches(ws, es, left, among)
      owned == {m[i] : i \in left}
      sure(i) == m[i] # NoSession /\ ~Superseded(es, among, m[i], ws[i].start, owned)
  IN Given(got, [i \in {j \in left : sure(j)} |-> m[i]])

ByHolding(ws, es, got, left, among, owned) ==
  LET held(i) == {ws[i].held} \cap (among \ Used(ws, got))
      m == [i \in {j \in left : got[j] = NoSession /\ ws[j].live} |->
              {s \in held(i) : Updated(es[s], ws[i].start)}]
      alone == UniqueAssignments(m)
      owners == owned \cup {alone[i] : i \in DOMAIN m}
      sure(i) == alone[i] # NoSession /\ ~Superseded(es, among, alone[i], ws[i].start, owners)
  IN Given(got, [i \in {j \in DOMAIN m : sure(j)} |-> alone[i]])

\* A window that is alone: the newest session, if the processes are not known, ...
Latest(es, among) ==
  {s \in among : es[s].mod # 0 /\ \A o \in among \ {s} : es[o].mod < es[s].mod}

ByLatest(ws, es, got, at, among) ==
  LET newest(i) == {s \in Latest(es, among) : es[s].mod <= ws[i].activity + 1} IN
  IF Cardinality(at) # 1 THEN got
  ELSE Given(got, [i \in {j \in at : got[j] = NoSession /\ Trusted(ws[j]) /\ ~ws[j].live
                                     /\ newest(j) # {}} |-> CHOOSE s \in newest(i) : TRUE])

\* ... or the only one there is.
ByDirectory(ws, es, got, at, all) ==
  LET only(i) == {s \in all : /\ Updated(es[s], ws[i].start)
                              /\ ~Superseded(es, all, s, ws[i].start, {s})} IN
  IF Cardinality(at) # 1 \/ Cardinality(all) # 1 THEN got
  ELSE Given(got, [i \in {j \in at : got[j] = NoSession /\ ws[j].live /\ only(j) # {}} |->
                     CHOOSE s \in only(i) : TRUE])

Inferred(ws, es, got0, got, cwd) ==
  LET at == Bucket(ws, got0, cwd)
      all == Candidates(ws, es, got, at, cwd)
      active == ByActivity(ws, es, ByTitle(ws, es, got, at, all), at, all)
      left == Open(active, at)
      among == all \ Used(ws, active)
      started == ByStart(ws, es, active, left, among)
      matched == StartMatches(ws, es, left, among)
      owned == {matched[i] : i \in left}
      holding == ByHolding(ws, es, started, left, among, owned)
  IN ByDirectory(ws, es, ByLatest(ws, es, holding, at, among), at, all)

\* The buckets, in the order of their names; a session of a window that is not
\* Pi after all is not given to it.
Discovered(ws, es, cwds) ==
  LET first == Proven(ws) IN
  FoldLeft(LAMBDA got, cwd : Inferred(ws, es, first, got, cwd), first, cwds)

(***************************************************************************)
(* Properties                                                              *)
(***************************************************************************)
\* No conversation goes on in two windows, of Pi or of another agent.
SoleOwners(ws, es, got) ==
  /\ \A i, j \in Windows(ws) : i # j /\ got[i] # NoSession => got[i] # got[j]
  /\ \A i \in Windows(ws) : got[i] \notin Reserved(ws)

Guessed(ws, got) == {i \in Windows(ws) : got[i] # NoSession /\ got[i] # Proven(ws)[i]}

\* What is inferred for a window whose process is known was written to while
\* that process ran.
NothingStale(ws, es, got) ==
  \A i \in Guessed(ws, got) : ws[i].live => Updated(es[got[i]], ws[i].start)

\* A window that is alone in its directory does not go back to a session that
\* it left: no free one of the directory was written to later, unless the name
\* that the window shows says so.
NothingLeft(ws, es, got) ==
  \A i \in Guessed(ws, got) :
    LET later == {s \in Sessions(es) \ Used(ws, got) :
                    es[s].cwd = ws[i].cwd /\ es[s].mod > es[got[i]].mod}
    IN ws[i].live /\ ~NameShown(es[got[i]], ws[i]) /\ Bucket(ws, Proven(ws), ws[i].cwd) = {i}
         => later = {}

\* Two windows of which nothing tells which is which are both left open.
AmbiguousStaysOpen(ws, got) ==
  \A i, j \in Windows(ws) :
    i # j /\ ws[i] = ws[j] => {i, j} \cap Guessed(ws, got) = {}
=============================================================================
