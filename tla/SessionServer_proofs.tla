------------------------- MODULE SessionServer_proofs -------------------------
(***************************************************************************)
(* What TLAPS proves about SessionServer for any number of helpers and     *)
(* servers, any windows and any number of disturbances.                    *)
(***************************************************************************)
EXTENDS SessionServer, FunctionTheorems, FiniteSetTheorems, TLAPS

(***************************************************************************)
(* Types                                                                   *)
(***************************************************************************)
Pids       == Processes \cup {NoPid}
AllWindows == Windows \cup {FreshWindow}

PlanTypes == [windows : SUBSET AllWindows, old : Pids,
              legacyHandoff : BOOLEAN, keepOldProcess : BOOLEAN]

Wishes == [existingOnly : BOOLEAN, update : BOOLEAN]

HelperPoints == {"install", "judge", "recheck", "unlink", "query", "requery", "snapshot",
                 "handoff", "shutdown", "awaitExit", "final", "probe", "compare",
                 "unlinkPath", "spawn", "awaitServer", "end"}

Purposes == {"lock", "owner", "old", "unlock", "gcLock", "gcPid", "gcSocket"}

DirTypes ==
  /\ file \in [{"lock", "pid"} -> Pids] /\ path \in Nat /\ onDisk \subseteq Servers
  /\ life \in [Processes -> {"none", "alive", "dead", "reused"}]
  /\ disturbances \in 0 .. MaxDisturbances

HelperTypes ==
  /\ hpc \in [Helpers -> HelperPoints] /\ purpose \in [Helpers -> Purposes]
  /\ seen \in [Helpers -> Nat \cup Pids]
  /\ wish \in [Helpers -> Wishes]
  /\ target \in [Helpers -> Servers \cup {NoPid}]
  /\ plan \in [Helpers -> PlanTypes]
  /\ spawned \in [Helpers -> Servers \cup {NoPid}]
  /\ verdict \in [Helpers -> {"", "ok", "kept", "error"}]

ServerTypes ==
  /\ at \in [Servers -> {"gone", "boot", "ask", "clear", "listen", "record", "restore",
                         "serving", "checkPath", "unlinkPath", "join", "unlinkPid"}]
  /\ version \in [Servers -> {"current", "older"}] /\ shutdownOK \in [Servers -> BOOLEAN]
  /\ hosted \in [Servers -> SUBSET AllWindows] /\ restore \in [Servers -> SUBSET AllWindows]
  /\ tries \in [Servers -> Nat] /\ told \in [Servers -> BOOLEAN]
  /\ rpc \in [Servers -> {"idle", "missing", "bound", "undo"}]
  /\ open \in [Servers -> SUBSET Nat]
  /\ identity \in [Servers -> Nat] /\ rebound \in [Servers -> Nat]

\* What a server holds by where it stands.
ServerParts ==
  \A s \in Servers :
    /\ at[s] = "gone" <=> ~Alive(s)
    /\ open[s] \subseteq {identity[s]} \cup (IF rpc[s] = "bound" THEN {rebound[s]} ELSE {})
    /\ open[s] # {} => Alive(s)
    /\ at[s] \in {"gone", "boot", "ask", "clear", "listen", "record", "restore",
                  "checkPath", "unlinkPath", "join", "unlinkPid"} => hosted[s] = {}

TypeInv == DirTypes /\ HelperTypes /\ ServerTypes /\ ServerParts

\* Where a helper stands says why it is there.
Fits(point, reason) ==
  /\ point = "install" => reason = "lock"
  /\ point = "judge" => reason \in {"lock", "owner", "old", "gcLock", "gcPid"}
  /\ point \in {"recheck", "unlink"} => reason # "gcSocket"
  /\ point = "compare" => reason = "gcSocket"
  /\ reason = "gcSocket" => point \in {"probe", "compare", "unlinkPath", "end"}
  /\ reason \in {"gcLock", "gcPid"} => point \in {"judge", "recheck", "unlink", "end"}

ControlInv == \A h \in Helpers : Fits(hpc[h], purpose[h])

\* Who does not run is nowhere, and wants the lock when it starts.
AsleepInv == \A h \in Helpers : ~Alive(h) => hpc[h] = "end" /\ purpose[h] = "lock"

\* Who wrote a file has been started, and only helpers write the lock.
FileInv ==
  /\ file["lock"] \in Helpers \cup {NoPid}
  /\ \A f \in {"lock", "pid"} : file[f] = NoPid \/ life[file[f]] # "none"

\* A record about to be removed is the helper's own, or of a process that ended.
Stale(point, reason, record, h) ==
  point \in {"recheck", "unlink"} =>
    IF reason = "unlock" THEN record = h
    ELSE record \in Processes /\ life[record] \in {"dead", "reused"}

StaleInv == \A h \in Helpers : Stale(hpc[h], purpose[h], seen[h], h)

\* Unless a lock was removed that had just been installed, who holds the
\* session is the one recorded in the lock file.
HolderRecorded == raced \/ \A h \in Helpers : Holds(h) => file["lock"] = h

LockInv == ControlInv /\ AsleepInv /\ FileInv /\ StaleInv /\ HolderRecorded

(***************************************************************************)
(* Inodes                                                                  *)
(***************************************************************************)
(* A function takes at most as many values as it has arguments.            *)
LEMMA ImageBound ==
  ASSUME NEW S, IsFiniteSet(S), NEW f
  PROVE  /\ IsFiniteSet({f[x] : x \in S})
         /\ Cardinality({f[x] : x \in S}) <= Cardinality(S)
<1> DEFINE T == {f[x] : x \in S}
           g == [x \in S |-> f[x]]
<1>1. g \in Surjection(S, T)
  BY DEF Surjection, Range
<1> QED
  BY <1>1, FS_Surjection, Zenon

LEMMA UnionBound ==
  ASSUME NEW S, IsFiniteSet(S), NEW T, IsFiniteSet(T), NEW n \in Nat, NEW m \in Nat,
         Cardinality(S) <= n, Cardinality(T) <= m
  PROVE  IsFiniteSet(S \cup T) /\ Cardinality(S \cup T) <= n + m
<1>1. /\ IsFiniteSet(S \cup T) /\ IsFiniteSet(S \cap T)
      /\ Cardinality(S \cup T) = Cardinality(S) + Cardinality(T) - Cardinality(S \cap T)
  BY FS_Union, FS_Intersection
<1>2. /\ Cardinality(S) \in Nat /\ Cardinality(T) \in Nat
      /\ Cardinality(S \cap T) \in Nat
  BY <1>1, FS_CardinalityType
<1> QED
  BY <1>1, <1>2

(* There is always an inode number that nothing refers to.                 *)
LEMMA FreshInode ==
  ASSUME TypeInv
  PROVE  NewInode \in Nat \ {0} /\ NewInode \notin UsedInodes
<1> DEFINE H == Cardinality(Helpers)
           S == Cardinality(Servers)
           N == 2 + 2 * Cardinality(Processes)
           Seen == {seen[h] : h \in Helpers}
           Own == {identity[s] : s \in Servers}
           Again == {rebound[s] : s \in Servers}
<1>1. H \in Nat /\ S \in Nat /\ Cardinality(Processes) = H + S
  <2>1. H \in Nat /\ S \in Nat /\ Helpers \cap Servers = {}
    BY SessionAssumption, FS_CardinalityType
  <2>2. Cardinality(Processes) = H + S - Cardinality(Helpers \cap Servers)
    BY SessionAssumption, FS_Union DEF Processes
  <2> QED
    BY <2>1, <2>2, FS_EmptySet
<1>2. /\ IsFiniteSet(Seen) /\ Cardinality(Seen) <= H
      /\ IsFiniteSet(Own) /\ Cardinality(Own) <= S
      /\ IsFiniteSet(Again) /\ Cardinality(Again) <= S
  <2>1. /\ IsFiniteSet(Seen) /\ Cardinality(Seen) <= H
    BY SessionAssumption, ImageBound
  <2>2. /\ IsFiniteSet(Own) /\ Cardinality(Own) <= S
    BY SessionAssumption, ImageBound
  <2>3. /\ IsFiniteSet(Again) /\ Cardinality(Again) <= S
    BY SessionAssumption, ImageBound
  <2> QED
    BY <2>1, <2>2, <2>3
<1>3. IsFiniteSet({path}) /\ Cardinality({path}) <= 1
  BY FS_Singleton
<1>4. IsFiniteSet({path} \cup Seen) /\ Cardinality({path} \cup Seen) <= 1 + H
  <2> HIDE DEF Seen, H
  <2> QED
    BY <1>1, <1>2, <1>3, UnionBound
<1>5. IsFiniteSet(Own \cup Again) /\ Cardinality(Own \cup Again) <= S + S
  <2> HIDE DEF Own, Again, S
  <2> QED
    BY <1>1, <1>2, UnionBound
<1>6. UsedInodes \subseteq ({path} \cup Seen) \cup (Own \cup Again)
  BY DEF UsedInodes, TypeInv, ServerParts
<1>7. /\ IsFiniteSet(({path} \cup Seen) \cup (Own \cup Again))
      /\ Cardinality(({path} \cup Seen) \cup (Own \cup Again)) <= (1 + H) + (S + S)
  <2> HIDE DEF Own, Again, S, Seen, H
  <2>1. 1 + H \in Nat /\ S + S \in Nat
    BY <1>1
  <2> QED
    BY <1>4, <1>5, <2>1, UnionBound
<1>8. N \in Nat /\ IsFiniteSet(1 .. N) /\ Cardinality(1 .. N) = N
  <2> HIDE DEF S, H
  <2>1. N \in Nat /\ N >= 1
    BY <1>1
  <2> HIDE DEF N
  <2> QED
    BY <2>1, FS_Interval
<1>9. \E i \in 1 .. N : i \notin UsedInodes
  <2> SUFFICES ASSUME 1 .. N \subseteq UsedInodes PROVE FALSE
    OBVIOUS
  <2> HIDE DEF Own, Again, S, Seen, H
  <2>1. N <= Cardinality(({path} \cup Seen) \cup (Own \cup Again))
    BY <1>6, <1>7, <1>8, FS_Subset
  <2>2. Cardinality(({path} \cup Seen) \cup (Own \cup Again)) \in Nat
    BY <1>7, FS_CardinalityType
  <2> QED
    BY <1>1, <1>7, <2>1, <2>2
<1>10. NewInode \in 1 .. N /\ NewInode \notin UsedInodes
  BY <1>9 DEF NewInode
<1> QED
  BY <1>8, <1>10

(***************************************************************************)
(* What a helper's steps change                                            *)
(***************************************************************************)
AnyHelperStep(h) == Start(h) \/ LockTimeout(h) \/ ExitTimeout(h) \/ HelperStep(h)

LEMMA HolderPoint ==
  ASSUME HelperTypes, ControlInv, NEW h \in Helpers, NEW owner,
         hpc[h] \in {"judge", "recheck", "unlink"}
  PROVE  Holder(h, owner) \in HelperPoints
BY DEF HelperTypes, ControlInv, Fits, Holder, HelperPoints, Purposes

(* A helper moves on, with another reason or record perhaps.               *)
LEMMA MoveTypes ==
  ASSUME HelperTypes, NEW h \in Helpers, NEW p \in HelperPoints,
         hpc' = [hpc EXCEPT ![h] = p],
         purpose' = purpose \/ \E q \in Purposes : purpose' = [purpose EXCEPT ![h] = q],
         seen' = seen \/ \E r \in Nat \cup Pids : seen' = [seen EXCEPT ![h] = r],
         UNCHANGED <<wish, target, plan, spawned, verdict>>
  PROVE  HelperTypes'
BY DEF HelperTypes

LEMMA ReturnTypes ==
  ASSUME HelperTypes, NEW h \in Helpers, NEW o \in {"ok", "kept", "error"}, Return(h, o),
         UNCHANGED <<wish, target, plan, spawned>>
  PROVE  HelperTypes'
<1>1. "recheck" \in HelperPoints /\ "unlock" \in Purposes /\ h \in Pids
  BY DEF HelperPoints, Purposes, Pids, Processes
<1> QED
  BY <1>1 DEF Return, HelperTypes

LEMMA ForgetsTypes ==
  ASSUME HelperTypes, NEW h \in Helpers, Forgets(h)
  PROVE  HelperTypes'
<1>1. /\ "end" \in HelperPoints /\ "lock" \in Purposes /\ NoPid \in Pids /\ NoWish \in Wishes
      /\ NoPlan \in PlanTypes
  BY DEF HelperPoints, Purposes, Pids, Wishes, PlanTypes, NoWish, NoPlan
<1> HIDE DEF NoWish, NoPlan
<1> QED
  BY <1>1 DEF Forgets, HelperTypes

LEMMA HelperTypesStep ==
  ASSUME TypeInv, ControlInv, NEW h \in Helpers, AnyHelperStep(h)
  PROVE  HelperTypes'
<1>0. HelperTypes /\ DirTypes /\ ServerTypes
  BY DEF TypeInv
<1>1. CASE InstallLock(h)
  <2>1. \E p \in {"query", "judge"} :
          /\ hpc' = [hpc EXCEPT ![h] = p]
          /\ purpose' = purpose \/ purpose' = [purpose EXCEPT ![h] = "lock"]
          /\ UNCHANGED <<seen, wish, target, plan, spawned, verdict>>
    BY <1>1 DEF InstallLock
  <2> QED
    BY <1>0, <2>1, MoveTypes DEF HelperPoints, Purposes
<1>2. CASE JudgeRecord(h)
  <2>1. Record(h) \in Pids
    BY <1>0 DEF DirTypes, Record, RecordFile
  <2>2. PICK owner \in Ownership(Record(h)) :
          LET stale == owner = "gone" /\ Record(h) # NoPid IN
          /\ hpc' = [hpc EXCEPT ![h] = IF stale THEN "recheck" ELSE Holder(h, owner)]
          /\ seen' = [seen EXCEPT ![h] = IF stale THEN Record(h) ELSE NoPid]
    BY <1>2 DEF JudgeRecord
  <2>3. /\ hpc[h] = "judge" /\ UNCHANGED <<purpose, wish, target, spawned, verdict>>
        /\ plan' \in {plan, [plan EXCEPT ![h].old = Record(h)]}
    BY <1>2 DEF JudgeRecord
  <2>4. hpc' \in [Helpers -> HelperPoints]
    <3>1. "recheck" \in HelperPoints /\ Holder(h, owner) \in HelperPoints
      BY <1>0, <2>3, HolderPoint DEF HelperPoints
    <3> QED
      BY <1>0, <2>2, <3>1 DEF HelperTypes
  <2>5. seen' \in [Helpers -> Nat \cup Pids]
    BY <1>0, <2>1, <2>2 DEF HelperTypes, Pids
  <2>6. plan' \in [Helpers -> PlanTypes]
    <3>1. plan[h] \in PlanTypes
      BY <1>0 DEF HelperTypes
    <3>2. [plan[h] EXCEPT !.old = Record(h)] \in PlanTypes
      BY <2>1, <3>1 DEF PlanTypes
    <3>3. [plan EXCEPT ![h].old = Record(h)] = [plan EXCEPT ![h] = [plan[h] EXCEPT !.old = Record(h)]]
      OBVIOUS
    <3> QED
      BY <1>0, <2>3, <3>2, <3>3 DEF HelperTypes
  <2> QED
    BY <1>0, <2>3, <2>4, <2>5, <2>6 DEF HelperTypes
<1>3. CASE Recheck(h)
  <2>1. hpc[h] = "recheck" /\ UNCHANGED <<purpose, wish, target, plan, spawned, verdict>>
    BY <1>3 DEF Recheck, helperVars
  <2>2. \E p \in {"unlink", "judge", Holder(h, "gone")} :
          /\ hpc' = [hpc EXCEPT ![h] = p]
          /\ seen' = seen \/ seen' = [seen EXCEPT ![h] = NoPid]
    BY <1>3 DEF Recheck
  <2>3. {"unlink", "judge", Holder(h, "gone")} \subseteq HelperPoints
    BY <1>0, <2>1, HolderPoint DEF HelperPoints
  <2> QED
    BY <1>0, <2>1, <2>2, <2>3, MoveTypes DEF Pids
<1>4. CASE Unlink(h)
  <2>1. /\ hpc[h] = "unlink" /\ UNCHANGED <<purpose, wish, target, plan, spawned, verdict>>
        /\ hpc' = [hpc EXCEPT ![h] = Holder(h, "gone")]
        /\ seen' = [seen EXCEPT ![h] = NoPid]
    BY <1>4 DEF Unlink
  <2> QED
    <3>1. Holder(h, "gone") \in HelperPoints
      BY <1>0, <2>1, HolderPoint
    <3>2. HelperTypes
      BY <1>0
    <3> QED
      BY <2>1, <3>1, <3>2, MoveTypes DEF Pids
<1>5. CASE Start(h)
  <2>1. \E p \in {"install", "probe", "judge"} :
          /\ hpc' = [hpc EXCEPT ![h] = p]
          /\ purpose' = purpose
             \/ \E q \in {"gcLock", "gcPid", "gcSocket"} : purpose' = [purpose EXCEPT ![h] = q]
    BY <1>5 DEF Start
  <2>2. UNCHANGED <<seen, target, plan, spawned, verdict>>
        /\ \E w \in Wishes : wish' = [wish EXCEPT ![h] = w]
    BY <1>5 DEF Start, Wishes
  <2>3. hpc' \in [Helpers -> HelperPoints]
    BY <1>0, <2>1 DEF HelperTypes, HelperPoints
  <2>4. purpose' \in [Helpers -> Purposes]
    BY <1>0, <2>1 DEF HelperTypes, Purposes
  <2> QED
    BY <1>0, <2>2, <2>3, <2>4 DEF HelperTypes
<1>6. CASE LockTimeout(h)
  <2>1. /\ hpc' = [hpc EXCEPT ![h] = "end"] /\ verdict' = [verdict EXCEPT ![h] = "error"]
        /\ UNCHANGED <<purpose, seen, wish, target, plan, spawned>>
    BY <1>6 DEF LockTimeout
  <2> QED
    BY <1>0, <2>1 DEF HelperTypes, HelperPoints
<1>7. CASE ServerFound(h)
  <2>1. CASE Return(h, "ok") /\ UNCHANGED target
    BY <1>0, <1>7, <2>1, ReturnTypes DEF ServerFound
  <2>2. CASE \E s \in Servers : /\ hpc' = [hpc EXCEPT ![h] = "snapshot"]
                                /\ target' = [target EXCEPT ![h] = s]
                                /\ UNCHANGED <<purpose, seen, wish, plan, spawned, verdict>>
    BY <1>0, <2>2 DEF HelperTypes, HelperPoints
  <2> QED
    BY <1>7, <2>1, <2>2 DEF ServerFound, Answering, Dialable
<1>8. CASE ServerSilent(h)
  <2>1. UNCHANGED <<wish, target, plan, spawned>>
    BY <1>8 DEF ServerSilent
  <2>2. CASE Return(h, "error")
    BY <1>0, <2>1, <2>2, ReturnTypes
  <2>3. CASE /\ hpc' = [hpc EXCEPT ![h] = "judge"]
             /\ purpose' = [purpose EXCEPT ![h] = "owner"] /\ UNCHANGED <<seen, verdict>>
    BY <1>0, <2>1, <2>3, MoveTypes DEF HelperPoints, Purposes
  <2> QED
    BY <1>8, <2>2, <2>3 DEF ServerSilent
<1>9. CASE Snapshot(h)
  <2>1. UNCHANGED <<wish, target, spawned>>
    BY <1>9 DEF Snapshot
  <2>2. CASE Return(h, "kept") /\ UNCHANGED plan
    BY <1>0, <2>1, <2>2, ReturnTypes
  <2>3. CASE /\ hpc' = [hpc EXCEPT ![h] = "judge"] /\ target[h] \in Servers
             /\ purpose' = [purpose EXCEPT ![h] = "old"] /\ UNCHANGED <<seen, verdict>>
             /\ plan' = [plan EXCEPT ![h] = Replacement(target[h])]
    <3>1. Replacement(target[h]) \in PlanTypes
      BY <1>0, <2>3 DEF Replacement, NoPlan, PlanTypes, Pids, ServerTypes
    <3> QED
      BY <1>0, <2>1, <2>3, <3>1 DEF HelperTypes, HelperPoints, Purposes
  <2> QED
    BY <1>9, <2>2, <2>3 DEF Snapshot, Answering, Dialable
<1>10. CASE HandoffWindow(h)
  <2>1. /\ hpc' = [hpc EXCEPT ![h] = "final"] \/ hpc' = hpc
        /\ UNCHANGED <<purpose, seen, wish, target, plan, spawned, verdict>>
    BY <1>10 DEF HandoffWindow
  <2> QED
    BY <1>0, <2>1 DEF HelperTypes, HelperPoints
<1>11. CASE HandoffFails(h) \/ ExitTimeout(h) \/ StartTimeout(h)
  <2>1. \E o \in {"kept", "error"} : Return(h, o) /\ UNCHANGED <<wish, target, plan, spawned>>
    BY <1>11 DEF HandoffFails, ExitTimeout, StartTimeout
  <2> QED
    BY <1>0, <2>1, ReturnTypes
<1>12. CASE RequestShutdown(h) \/ ServerExited(h) \/ ComparePath(h) \/ UnlinkPath(h)
  <2>1. \E p \in {"awaitExit", "final", "unlinkPath", "spawn", "end"} :
          /\ hpc' = [hpc EXCEPT ![h] = p]
          /\ UNCHANGED <<purpose, seen, wish, target, plan, spawned, verdict>>
    BY <1>12 DEF RequestShutdown, ServerExited, ComparePath, UnlinkPath
  <2> QED
    BY <1>0, <2>1, MoveTypes DEF HelperPoints
<1>13. CASE FinalCheck(h)
  <2>1. UNCHANGED <<wish, target, plan, spawned>>
    BY <1>13 DEF FinalCheck
  <2>2. CASE Return(h, "ok")
    BY <1>0, <2>1, <2>2, ReturnTypes
  <2>3. CASE \E p \in {"spawn", "probe"} : /\ hpc' = [hpc EXCEPT ![h] = p]
                                           /\ UNCHANGED <<purpose, seen, verdict>>
    BY <1>0, <2>1, <2>3, MoveTypes DEF HelperPoints
  <2> QED
    BY <1>13, <2>2, <2>3 DEF FinalCheck
<1>14. CASE ProbePath(h)
  <2>1. \E p \in {"end", "spawn", "compare", "unlinkPath"} :
          /\ hpc' = [hpc EXCEPT ![h] = p] /\ seen' \in {seen, [seen EXCEPT ![h] = path]}
          /\ UNCHANGED <<purpose, wish, target, plan, spawned, verdict>>
    BY <1>14 DEF ProbePath
  <2>2. path \in Nat
    BY <1>0 DEF DirTypes
  <2> QED
    BY <1>0, <2>1, <2>2, MoveTypes DEF HelperPoints
<1>15. CASE Spawn(h)
  <2>1. UNCHANGED <<wish, target, plan>>
    BY <1>15 DEF Spawn
  <2>2. CASE Return(h, "error") /\ UNCHANGED spawned
    BY <1>0, <2>1, <2>2, ReturnTypes
  <2>3. CASE \E s \in Servers : /\ spawned' = [spawned EXCEPT ![h] = s]
                                /\ hpc' = [hpc EXCEPT ![h] = "awaitServer"]
                                /\ UNCHANGED <<purpose, seen, verdict>>
    BY <1>0, <2>1, <2>3 DEF HelperTypes, HelperPoints
  <2>4. (CHOOSE q \in Servers : FreshPid(q)) \in Servers \/ ~\E q \in Servers : FreshPid(q)
    OBVIOUS
  <2> QED
    BY <1>15, <2>2, <2>3, <2>4 DEF Spawn
<1>16. CASE ServerStarted(h)
  BY <1>0, <1>16, ReturnTypes DEF ServerStarted
<1>17. CASE End(h)
  <2>1. Forgets(h)
    BY <1>17 DEF End
  <2> QED
    BY <1>0, <2>1, ForgetsTypes
<1> QED
  BY <1>1, <1>2, <1>3, <1>4, <1>5, <1>6, <1>7, <1>8, <1>9, <1>10, <1>11, <1>12, <1>13, <1>14,
     <1>15, <1>16, <1>17 DEF AnyHelperStep, HelperStep

(* The directory, the processes' lives and the budget of disturbances.     *)
LEMMA DirTypesStep ==
  ASSUME TypeInv, NEW h \in Helpers, AnyHelperStep(h)
  PROVE  DirTypes'
<1>0. DirTypes /\ HelperTypes
  BY DEF TypeInv
<1>1. path' \in Nat
  <2>1. path' \in {0, path}
    BY DEF AnyHelperStep, HelperStep, InstallLock, JudgeRecord, Recheck, Unlink, Start,
           LockTimeout, ServerFound, ServerSilent, Snapshot, HandoffWindow, HandoffFails,
           RequestShutdown, ServerExited, ExitTimeout, FinalCheck, ProbePath, ComparePath,
           UnlinkPath, RemoveName, Spawn, ServerStarted, StartTimeout, End, dirVars
  <2> QED
    BY <1>0, <2>1 DEF DirTypes
<1>2. disturbances' \in 0 .. MaxDisturbances
  <2>1. disturbances' = disturbances \/ Disturbed
    BY DEF AnyHelperStep, HelperStep, InstallLock, JudgeRecord, Recheck, Unlink, Start,
           LockTimeout, ServerFound, ServerSilent, Snapshot, HandoffWindow, HandoffFails,
           RequestShutdown, ServerExited, ExitTimeout, FinalCheck, ProbePath, ComparePath,
           UnlinkPath, Spawn, ServerStarted, StartTimeout, End, TakesTime, faultVars
  <2> QED
    BY <1>0, <2>1, SessionAssumption DEF DirTypes, Disturbed
<1>3. file' \in [{"lock", "pid"} -> Pids]
  <2>1. file' \in {file, [file EXCEPT !["lock"] = h], [file EXCEPT ![RecordFile(h)] = NoPid]}
    BY DEF AnyHelperStep, HelperStep, InstallLock, JudgeRecord, Recheck, Unlink, Start,
           LockTimeout, ServerFound, ServerSilent, Snapshot, HandoffWindow, HandoffFails,
           RequestShutdown, ServerExited, ExitTimeout, FinalCheck, ProbePath, ComparePath,
           UnlinkPath, Spawn, ServerStarted, StartTimeout, End, dirVars
  <2> QED
    BY <1>0, <2>1 DEF DirTypes, Pids, Processes
<1>4. onDisk' \subseteq Servers /\ life' \in [Processes -> {"none", "alive", "dead", "reused"}]
  <2>1. CASE Spawn(h) /\ \E s \in Servers : FreshPid(s)
    <3>1. PICK s \in Servers : /\ life' = [life EXCEPT ![s] = "alive"]
                               /\ onDisk' \in {onDisk, onDisk \cup {s}}
      BY <2>1 DEF Spawn
    <3> QED
      BY <1>0, <3>1 DEF DirTypes
  <2>2. CASE Spawn(h) /\ ~\E s \in Servers : FreshPid(s)
    BY <1>0, <2>2 DEF Spawn, Return, DirTypes
  <2>3. CASE ~Spawn(h)
    <3>1. /\ onDisk' = onDisk \/ \E o \in {"ok", "kept", "error"} : Return(h, o)
          /\ life' \in {life, [life EXCEPT ![h] = "alive"], [life EXCEPT ![h] = "dead"]}
      BY <2>3 DEF AnyHelperStep, HelperStep, InstallLock, JudgeRecord, Recheck, Unlink,
           Start, LockTimeout, ServerFound, ServerSilent, Snapshot, HandoffWindow,
           HandoffFails, RequestShutdown, ServerExited, ExitTimeout, FinalCheck, ProbePath,
           ComparePath, UnlinkPath, ServerStarted, StartTimeout, End, dirVars
    <3> QED
      BY <1>0, <3>1 DEF DirTypes, Return, Processes
  <2> QED
    BY <2>1, <2>2, <2>3
<1> QED
  BY <1>1, <1>2, <1>3, <1>4 DEF DirTypes

(* What helpers do to the servers: start one, close windows, ask one to    *)
(* end.                                                                    *)
LEMMA ServerTypesStep ==
  ASSUME TypeInv, NEW h \in Helpers, AnyHelperStep(h)
  PROVE  ServerTypes' /\ ServerParts'
<1>0. DirTypes /\ ServerTypes /\ ServerParts /\ h \in Processes /\ h \notin Servers
  BY SessionAssumption DEF TypeInv, Processes
<1>1. ASSUME UNCHANGED <<bootVars, serverVars>>, \A s \in Servers : life'[s] = life[s]
      PROVE  ServerTypes' /\ ServerParts'
  <2>1. ServerTypes'
    BY <1>0, <1>1 DEF ServerTypes, bootVars, serverVars
  <2>2. ServerParts'
    BY <1>0, <1>1 DEF ServerParts, Alive, bootVars, serverVars
  <2> QED
    BY <2>1, <2>2
<1>2. CASE HandoffWindow(h)
  <2>1. PICK w : hosted' = [hosted EXCEPT ![target[h]] = @ \ {w}] \/ hosted' = hosted
    BY <1>2 DEF HandoffWindow
  <2>2. \A s \in Servers : hosted'[s] \subseteq hosted[s]
    BY <1>0, <2>1 DEF ServerTypes
  <2>3. UNCHANGED <<bootVars, at, open, identity, told, rpc, rebound, life>>
    BY <1>2 DEF HandoffWindow
  <2>4. hosted' \in [Servers -> SUBSET AllWindows]
    BY <1>0, <2>1 DEF ServerTypes
  <2>5. ServerTypes'
    BY <1>0, <2>3, <2>4 DEF ServerTypes, bootVars
  <2>6. ServerParts'
    BY <1>0, <2>2, <2>3 DEF ServerParts, Alive
  <2> QED
    BY <2>5, <2>6
<1>3. CASE RequestShutdown(h) \/ ServerStarted(h)
  <2>1. \E s : told' = told \/ told' = [told EXCEPT ![s] = TRUE]
    BY <1>3 DEF RequestShutdown, ServerStarted
  <2>2. UNCHANGED <<bootVars, at, hosted, open, identity, rpc, rebound, life>>
    BY <1>3 DEF RequestShutdown, ServerStarted, bootVars
  <2>3. told' \in [Servers -> BOOLEAN]
    BY <1>0, <2>1 DEF ServerTypes
  <2>4. ServerTypes'
    BY <1>0, <2>2, <2>3 DEF ServerTypes, bootVars
  <2>5. ServerParts'
    BY <1>0, <2>2 DEF ServerParts, Alive
  <2> QED
    BY <2>4, <2>5
<1>4. CASE Spawn(h)
  <2>1. CASE ~\E s \in Servers : FreshPid(s)
    <3>1. UNCHANGED <<bootVars, serverVars, life>>
      BY <1>4, <2>1 DEF Spawn, bootVars, serverVars
    <3> QED
      BY <1>1, <3>1
  <2>2. CASE \E s \in Servers : FreshPid(s)
    <3>1. PICK s \in Servers : /\ FreshPid(s) /\ life' = [life EXCEPT ![s] = "alive"]
                               /\ at' = [at EXCEPT ![s] = "boot"]
                               /\ restore' = [restore EXCEPT ![s] = RestoredBy(h)]
      BY <1>4, <2>2 DEF Spawn
    <3>2. UNCHANGED <<version, shutdownOK, tries, hosted, open, identity, told, rpc, rebound>>
      BY <1>4 DEF Spawn
    <3>3. RestoredBy(h) \subseteq AllWindows
      BY DEF TypeInv, HelperTypes, PlanTypes, RestoredBy
    <3>4. ServerTypes'
      BY <1>0, <3>1, <3>2, <3>3 DEF ServerTypes
    <3>5. life[s] = "none" /\ hosted[s] = {} /\ open[s] = {} /\ s \in Processes
      BY <1>0, <3>1 DEF ServerParts, FreshPid, Alive, Processes
    <3>6. ServerParts'
      BY <1>0, <3>1, <3>2, <3>5 DEF ServerParts, ServerTypes, DirTypes, Alive, Processes
    <3> QED
      BY <3>4, <3>6
  <2> QED
    BY <2>1, <2>2
<1>5. CASE Start(h) \/ End(h)
  <2>1. UNCHANGED <<bootVars, serverVars>> /\ \A s \in Servers : life'[s] = life[s]
    <3>1. \E l : life' = [life EXCEPT ![h] = l]
      BY <1>5 DEF Start, End
    <3> QED
      BY <1>0, <1>5, <3>1 DEF Start, End, DirTypes
  <2> QED
    BY <1>1, <2>1
<1>6. CASE ~(HandoffWindow(h) \/ RequestShutdown(h) \/ ServerStarted(h) \/ Spawn(h)
             \/ Start(h) \/ End(h))
  <2>1. UNCHANGED <<bootVars, serverVars, life>>
    BY <1>6 DEF AnyHelperStep, HelperStep, InstallLock, JudgeRecord, Recheck, Unlink,
         LockTimeout, ServerFound, ServerSilent, Snapshot, HandoffFails, ServerExited,
         ExitTimeout, FinalCheck, ProbePath, ComparePath, UnlinkPath, StartTimeout
  <2> QED
    BY <1>1, <2>1
<1> QED
  BY <1>2, <1>3, <1>4, <1>5, <1>6

(***************************************************************************)
(* What a server's steps change                                            *)
(***************************************************************************)


(* A server that ends leaves nothing open and nothing hosted.              *)
LEMMA ExitTypes ==
  ASSUME TypeInv, NEW s \in Servers, Exit(s), UNCHANGED tries
  PROVE  /\ ServerTypes' /\ ServerParts'
         /\ life' \in [Processes -> {"none", "alive", "dead", "reused"}]
<1>0. ServerTypes /\ ServerParts /\ s \in Processes
      /\ life \in [Processes -> {"none", "alive", "dead", "reused"}]
  BY DEF TypeInv, DirTypes, Processes
<1>1. ServerTypes'
  BY <1>0 DEF Exit, ServerTypes
<1>2. ServerParts'
  <2>1. ASSUME NEW q \in Servers, q # s
        PROVE  /\ life'[q] = life[q] /\ at'[q] = at[q] /\ open'[q] = open[q]
               /\ identity'[q] = identity[q] /\ rebound'[q] = rebound[q]
               /\ hosted'[q] = hosted[q] /\ rpc'[q] = rpc[q]
    BY <1>0, <2>1 DEF Exit, ServerTypes, Processes
  <2>2. life'[s] = "dead" /\ at'[s] = "gone" /\ open'[s] = {} /\ hosted'[s] = {}
    BY <1>0 DEF Exit, ServerTypes
  <2> QED
    BY <1>0, <2>1, <2>2 DEF ServerParts, Alive
<1> QED
  BY <1>0, <1>1, <1>2 DEF Exit

(* A server goes from one place to the next.                               *)
LEMMA AtTypes ==
  ASSUME TypeInv, NEW s \in Servers, Alive(s), NEW p, at' = [at EXCEPT ![s] = p],
         p \in {"ask", "clear", "listen", "restore", "unlinkPath", "join", "unlinkPid"},
         hosted[s] = {},
         UNCHANGED <<life, version, shutdownOK, hosted, restore, tries, told, rpc, open,
                     identity, rebound>>
  PROVE  ServerTypes' /\ ServerParts'
<1>0. ServerTypes /\ ServerParts
  BY DEF TypeInv
<1>1. ServerTypes'
  BY <1>0 DEF ServerTypes
<1>2. ServerParts'
  BY <1>0 DEF ServerParts, ServerTypes, Alive
<1> QED
  BY <1>1, <1>2

LEMMA ServerStepTypes ==
  ASSUME TypeInv, NEW s \in Servers, ServerStep(s) \/ Republish(s)
  PROVE  TypeInv'
<1>0. /\ DirTypes /\ HelperTypes /\ ServerTypes /\ ServerParts /\ s \in Processes
      /\ FreshWindow \in AllWindows
  BY DEF TypeInv, Processes, AllWindows
<1>1. /\ HelperTypes' /\ disturbances' = disturbances /\ onDisk' \subseteq Servers
      /\ file' \in [{"lock", "pid"} -> Pids] /\ path' \in {0, path, NewInode}
  <2>1. UNCHANGED <<helperVars, disturbances>>
    BY DEF ServerStep, Republish, ReadRestore, AskOther, ClearName, Listen, RecordPid,
           RestoreWindows, RestoreFails, CloseServer, CheckPath, UnlinkOwnPath, JoinAndForget,
           UnlinkPid, NoticeMissing, Rebind, InstallListener, UndoRebind, faultVars
  <2>2. /\ onDisk' \in {onDisk, onDisk \ {s}} /\ path' \in {0, path, NewInode}
        /\ file' \in {file, [file EXCEPT !["pid"] = s], [file EXCEPT !["pid"] = NoPid]}
    BY DEF ServerStep, Republish, ReadRestore, AskOther, ClearName, Listen, RecordPid,
           RestoreWindows, RestoreFails, CloseServer, CheckPath, UnlinkOwnPath, JoinAndForget,
           UnlinkPid, NoticeMissing, Rebind, InstallListener, UndoRebind, RemoveName, dirVars
  <2>3. HelperTypes'
    BY <1>0, <2>1 DEF HelperTypes, helperVars
  <2> QED
    BY <1>0, <2>1, <2>2, <2>3 DEF DirTypes, Pids
<1>2. NewInode \in Nat
  BY FreshInode
<1>3. ASSUME life' \in [Processes -> {"none", "alive", "dead", "reused"}],
             ServerTypes', ServerParts'
      PROVE  TypeInv'
  BY <1>0, <1>1, <1>2, <1>3 DEF TypeInv, DirTypes
<1>4. CASE Exit(s) /\ UNCHANGED tries
  BY <1>3, <1>4, ExitTypes
<1>5. CASE /\ ReadRestore(s) \/ AskOther(s) \/ ClearName(s) \/ RecordPid(s) \/ CheckPath(s)
              \/ UnlinkOwnPath(s) \/ JoinAndForget(s)
           /\ ~Exit(s)
  <2>1. \E p \in {"ask", "clear", "listen", "restore", "unlinkPath", "join", "unlinkPid"} :
          at' = [at EXCEPT ![s] = p]
    BY <1>5 DEF ReadRestore, AskOther, ClearName, RecordPid, CheckPath, UnlinkOwnPath,
         JoinAndForget
  <2>2. /\ Alive(s) /\ at[s] \in {"boot", "ask", "clear", "record", "checkPath", "unlinkPath", "join"}
        /\ UNCHANGED <<life, version, shutdownOK, hosted, restore, tries, told, rpc, open,
                       identity, rebound>>
    BY <1>5 DEF ReadRestore, AskOther, ClearName, RecordPid, CheckPath, UnlinkOwnPath,
         JoinAndForget, Stays, bootVars
  <2>3. hosted[s] = {}
    BY <1>0, <2>2 DEF ServerParts
  <2> QED
    BY <1>0, <1>3, <2>1, <2>2, <2>3, AtTypes DEF DirTypes
<1>6. CASE Listen(s)
  <2>1. Alive(s) /\ at[s] = "listen" /\ hosted[s] = {}
    BY <1>0, <1>6 DEF Listen, ServerParts
  <2>2. CASE path = 0
    <3>1. /\ open' = [open EXCEPT ![s] = {NewInode}]
          /\ identity' = [identity EXCEPT ![s] = NewInode]
          /\ at' = [at EXCEPT ![s] = "record"]
          /\ UNCHANGED <<tries, life, hosted, rpc, rebound, told, version, shutdownOK, restore>>
      BY <1>6, <2>2 DEF Listen
    <3>2. ServerTypes'
      BY <1>0, <1>2, <3>1 DEF ServerTypes
    <3>3. ServerParts'
      BY <1>0, <2>1, <3>1 DEF ServerParts, ServerTypes, Alive
    <3> QED
      BY <1>0, <1>3, <3>1, <3>2, <3>3 DEF DirTypes
  <2>3. CASE path # 0 /\ Exit(s)
    <3>1. tries' = [tries EXCEPT ![s] = @ + 1]
      BY <1>6, <2>3 DEF Listen
    <3>2. tries' \in [Servers -> Nat]
      BY <1>0, <3>1 DEF ServerTypes
    <3>3. ServerTypes'
      BY <1>0, <2>3, <3>2 DEF Exit, ServerTypes
    <3>4. ServerParts'
      BY <1>0, <2>3 DEF Exit, ServerParts, ServerTypes, DirTypes, Alive
    <3>5. life' \in [Processes -> {"none", "alive", "dead", "reused"}]
      BY <1>0, <2>3 DEF Exit, DirTypes
    <3> QED
      BY <1>3, <3>3, <3>4, <3>5
  <2>4. CASE path # 0 /\ ~Exit(s)
    <3>1. /\ tries' = [tries EXCEPT ![s] = @ + 1] /\ at' = [at EXCEPT ![s] = "clear"]
          /\ UNCHANGED <<life, open, hosted, rpc, identity, rebound, told, version, shutdownOK, restore>>
      BY <1>6, <2>4 DEF Listen, Stays
    <3>2. ServerTypes'
      BY <1>0, <3>1 DEF ServerTypes
    <3>3. ServerParts'
      BY <1>0, <2>1, <3>1 DEF ServerParts, ServerTypes, Alive
    <3> QED
      BY <1>0, <1>3, <3>1, <3>2, <3>3 DEF DirTypes
  <2> QED
    BY <2>2, <2>3, <2>4
<1>7. CASE RestoreWindows(s)
  <2>1. /\ \E ws \in SUBSET AllWindows : hosted' = [hosted EXCEPT ![s] = ws]
        /\ at' = [at EXCEPT ![s] = "serving"] /\ Alive(s)
        /\ restore' = [restore EXCEPT ![s] = {}] /\ tries' = [tries EXCEPT ![s] = 0]
        /\ UNCHANGED <<life, version, shutdownOK, open, identity, told, rpc, rebound>>
    BY <1>0, <1>7 DEF RestoreWindows, ServerTypes
  <2>2. ServerTypes'
    BY <1>0, <2>1 DEF ServerTypes
  <2>3. ServerParts'
    BY <1>0, <2>1 DEF ServerParts, ServerTypes, Alive
  <2> QED
    BY <1>0, <1>3, <2>1, <2>2, <2>3 DEF DirTypes
<1>8. CASE CloseServer(s)
  <2>1. /\ Alive(s) /\ at' = [at EXCEPT ![s] = "checkPath"]
        /\ open' = [open EXCEPT ![s] = @ \ {identity[s]}] /\ hosted' = [hosted EXCEPT ![s] = {}]
        /\ UNCHANGED <<life, bootVars, identity, told, rpc, rebound>>
    BY <1>8 DEF CloseServer, HostedOnClose
  <2>2. ServerTypes'
    BY <1>0, <2>1 DEF ServerTypes, bootVars
  <2>3. ServerParts'
    BY <1>0, <2>1 DEF ServerParts, ServerTypes, Alive
  <2> QED
    BY <1>0, <1>3, <2>1, <2>2, <2>3 DEF DirTypes
<1>9. CASE NoticeMissing(s) \/ UndoRebind(s)
  <2>1. /\ rpc[s] # "bound" /\ \E p \in {"idle", "missing"} : rpc' = [rpc EXCEPT ![s] = p]
        /\ UNCHANGED <<life, bootVars, at, hosted, open, identity, told, rebound>>
    BY <1>9 DEF NoticeMissing, UndoRebind
  <2>2. ServerTypes'
    BY <1>0, <2>1 DEF ServerTypes, bootVars
  <2>3. ServerParts'
    BY <1>0, <2>1 DEF ServerParts, ServerTypes, Alive
  <2> QED
    BY <1>0, <1>3, <2>1, <2>2, <2>3 DEF DirTypes
<1>10. CASE Rebind(s)
  <2>1. /\ Alive(s) /\ rpc[s] = "missing"
        /\ UNCHANGED <<life, bootVars, at, hosted, identity, told>>
    BY <1>10 DEF Rebind
  <2>2. CASE path = 0
    <3>1. /\ open' = [open EXCEPT ![s] = @ \cup {NewInode}]
          /\ rebound' = [rebound EXCEPT ![s] = NewInode] /\ rpc' = [rpc EXCEPT ![s] = "bound"]
      BY <1>10, <2>2 DEF Rebind
    <3>2. ServerTypes'
      BY <1>0, <1>2, <2>1, <3>1 DEF ServerTypes, bootVars
    <3>3. ServerParts'
      BY <1>0, <2>1, <3>1 DEF ServerParts, ServerTypes, Alive
    <3> QED
      BY <1>0, <1>3, <2>1, <3>2, <3>3 DEF DirTypes
  <2>3. CASE path # 0
    <3>1. rpc' = [rpc EXCEPT ![s] = "idle"] /\ UNCHANGED <<open, rebound>>
      BY <1>10, <2>3 DEF Rebind
    <3>2. ServerTypes'
      BY <1>0, <2>1, <3>1 DEF ServerTypes, bootVars
    <3>3. ServerParts'
      BY <1>0, <2>1, <3>1 DEF ServerParts, ServerTypes, Alive
    <3> QED
      BY <1>0, <1>3, <2>1, <3>2, <3>3 DEF DirTypes
  <2> QED
    BY <2>2, <2>3
<1>11. CASE InstallListener(s)
  <2>1. /\ Alive(s) /\ \E p \in {"idle", "undo"} : rpc' = [rpc EXCEPT ![s] = p]
        /\ \/ /\ open' = [open EXCEPT ![s] = {rebound[s]}]
              /\ identity' = [identity EXCEPT ![s] = rebound[s]]
           \/ open' = [open EXCEPT ![s] = {}] /\ identity' = identity
        /\ UNCHANGED <<life, bootVars, at, hosted, told, rebound>>
    BY <1>11 DEF InstallListener
  <2>2. ServerTypes'
    BY <1>0, <2>1 DEF ServerTypes, bootVars
  <2>3. ServerParts'
    BY <1>0, <2>1 DEF ServerParts, ServerTypes, Alive
  <2> QED
    BY <1>0, <1>3, <2>1, <2>2, <2>3 DEF DirTypes
<1>12. CASE UnlinkPid(s)
  BY <1>4, <1>12 DEF UnlinkPid
<1>13. CASE (ReadRestore(s) \/ AskOther(s) \/ JoinAndForget(s)) /\ Exit(s)
  BY <1>4, <1>13 DEF ReadRestore, AskOther, JoinAndForget
<1>14. CASE (ClearName(s) \/ RecordPid(s) \/ CheckPath(s) \/ UnlinkOwnPath(s)) /\ Exit(s)
  BY <1>4, <1>14 DEF ClearName, RecordPid, CheckPath, UnlinkOwnPath, bootVars
<1>15. CASE RestoreFails(s)
  <2>1. /\ Alive(s) /\ hosted[s] = {} /\ at' = [at EXCEPT ![s] = "checkPath"]
        /\ restore' = [restore EXCEPT ![s] = {}] /\ tries' = [tries EXCEPT ![s] = 0]
        /\ open' = [open EXCEPT ![s] = {}]
        /\ UNCHANGED <<life, version, shutdownOK, hosted, identity, told, rpc, rebound>>
    BY <1>0, <1>15 DEF RestoreFails, ServerParts
  <2>2. ServerTypes'
    BY <1>0, <2>1 DEF ServerTypes
  <2>3. ServerParts'
    BY <1>0, <2>1 DEF ServerParts, ServerTypes, Alive
  <2> QED
    BY <1>0, <1>3, <2>1, <2>2, <2>3 DEF DirTypes
<1> QED
  BY <1>5, <1>6, <1>7, <1>8, <1>9, <1>10, <1>11, <1>12, <1>13, <1>14, <1>15
     DEF ServerStep, Republish

(* The end of a window, a crash, and a pid that is given to a stranger.    *)
LEMMA FaultTypes ==
  ASSUME TypeInv,
         (\E w \in NativeWindows : NativeEnds(w)) \/ (\E p \in Processes : Crash(p) \/ Reuse(p))
  PROVE  TypeInv'
<1>0. DirTypes /\ HelperTypes /\ ServerTypes /\ ServerParts
  BY DEF TypeInv
<1>1. ASSUME NEW w \in NativeWindows, NativeEnds(w) PROVE TypeInv'
  <2>1. hosted' = [s \in Servers |-> hosted[s] \ {w}]
        /\ UNCHANGED <<dirVars, life, helperVars, bootVars, at, open, identity, told, rpc,
                       rebound, disturbances>>
    BY <1>1 DEF NativeEnds, faultVars
  <2>2. DirTypes' /\ HelperTypes'
    BY <1>0, <2>1 DEF DirTypes, HelperTypes, dirVars, helperVars
  <2>3. ServerTypes'
    BY <1>0, <2>1 DEF ServerTypes, bootVars
  <2>4. ServerParts'
    BY <1>0, <2>1 DEF ServerParts, Alive
  <2> QED
    BY <2>2, <2>3, <2>4 DEF TypeInv
<1>2. ASSUME NEW p \in Processes, Crash(p) PROVE TypeInv'
  <2>1. UNCHANGED <<file, path, onDisk, tries>> /\ Disturbed
    BY <1>2 DEF Crash, dirVars
  <2>2. disturbances' \in 0 .. MaxDisturbances
    BY <1>0, <2>1, SessionAssumption DEF Disturbed, DirTypes
  <2>3. CASE p \in Servers
    <3>1. Exit(p) /\ UNCHANGED helperVars
      BY <1>2, <2>3 DEF Crash
    <3>2. HelperTypes'
      BY <1>0, <3>1 DEF HelperTypes, helperVars
    <3> QED
      BY <1>0, <2>1, <2>2, <2>3, <3>1, <3>2, ExitTypes DEF TypeInv, DirTypes
  <2>4. CASE p \notin Servers
    <3>1. /\ p \in Helpers /\ Forgets(p) /\ life' = [life EXCEPT ![p] = "dead"]
          /\ UNCHANGED <<serverVars, version, shutdownOK, restore>>
      BY <1>2, <2>4 DEF Crash, Processes
    <3>2. \A s \in Servers : life'[s] = life[s]
      BY <1>0, <2>4, <3>1 DEF DirTypes, Processes
    <3>3. HelperTypes'
      BY <1>0, <3>1, ForgetsTypes
    <3>4. ServerTypes'
      BY <1>0, <2>1, <3>1 DEF ServerTypes, serverVars
    <3>5. ServerParts'
      BY <1>0, <3>1, <3>2 DEF ServerParts, Alive, serverVars
    <3>6. DirTypes'
      BY <1>0, <2>1, <2>2, <3>1 DEF DirTypes
    <3> QED
      BY <3>3, <3>4, <3>5, <3>6 DEF TypeInv
  <2> QED
    BY <2>3, <2>4
<1>3. ASSUME NEW p \in Processes, Reuse(p) PROVE TypeInv'
  <2>1. /\ life[p] = "dead" /\ life' = [life EXCEPT ![p] = "reused"]
        /\ UNCHANGED <<dirVars, helperVars, bootVars, serverVars, disturbances>>
    BY <1>3 DEF Reuse, faultVars
  <2>2. DirTypes' /\ HelperTypes'
    BY <1>0, <2>1 DEF DirTypes, HelperTypes, dirVars, helperVars
  <2>3. ServerTypes'
    BY <1>0, <2>1 DEF ServerTypes, bootVars, serverVars
  <2>4. ServerParts'
    BY <1>0, <2>1 DEF ServerParts, Alive, DirTypes, Processes, bootVars, serverVars
  <2> QED
    BY <2>2, <2>3, <2>4 DEF TypeInv
<1> QED
  BY <1>1, <1>2, <1>3

LEMMA InitTypes == Init => TypeInv
<1> SUFFICES ASSUME Init PROVE TypeInv
  OBVIOUS
<1>1. PICK served \in BOOLEAN, v \in {"current", "older"}, c \in BOOLEAN,
           ws \in Workspaces, left \in Crashed \cup {NoPid} :
        LET Of(x, y) == [s \in Servers |-> IF served /\ s = Outgoing THEN x ELSE y] IN
        /\ ~served => v = "current"
        /\ v = "current" => c
        /\ life = [p \in Processes |-> IF served /\ p = Outgoing THEN "alive"
                                   ELSE IF p \in Crashed THEN "dead" ELSE "none"]
        /\ at = Of("serving", "gone") /\ version = Of(v, "current")
        /\ shutdownOK = Of(c, TRUE) /\ hosted = Of(ws, {})
        /\ open = Of({1}, {}) /\ identity = Of(1, 0)
        /\ path = (IF served THEN 1 ELSE 0)
        /\ file = [f \in {"lock", "pid"} |-> IF f = "lock" THEN left
                                            ELSE IF served THEN Outgoing ELSE NoPid]
        /\ disturbances = IF left = NoPid THEN 0 ELSE 1
        /\ left # NoPid => ~served /\ MaxDisturbances > 0
        /\ workspace = IF served THEN ws ELSE {}
  BY Zenon DEF Init
<1>2. ws \subseteq AllWindows /\ left \in Pids /\ Outgoing \in Servers /\ Outgoing \in Pids
      /\ Outgoing \notin Helpers
  BY SessionAssumption DEF AllWindows, Pids, Processes
<1>3. DirTypes
  <2>1. file \in [{"lock", "pid"} -> Pids] /\ path \in Nat /\ onDisk \subseteq Servers
    BY <1>1, <1>2 DEF Init, Pids
  <2>2. life \in [Processes -> {"none", "alive", "dead", "reused"}]
    BY <1>1
  <2>3. disturbances \in 0 .. MaxDisturbances
    BY <1>1, SessionAssumption
  <2> QED
    BY <2>1, <2>2, <2>3 DEF DirTypes
<1>4. HelperTypes
  <2>1. NoPlan \in PlanTypes /\ NoWish \in Wishes
    BY DEF NoPlan, PlanTypes, NoWish, Wishes, Pids
  <2> HIDE DEF NoPlan, NoWish
  <2> QED
    BY <2>1 DEF Init, HelperTypes, HelperPoints, Purposes, Pids
<1>5. ServerTypes
  <2>1. /\ at \in [Servers -> {"serving", "gone"}] /\ version \in [Servers -> {"current", "older"}]
        /\ shutdownOK \in [Servers -> BOOLEAN] /\ hosted \in [Servers -> SUBSET AllWindows]
    BY <1>1, <1>2
  <2>2. open \in [Servers -> SUBSET Nat] /\ identity \in [Servers -> Nat]
    BY <1>1
  <2>3. /\ restore = [s \in Servers |-> {}] /\ tries = [s \in Servers |-> 0]
        /\ told = [s \in Servers |-> FALSE] /\ rpc = [s \in Servers |-> "idle"]
        /\ rebound = [s \in Servers |-> 0]
    BY DEF Init
  <2>4. /\ restore \in [Servers -> SUBSET AllWindows] /\ tries \in [Servers -> Nat]
        /\ told \in [Servers -> BOOLEAN]
        /\ rpc \in [Servers -> {"idle", "missing", "bound", "undo"}]
        /\ rebound \in [Servers -> Nat]
    BY <2>3
  <2> QED
    BY <2>1, <2>2, <2>4 DEF ServerTypes
<1>6. ServerParts
  <2>1. \A s \in Servers : Alive(s) <=> served /\ s = Outgoing
    BY <1>1 DEF Alive, Processes
  <2> QED
    BY <1>1, <2>1 DEF ServerParts
<1> QED
  BY <1>3, <1>4, <1>5, <1>6 DEF TypeInv

(***************************************************************************)
(* The lock                                                                *)
(***************************************************************************)
LEMMA InitLock == Init => LockInv
<1> SUFFICES ASSUME Init PROVE LockInv
  OBVIOUS
<1>1. /\ hpc = [h \in Helpers |-> "end"] /\ purpose = [h \in Helpers |-> "lock"]
  BY DEF Init
<1>2. ControlInv /\ AsleepInv /\ StaleInv /\ HolderRecorded
  BY <1>1 DEF ControlInv, AsleepInv, Fits, StaleInv, Stale, HolderRecorded, Holds
<1>3. FileInv
  <2>1. PICK served \in BOOLEAN, left \in Crashed \cup {NoPid} :
        /\ life = [p \in Processes |-> IF served /\ p = Outgoing THEN "alive"
                                   ELSE IF p \in Crashed THEN "dead" ELSE "none"]
        /\ file = [f \in {"lock", "pid"} |-> IF f = "lock" THEN left
                                            ELSE IF served THEN Outgoing ELSE NoPid]
    BY DEF Init
  <2> QED
    BY <2>1, SessionAssumption DEF FileInv, Processes
<1> QED
  BY <1>2, <1>3 DEF LockInv


(* A step of one helper that leaves the lock file alone and enters nothing. *)
LEMMA LockFrame ==
  ASSUME TypeInv, LockInv, NEW h \in Helpers, Alive(h),
         \A g \in Helpers \ {h} :
           hpc'[g] = hpc[g] /\ purpose'[g] = purpose[g] /\ seen'[g] = seen[g],
         UNCHANGED <<file, raced>>,
         life' = life \/ \E s \in Servers : life[s] = "none" /\ life' = [life EXCEPT ![s] = "alive"],
         Fits(hpc'[h], purpose'[h]),
         Stale(hpc'[h], purpose'[h], seen'[h], h),
         hpc'[h] \notin {"install", "end"} /\ purpose'[h] \notin {"gcLock", "gcPid", "gcSocket"}
           /\ (hpc'[h] \in {"judge", "recheck", "unlink"} => purpose'[h] # "lock")
           => Holds(h)
  PROVE  LockInv'
<1>0. /\ life \in [Processes -> {"none", "alive", "dead", "reused"}]
      /\ ControlInv /\ AsleepInv /\ FileInv /\ StaleInv /\ HolderRecorded
      /\ Helpers \cap Servers = {}
      /\ file \in [{"lock", "pid"} -> Pids]
  BY SessionAssumption DEF TypeInv, DirTypes, LockInv
<1>1. /\ \A p \in Processes : life[p] # "none" => life'[p] = life[p]
      /\ \A g \in Helpers : life'[g] = life[g]
  BY <1>0 DEF Processes
<1>2. ControlInv' /\ AsleepInv'
  BY <1>0, <1>1 DEF ControlInv, AsleepInv, Alive
<1>3. FileInv'
  BY <1>0, <1>1 DEF FileInv, Pids
<1>4. StaleInv'
  <2>1. ASSUME NEW g \in Helpers, g # h PROVE Stale(hpc[g], purpose[g], seen[g], g)'
    BY <1>0, <1>1, <2>1 DEF StaleInv, Stale
  <2>2. Stale(hpc[h], purpose[h], seen[h], h)'
    BY <1>1 DEF Stale
  <2> QED
    BY <2>1, <2>2 DEF StaleInv
<1>5. HolderRecorded'
  <2>1. ASSUME NEW g \in Helpers, Holds(g)' PROVE Holds(g)
    BY <1>1, <2>1 DEF Holds, Alive
  <2> QED
    BY <1>0, <2>1 DEF HolderRecorded
<1> QED
  BY <1>2, <1>3, <1>4, <1>5 DEF LockInv

(* Who returns held the session until then.                                *)
LEMMA ReturnLock ==
  ASSUME TypeInv, LockInv, NEW h \in Helpers, NEW o, Return(h, o), Alive(h),
         hpc[h] \in {"query", "requery", "snapshot", "handoff", "shutdown", "awaitExit",
                     "final", "spawn", "awaitServer"},
         UNCHANGED <<file, life, raced>>
  PROVE  LockInv'
<1>1. /\ hpc'[h] = "recheck" /\ purpose'[h] = "unlock" /\ seen'[h] = h
      /\ \A g \in Helpers \ {h} :
           hpc'[g] = hpc[g] /\ purpose'[g] = purpose[g] /\ seen'[g] = seen[g]
  BY DEF Return, TypeInv, HelperTypes
<1>2. Holds(h)
  BY DEF Holds, LockInv, ControlInv, Fits
<1>3. Fits(hpc'[h], purpose'[h]) /\ Stale(hpc'[h], purpose'[h], seen'[h], h)
  BY <1>1 DEF Fits, Stale
<1> QED
  BY <1>1, <1>2, <1>3, LockFrame

(* A helper within the session that moves on still is.                     *)
LEMMA MoveLock ==
  ASSUME TypeInv, LockInv, NEW h \in Helpers, NEW p, Alive(h),
         hpc' = [hpc EXCEPT ![h] = p], p \notin {"install", "recheck", "unlink"},
         \/ purpose' = purpose
         \/ /\ hpc[h] \in {"query", "snapshot"}
            /\ \E q \in {"owner", "old"} : purpose' = [purpose EXCEPT ![h] = q],
         Fits(p, purpose'[h]),
         p = "end" \/ (/\ p = "judge" => purpose'[h] \in {"owner", "old"}
                       /\ hpc[h] \notin {"install", "judge", "recheck", "unlink", "end"}),
         UNCHANGED <<file, seen, raced>>,
         life' = life \/ \E s \in Servers : life[s] = "none" /\ life' = [life EXCEPT ![s] = "alive"]
  PROVE  LockInv'
<1>1. /\ hpc'[h] = p
      /\ \A g \in Helpers \ {h} : hpc'[g] = hpc[g] /\ purpose'[g] = purpose[g]
  BY DEF TypeInv, HelperTypes
<1>2. \/ purpose'[h] = purpose[h]
      \/ hpc[h] \in {"query", "snapshot"} /\ purpose'[h] \in {"owner", "old"}
  BY DEF TypeInv, HelperTypes
<1>3. Fits(hpc[h], purpose[h])
  BY DEF LockInv, ControlInv
<1>4. Fits(hpc'[h], purpose'[h]) /\ Stale(hpc'[h], purpose'[h], seen'[h], h)
  BY <1>1 DEF Stale
<1>5. hpc'[h] \notin {"install", "end"} /\ purpose'[h] \notin {"gcLock", "gcPid", "gcSocket"}
        /\ (hpc'[h] \in {"judge", "recheck", "unlink"} => purpose'[h] # "lock")
        => Holds(h)
  BY <1>1, <1>2, <1>3 DEF Fits, Holds
<1>6. \A g \in Helpers \ {h} : seen'[g] = seen[g]
  OBVIOUS
<1> QED
  BY <1>1, <1>4, <1>5, <1>6, LockFrame

(* A helper that ends, or crashes, holds nothing any more.                 *)
LEMMA DeadLock ==
  ASSUME TypeInv, LockInv, NEW h \in Helpers, Alive(h), life' = [life EXCEPT ![h] = "dead"],
         Forgets(h), UNCHANGED <<file, raced>>
  PROVE  LockInv'
<1>0. /\ HelperTypes /\ DirTypes /\ ControlInv /\ AsleepInv /\ FileInv /\ StaleInv
      /\ HolderRecorded /\ h \in Processes
  BY DEF TypeInv, LockInv, Processes
<1>1. /\ hpc'[h] = "end" /\ purpose'[h] = "lock" /\ life'[h] = "dead"
      /\ \A g \in Helpers \ {h} :
           hpc'[g] = hpc[g] /\ purpose'[g] = purpose[g] /\ seen'[g] = seen[g]
      /\ \A p \in Processes \ {h} : life'[p] = life[p]
  BY <1>0 DEF HelperTypes, DirTypes, Forgets
<1>2. ControlInv' /\ AsleepInv'
  BY <1>0, <1>1 DEF ControlInv, AsleepInv, Fits, Alive, Processes
<1>3. FileInv'
  BY <1>0, <1>1 DEF FileInv, DirTypes, Pids
<1>4. StaleInv'
  BY <1>0, <1>1 DEF StaleInv, Stale
<1>5. HolderRecorded'
  <2>1. ASSUME NEW g \in Helpers, Holds(g)' PROVE Holds(g)
    BY <1>1, <2>1 DEF Holds, Alive, Processes
  <2> QED
    BY <1>0, <2>1 DEF HolderRecorded
<1> QED
  BY <1>2, <1>3, <1>4, <1>5 DEF LockInv

LEMMA HelperLockStep ==
  ASSUME TypeInv, LockInv, NEW h \in Helpers, AnyHelperStep(h)
  PROVE  LockInv'
<1>0. /\ HelperTypes /\ DirTypes /\ ControlInv /\ AsleepInv /\ FileInv /\ StaleInv
      /\ HolderRecorded
      /\ Fits(hpc[h], purpose[h]) /\ Stale(hpc[h], purpose[h], seen[h], h)
      /\ Helpers \cap Servers = {} /\ NoPid \notin Helpers /\ h \in Processes
  BY SessionAssumption DEF TypeInv, LockInv, ControlInv, StaleInv, Processes
<1>1. CASE InstallLock(h)
  <2>1. /\ Alive(h) /\ hpc[h] = "install"
        /\ UNCHANGED <<life, seen, raced>>
    BY <1>1 DEF InstallLock, history
  <2>2. CASE NotLocked
    <3>1. /\ file' = [file EXCEPT !["lock"] = h] /\ hpc' = [hpc EXCEPT ![h] = "query"]
          /\ UNCHANGED purpose
      BY <1>1, <2>2 DEF InstallLock
    <3>2. ControlInv' /\ AsleepInv'
      BY <1>0, <2>1, <3>1 DEF ControlInv, AsleepInv, Alive, Fits, HelperTypes
    <3>3. FileInv'
      BY <1>0, <2>1, <3>1 DEF FileInv, DirTypes, Alive
    <3>4. StaleInv'
      BY <1>0, <2>1, <3>1 DEF StaleInv, Stale, HelperTypes
    <3>5. HolderRecorded'
      <4> SUFFICES ASSUME ~raced', NEW g \in Helpers, Holds(g)' PROVE file'["lock"] = g
        BY DEF HolderRecorded
      <4>1. file'["lock"] = h
        BY <1>0, <3>1 DEF DirTypes
      <4>2. ASSUME g # h PROVE FALSE
        <5>1. Holds(g)
          BY <1>0, <2>1, <3>1, <4>2 DEF Holds, Alive, HelperTypes
        <5> QED
          BY <1>0, <2>1, <2>2, <5>1 DEF HolderRecorded, NotLocked
      <4> QED
        BY <4>1, <4>2
    <3> QED
      BY <3>2, <3>3, <3>4, <3>5 DEF LockInv
  <2>3. CASE ~NotLocked
    <3>1. /\ hpc' = [hpc EXCEPT ![h] = "judge"] /\ purpose' = [purpose EXCEPT ![h] = "lock"]
          /\ UNCHANGED file
      BY <1>1, <2>3 DEF InstallLock
    <3>2. /\ hpc'[h] = "judge" /\ purpose'[h] = "lock"
          /\ \A g \in Helpers \ {h} :
               hpc'[g] = hpc[g] /\ purpose'[g] = purpose[g] /\ seen'[g] = seen[g]
      BY <1>0, <2>1, <3>1 DEF HelperTypes
    <3>3. Fits(hpc'[h], purpose'[h]) /\ Stale(hpc'[h], purpose'[h], seen'[h], h)
      BY <3>2 DEF Fits, Stale
    <3> QED
      BY <2>1, <3>1, <3>2, <3>3, LockFrame
  <2> QED
    BY <2>2, <2>3
<1>2. CASE JudgeRecord(h)
  <2>1. PICK owner \in Ownership(Record(h)) :
          LET stale == owner = "gone" /\ Record(h) # NoPid IN
          /\ hpc' = [hpc EXCEPT ![h] = IF stale THEN "recheck" ELSE Holder(h, owner)]
          /\ seen' = [seen EXCEPT ![h] = IF stale THEN Record(h) ELSE NoPid]
    BY <1>2 DEF JudgeRecord
  <2>2. /\ Alive(h) /\ hpc[h] = "judge" /\ UNCHANGED <<purpose, life, file, raced>>
    BY <1>2 DEF JudgeRecord, dirVars, history
  <2>3. purpose[h] \in {"lock", "owner", "old", "gcLock", "gcPid"}
    BY <1>0, <2>2 DEF Fits
  <2>4. \A g \in Helpers \ {h} :
          hpc'[g] = hpc[g] /\ purpose'[g] = purpose[g] /\ seen'[g] = seen[g]
    BY <1>0, <2>1, <2>2 DEF HelperTypes
  <2>5. CASE owner = "gone" /\ Record(h) # NoPid
    <3>1. hpc'[h] = "recheck" /\ seen'[h] = Record(h)
      BY <1>0, <2>1, <2>5 DEF HelperTypes
    <3>2. Record(h) \in Processes /\ life[Record(h)] # "none"
      BY <1>0, <2>5 DEF FileInv, DirTypes, Record, RecordFile, Pids
    <3>3. life[Record(h)] \in {"dead", "reused"}
      BY <1>0, <2>1, <2>5, <3>2 DEF Ownership, DirTypes
    <3>4. Fits(hpc'[h], purpose'[h]) /\ Stale(hpc'[h], purpose'[h], seen'[h], h)
      BY <2>2, <2>3, <3>1, <3>2, <3>3 DEF Fits, Stale
    <3>5. purpose'[h] \notin {"gcLock", "gcPid", "gcSocket"} /\ purpose'[h] # "lock" => Holds(h)
      BY <2>2, <2>3 DEF Holds
    <3> QED
      BY <2>2, <2>4, <3>1, <3>4, <3>5, LockFrame
  <2>6. CASE ~(owner = "gone" /\ Record(h) # NoPid)
    <3>1. hpc'[h] = Holder(h, owner)
      BY <1>0, <2>1, <2>6 DEF HelperTypes
    <3>2. /\ Fits(Holder(h, owner), purpose[h])
          /\ Holder(h, owner) \notin {"judge", "recheck", "unlink"}
          /\ purpose[h] = "lock" => Holder(h, owner) = "install"
      BY <1>0, <2>3 DEF Holder, Fits
    <3>3. Stale(hpc'[h], purpose'[h], seen'[h], h)
      BY <3>1, <3>2 DEF Stale
    <3>4. hpc'[h] \notin {"install", "end"} /\ purpose'[h] \notin {"gcLock", "gcPid", "gcSocket"}
          => Holds(h)
      BY <2>2, <2>3, <3>1, <3>2 DEF Holds
    <3> QED
      BY <2>2, <2>4, <3>1, <3>2, <3>3, <3>4, LockFrame
  <2> QED
    BY <2>5, <2>6
<1>3. CASE Recheck(h)
  <2>1. /\ Alive(h) /\ hpc[h] = "recheck" /\ UNCHANGED <<purpose, life, file, raced>>
        /\ purpose[h] # "gcSocket"
    BY <1>0, <1>3 DEF Recheck, dirVars, history, Fits
  <2>2. CASE Record(h) = seen[h]
    <3>1. hpc' = [hpc EXCEPT ![h] = "unlink"] /\ UNCHANGED seen
      BY <1>3, <2>2 DEF Recheck
    <3>2. /\ hpc'[h] = "unlink"
          /\ \A g \in Helpers \ {h} :
               hpc'[g] = hpc[g] /\ purpose'[g] = purpose[g] /\ seen'[g] = seen[g]
      BY <1>0, <2>1, <3>1 DEF HelperTypes
    <3>3. Fits(hpc'[h], purpose'[h]) /\ Stale(hpc'[h], purpose'[h], seen'[h], h)
      BY <1>0, <2>1, <3>1, <3>2 DEF Fits, Stale
    <3>4. purpose'[h] \notin {"gcLock", "gcPid", "gcSocket"} /\ purpose'[h] # "lock" => Holds(h)
      BY <2>1 DEF Holds
    <3> QED
      BY <2>1, <3>2, <3>3, <3>4, LockFrame
  <2>3. CASE Record(h) # seen[h]
    <3> DEFINE p == IF purpose[h] \in {"owner", "old"} THEN "judge" ELSE Holder(h, "gone")
    <3>1. hpc' = [hpc EXCEPT ![h] = p] /\ seen' = [seen EXCEPT ![h] = NoPid]
      BY <1>3, <2>3 DEF Recheck
    <3>2. /\ hpc'[h] = p
          /\ \A g \in Helpers \ {h} :
               hpc'[g] = hpc[g] /\ purpose'[g] = purpose[g] /\ seen'[g] = seen[g]
      BY <1>0, <2>1, <3>1 DEF HelperTypes
    <3>3. /\ Fits(p, purpose[h]) /\ p \notin {"recheck", "unlink"}
          /\ p = "judge" => purpose[h] \in {"owner", "old"}
          /\ purpose[h] = "lock" => p = "install"
      BY <1>0, <2>1 DEF Holder, Fits, HelperTypes, Purposes
    <3>4. Stale(hpc'[h], purpose'[h], seen'[h], h)
      BY <3>2, <3>3 DEF Stale
    <3>5. hpc'[h] \notin {"install", "end"} /\ purpose'[h] \notin {"gcLock", "gcPid", "gcSocket"}
          => Holds(h)
      BY <2>1, <3>2, <3>3 DEF Holds
    <3> QED
      BY <2>1, <3>2, <3>3, <3>4, <3>5, LockFrame
  <2> QED
    BY <2>2, <2>3
<1>4. CASE Unlink(h)
  <2>1. /\ Alive(h) /\ hpc[h] = "unlink" /\ UNCHANGED <<purpose, life>>
        /\ file' = [file EXCEPT ![RecordFile(h)] = NoPid]
        /\ hpc' = [hpc EXCEPT ![h] = Holder(h, "gone")]
        /\ seen' = [seen EXCEPT ![h] = NoPid]
        /\ raced' = (raced \/ Record(h) \notin {seen[h], NoPid})
    BY <1>4 DEF Unlink
  <2>2. /\ hpc'[h] = Holder(h, "gone")
        /\ \A g \in Helpers \ {h} : hpc'[g] = hpc[g] /\ seen'[g] = seen[g]
    BY <1>0, <2>1 DEF HelperTypes
  <2>3. /\ Fits(Holder(h, "gone"), purpose[h])
        /\ Holder(h, "gone") \notin {"judge", "recheck", "unlink"}
        /\ purpose[h] = "lock" => Holder(h, "gone") = "install"
        /\ purpose[h] \in {"unlock", "gcLock", "gcPid"} => Holder(h, "gone") = "end"
    BY <1>0, <2>1 DEF Holder, Fits, HelperTypes, Purposes
  <2>4. ControlInv' /\ AsleepInv'
    BY <1>0, <2>1, <2>2, <2>3 DEF ControlInv, AsleepInv, Alive
  <2>5. FileInv'
    BY <1>0, <2>1 DEF FileInv, DirTypes, RecordFile
  <2>6. StaleInv'
    BY <1>0, <2>1, <2>2, <2>3 DEF StaleInv, Stale
  <2>7. HolderRecorded'
    <3> SUFFICES ASSUME ~raced', NEW g \in Helpers, Holds(g)' PROVE file'["lock"] = g
      BY DEF HolderRecorded
    <3>1. ~raced /\ Record(h) \in {seen[h], NoPid}
      BY <2>1
    <3>2. Holds(g)
      <4>1. CASE g = h
        <5>1. hpc'[h] # "install" /\ hpc'[h] # "end" /\ purpose[h] \notin {"gcLock", "gcPid", "gcSocket"}
          BY <2>1, <4>1 DEF Holds
        <5> QED
          BY <2>1, <2>2, <2>3, <4>1, <5>1 DEF Holds
      <4>2. CASE g # h
        BY <2>1, <2>2, <4>2 DEF Holds, Alive
      <4> QED
        BY <4>1, <4>2
    <3>3. file["lock"] = g
      BY <1>0, <3>1, <3>2 DEF HolderRecorded
    <3>4. CASE RecordFile(h) = "pid"
      BY <1>0, <2>1, <3>3, <3>4 DEF DirTypes
    <3>5. CASE RecordFile(h) = "lock"
      <4>1. g = seen[h] /\ purpose[h] \in {"lock", "unlock", "gcLock"}
        BY <1>0, <3>1, <3>3, <3>5 DEF Record, RecordFile
      <4>2. CASE purpose[h] = "unlock"
        BY <1>0, <2>1, <2>2, <2>3, <4>1, <4>2 DEF Stale, Holds
      <4>3. CASE purpose[h] # "unlock"
        BY <1>0, <2>1, <3>2, <4>1, <4>3 DEF Stale, Holds, Alive
      <4> QED
        BY <4>2, <4>3
    <3> QED
      BY <3>4, <3>5 DEF RecordFile
  <2> QED
    BY <2>4, <2>5, <2>6, <2>7 DEF LockInv
<1>5. CASE Start(h)
  <2>1. /\ life[h] = "none" /\ life' = [life EXCEPT ![h] = "alive"]
        /\ UNCHANGED <<file, seen, raced>>
    BY <1>5 DEF Start, dirVars, history
  <2>2. \/ hpc' = [hpc EXCEPT ![h] = "install"] /\ UNCHANGED purpose
        \/ /\ hpc' = [hpc EXCEPT ![h] = "judge"]
           /\ \E q \in {"gcLock", "gcPid"} : purpose' = [purpose EXCEPT ![h] = q]
        \/ /\ hpc' = [hpc EXCEPT ![h] = "probe"]
           /\ purpose' = [purpose EXCEPT ![h] = "gcSocket"]
    BY <1>5 DEF Start
  <2>3. /\ \/ hpc'[h] = "install" /\ purpose'[h] = purpose[h]
           \/ hpc'[h] = "judge" /\ purpose'[h] \in {"gcLock", "gcPid"}
           \/ hpc'[h] = "probe" /\ purpose'[h] = "gcSocket"
        /\ \A g \in Helpers \ {h} : hpc'[g] = hpc[g] /\ purpose'[g] = purpose[g]
    BY <1>0, <2>2 DEF HelperTypes
  <2>4. purpose[h] = "lock"
    BY <1>0, <2>1 DEF AsleepInv, Alive
  <2>5. \A p \in Processes \ {h} : life'[p] = life[p]
    BY <1>0, <2>1 DEF DirTypes
  <2>6. life'[h] = "alive"
    BY <1>0, <2>1 DEF DirTypes
  <2>7. ControlInv' /\ AsleepInv'
    BY <1>0, <2>3, <2>4, <2>5, <2>6 DEF ControlInv, AsleepInv, Alive, Fits, Processes
  <2>8. FileInv'
    BY <1>0, <2>1, <2>5, <2>6 DEF FileInv, DirTypes, Pids
  <2>9. StaleInv'
    BY <1>0, <2>1, <2>3, <2>5 DEF StaleInv, Stale
  <2>10. HolderRecorded'
    <3>1. ASSUME NEW g \in Helpers, Holds(g)' PROVE Holds(g)
      BY <2>3, <2>4, <2>5, <3>1 DEF Holds, Alive, Processes
    <3> QED
      BY <1>0, <2>1, <3>1 DEF HolderRecorded
  <2> QED
    BY <2>7, <2>8, <2>9, <2>10 DEF LockInv
<1>6. CASE LockTimeout(h)
  <2>1. /\ Alive(h) /\ hpc' = [hpc EXCEPT ![h] = "end"] /\ hpc[h] = "install"
        /\ UNCHANGED <<purpose, file, seen, raced, life>>
    BY <1>6 DEF LockTimeout, dirVars, history
  <2>2. Fits("end", purpose'[h])
    BY <2>1 DEF Fits
  <2> QED
    BY <2>1, <2>2, MoveLock
<1>7. CASE End(h)
  <2>1. /\ Alive(h) /\ life' = [life EXCEPT ![h] = "dead"] /\ Forgets(h)
        /\ UNCHANGED <<file, raced>>
    BY <1>7 DEF End, dirVars, history
  <2> QED
    BY <2>1, DeadLock DEF LockInv
<1>8. CASE HandoffFails(h) \/ ExitTimeout(h) \/ StartTimeout(h) \/ ServerStarted(h)
  <2>1. \E o \in {"kept", "error", "ok"} : Return(h, o) /\ UNCHANGED <<file, life, raced>>
    BY <1>8 DEF HandoffFails, ExitTimeout, StartTimeout, ServerStarted, history
  <2>2. Alive(h) /\ hpc[h] \in {"handoff", "awaitExit", "awaitServer"}
    BY <1>8 DEF HandoffFails, ExitTimeout, StartTimeout, ServerStarted
  <2> QED
    BY <2>1, <2>2, ReturnLock
<1>9. CASE ServerFound(h)
  <2>1. /\ Alive(h) /\ hpc[h] \in {"query", "requery"} /\ UNCHANGED <<file, life, raced>>
    BY <1>9 DEF ServerFound, history
  <2>2. CASE Return(h, "ok")
    BY <2>1, <2>2, ReturnLock
  <2>3. CASE hpc' = [hpc EXCEPT ![h] = "snapshot"] /\ UNCHANGED <<purpose, seen>>
    <3>1. Fits("snapshot", purpose'[h])
      BY <1>0, <2>1, <2>3 DEF Fits
    <3> QED
      BY <2>1, <2>3, <3>1, MoveLock
  <2> QED
    BY <1>9, <2>2, <2>3 DEF ServerFound
<1>10. CASE ServerSilent(h)
  <2>1. /\ Alive(h) /\ hpc[h] \in {"query", "requery"} /\ UNCHANGED <<file, life, raced>>
    BY <1>10 DEF ServerSilent, history
  <2>2. CASE Return(h, "error")
    BY <2>1, <2>2, ReturnLock
  <2>3. CASE /\ hpc[h] = "query" /\ hpc' = [hpc EXCEPT ![h] = "judge"]
             /\ purpose' = [purpose EXCEPT ![h] = "owner"] /\ UNCHANGED seen
    <3>1. purpose'[h] = "owner" /\ Fits("judge", purpose'[h])
      BY <1>0, <2>3 DEF Fits, HelperTypes
    <3> QED
      BY <2>1, <2>3, <3>1, MoveLock
  <2> QED
    BY <1>10, <2>2, <2>3 DEF ServerSilent
<1>11. CASE Snapshot(h)
  <2>1. /\ Alive(h) /\ hpc[h] = "snapshot" /\ UNCHANGED <<file, life, raced>>
    BY <1>11 DEF Snapshot, history
  <2>2. CASE Return(h, "kept")
    BY <2>1, <2>2, ReturnLock
  <2>3. CASE /\ hpc' = [hpc EXCEPT ![h] = "judge"]
             /\ purpose' = [purpose EXCEPT ![h] = "old"] /\ UNCHANGED seen
    <3>1. purpose'[h] = "old" /\ Fits("judge", purpose'[h])
      BY <1>0, <2>3 DEF Fits, HelperTypes
    <3> QED
      BY <2>1, <2>3, <3>1, MoveLock
  <2> QED
    BY <1>11, <2>2, <2>3 DEF Snapshot
<1>12. CASE HandoffWindow(h)
  <2>1. /\ Alive(h) /\ hpc[h] = "handoff" /\ UNCHANGED <<file, life, raced, purpose, seen>>
        /\ hpc' = [hpc EXCEPT ![h] = "final"] \/ hpc' = [hpc EXCEPT ![h] = "handoff"]
    BY <1>0, <1>12 DEF HandoffWindow, dirVars, history, HelperTypes
  <2>2. Fits("final", purpose'[h]) /\ Fits("handoff", purpose'[h])
    BY <1>0, <2>1 DEF Fits
  <2> QED
    BY <2>1, <2>2, MoveLock
<1>13. CASE RequestShutdown(h) \/ ServerExited(h)
  <2>1. /\ Alive(h) /\ hpc[h] \in {"shutdown", "awaitExit"}
        /\ UNCHANGED <<file, life, raced, purpose, seen>>
        /\ \E p \in {"awaitExit", "final"} : hpc' = [hpc EXCEPT ![h] = p]
    BY <1>13 DEF RequestShutdown, ServerExited, dirVars, history
  <2>2. \A p \in {"awaitExit", "final"} : Fits(p, purpose'[h])
    BY <1>0, <2>1 DEF Fits
  <2> QED
    BY <2>1, <2>2, MoveLock
<1>14. CASE FinalCheck(h)
  <2>1. /\ Alive(h) /\ hpc[h] = "final" /\ UNCHANGED <<file, life, raced>>
    BY <1>14 DEF FinalCheck, history
  <2>2. CASE Return(h, "ok")
    BY <2>1, <2>2, ReturnLock
  <2>3. CASE /\ \E p \in {"spawn", "probe"} : hpc' = [hpc EXCEPT ![h] = p]
             /\ UNCHANGED <<purpose, seen>>
    <3>1. \A p \in {"spawn", "probe"} : Fits(p, purpose'[h])
      BY <1>0, <2>1, <2>3 DEF Fits
    <3> QED
      BY <2>1, <2>3, <3>1, MoveLock
  <2> QED
    BY <1>14, <2>2, <2>3 DEF FinalCheck
<1>15. CASE ProbePath(h) \/ ComparePath(h) \/ UnlinkPath(h)
  <2>1. /\ Alive(h) /\ hpc[h] \in {"probe", "compare", "unlinkPath"}
        /\ UNCHANGED <<file, life, raced, purpose>>
        /\ \E p \in {"end", "spawn", "compare", "unlinkPath"} :
             /\ hpc' = [hpc EXCEPT ![h] = p]
             /\ p = "spawn" => purpose[h] # "gcSocket"
             /\ p = "compare" => purpose[h] = "gcSocket"
        /\ seen' \in {seen, [seen EXCEPT ![h] = path]}
    BY <1>0, <1>15 DEF ProbePath, ComparePath, UnlinkPath, dirVars, history, Fits
  <2>2. \A g \in Helpers \ {h} :
          hpc'[g] = hpc[g] /\ purpose'[g] = purpose[g] /\ seen'[g] = seen[g]
    BY <1>0, <2>1 DEF HelperTypes
  <2>3. /\ hpc'[h] \in {"end", "spawn", "compare", "unlinkPath"}
        /\ hpc'[h] = "spawn" => purpose[h] # "gcSocket"
        /\ hpc'[h] = "compare" => purpose[h] = "gcSocket"
    BY <1>0, <2>1 DEF HelperTypes
  <2>4. Fits(hpc'[h], purpose'[h]) /\ Stale(hpc'[h], purpose'[h], seen'[h], h)
    BY <1>0, <2>1, <2>3 DEF Fits, Stale
  <2>5. hpc'[h] # "end" /\ purpose'[h] \notin {"gcLock", "gcPid", "gcSocket"} => Holds(h)
    BY <2>1 DEF Holds
  <2> QED
    BY <2>1, <2>2, <2>4, <2>5, LockFrame
<1>16. CASE Spawn(h)
  <2>1. /\ Alive(h) /\ hpc[h] = "spawn" /\ UNCHANGED <<file, raced>>
    BY <1>16 DEF Spawn, history
  <2>2. CASE Return(h, "error") /\ UNCHANGED life
    BY <2>1, <2>2, ReturnLock
  <2>3. CASE /\ \E s \in Servers : life[s] = "none" /\ life' = [life EXCEPT ![s] = "alive"]
             /\ hpc' = [hpc EXCEPT ![h] = "awaitServer"] /\ UNCHANGED <<purpose, seen>>
    <3>1. Fits("awaitServer", purpose'[h])
      BY <1>0, <2>1, <2>3 DEF Fits
    <3> QED
      BY <2>1, <2>3, <3>1, MoveLock
  <2> QED
    BY <1>16, <2>2, <2>3 DEF Spawn, FreshPid
<1> QED
  BY <1>1, <1>2, <1>3, <1>4, <1>5, <1>6, <1>7, <1>8, <1>9, <1>10, <1>11, <1>12, <1>13, <1>14,
     <1>15, <1>16 DEF AnyHelperStep, HelperStep

(* Nothing that a server does touches the lock or brings a process back.   *)
LEMMA OtherLockStep ==
  ASSUME TypeInv, LockInv,
         \/ \E s \in Servers : ServerStep(s) \/ Republish(s)
         \/ \E w \in NativeWindows : NativeEnds(w)
         \/ \E p \in Processes : Crash(p) \/ Reuse(p)
  PROVE  LockInv'
<1>0. /\ HelperTypes /\ DirTypes /\ ControlInv /\ AsleepInv /\ FileInv /\ StaleInv
      /\ HolderRecorded /\ Helpers \cap Servers = {}
  BY SessionAssumption DEF TypeInv, LockInv
<1>1. ASSUME UNCHANGED <<helperVars, raced>>, file'["lock"] = file["lock"],
             file'["pid"] = file["pid"] \/ file'["pid"] = NoPid
               \/ \E s \in Servers : file'["pid"] = s /\ Alive(s),
             \A p \in Processes :
               \/ life'[p] = life[p]
               \/ life[p] \in {"alive", "dead"} /\ p \in Servers /\ life'[p] \in {"dead", "reused"}
               \/ life[p] = "dead" /\ life'[p] = "reused"
      PROVE  LockInv'
  <2>1. \A g \in Helpers : Alive(g)' = Alive(g)
    BY <1>0, <1>1 DEF Alive, Processes
  <2>2. ControlInv' /\ AsleepInv'
    BY <1>0, <1>1, <2>1 DEF ControlInv, AsleepInv, helperVars
  <2>3. FileInv'
    BY <1>0, <1>1 DEF FileInv, Alive, DirTypes, Pids, Processes
  <2>4. StaleInv'
    BY <1>0, <1>1 DEF StaleInv, Stale, helperVars
  <2>5. HolderRecorded'
    BY <1>0, <1>1, <2>1 DEF HolderRecorded, Holds, helperVars
  <2> QED
    BY <2>2, <2>3, <2>4, <2>5 DEF LockInv
<1>2. ASSUME NEW s \in Servers, ServerStep(s) \/ Republish(s) PROVE LockInv'
  <2>1. UNCHANGED <<helperVars, raced>> /\ Alive(s)
    BY <1>2 DEF ServerStep, Republish, ReadRestore, AskOther, ClearName, Listen, RecordPid,
         RestoreWindows, RestoreFails, CloseServer, CheckPath, UnlinkOwnPath, JoinAndForget,
         UnlinkPid, NoticeMissing, Rebind, InstallListener, UndoRebind, history
  <2>2. file' \in {file, [file EXCEPT !["pid"] = s], [file EXCEPT !["pid"] = NoPid]}
    BY <1>2 DEF ServerStep, Republish, ReadRestore, AskOther, ClearName, Listen, RecordPid,
         RestoreWindows, RestoreFails, CloseServer, CheckPath, UnlinkOwnPath, JoinAndForget,
         UnlinkPid, NoticeMissing, Rebind, InstallListener, UndoRebind, dirVars
  <2>3. life' \in {life, [life EXCEPT ![s] = "dead"]}
    BY <1>2 DEF ServerStep, Republish, ReadRestore, AskOther, ClearName, Listen, RecordPid,
         RestoreWindows, RestoreFails, CloseServer, CheckPath, UnlinkOwnPath, JoinAndForget,
         UnlinkPid, NoticeMissing, Rebind, InstallListener, UndoRebind, Exit, Stays
  <2> QED
    BY <1>0, <1>1, <1>2, <2>1, <2>2, <2>3 DEF DirTypes, Alive
<1>3. ASSUME NEW w \in NativeWindows, NativeEnds(w) PROVE LockInv'
  BY <1>1, <1>3 DEF NativeEnds, dirVars
<1>4. ASSUME NEW p \in Processes, Crash(p) PROVE LockInv'
  <2>1. Alive(p) /\ UNCHANGED <<file, raced>>
    BY <1>4 DEF Crash, dirVars, history
  <2>2. CASE p \in Servers
    <3>1. UNCHANGED helperVars /\ life' = [life EXCEPT ![p] = "dead"]
      BY <1>4, <2>2 DEF Crash, Exit
    <3> QED
      BY <1>0, <1>1, <2>1, <2>2, <3>1 DEF DirTypes, Alive
  <2>3. CASE p \notin Servers
    <3>1. p \in Helpers /\ Forgets(p) /\ life' = [life EXCEPT ![p] = "dead"]
      BY <1>4, <2>3 DEF Crash, Processes
    <3> QED
      BY <2>1, <3>1, DeadLock
  <2> QED
    BY <2>2, <2>3
<1>5. ASSUME NEW p \in Processes, Reuse(p) PROVE LockInv'
  <2>1. /\ life[p] = "dead" /\ life' = [life EXCEPT ![p] = "reused"]
        /\ UNCHANGED <<helperVars, raced, file>>
    BY <1>5 DEF Reuse, dirVars, history
  <2> QED
    BY <1>0, <1>1, <2>1 DEF DirTypes
<1> QED
  BY <1>2, <1>3, <1>4, <1>5

(***************************************************************************)
(* Theorems                                                                *)
(***************************************************************************)
LEMMA SessionStep == TypeInv /\ LockInv /\ [Next]_vars => TypeInv' /\ LockInv'
<1> SUFFICES ASSUME TypeInv, LockInv, [Next]_vars PROVE TypeInv' /\ LockInv'
  OBVIOUS
<1>1. ASSUME NEW h \in Helpers, AnyHelperStep(h) PROVE TypeInv' /\ LockInv'
  BY <1>1, HelperTypesStep, DirTypesStep, ServerTypesStep, HelperLockStep DEF TypeInv, LockInv
<1>2. ASSUME NEW s \in Servers, ServerStep(s) \/ Republish(s) PROVE TypeInv' /\ LockInv'
  BY <1>2, ServerStepTypes, OtherLockStep
<1>3. CASE (\E w \in NativeWindows : NativeEnds(w)) \/ (\E p \in Processes : Crash(p) \/ Reuse(p))
  BY <1>3, FaultTypes, OtherLockStep
<1>4. CASE UNCHANGED vars
  <2>1. TypeInv'
    BY <1>4 DEF TypeInv, DirTypes, HelperTypes, ServerTypes, ServerParts, Alive, vars, dirVars,
       helperVars, bootVars, serverVars, faultVars
  <2>2. LockInv'
    BY <1>4 DEF LockInv, ControlInv, AsleepInv, FileInv, StaleInv, Stale, HolderRecorded,
       Holds, Alive, vars, dirVars, helperVars, history
  <2> QED
    BY <2>1, <2>2
<1> QED
  BY <1>1, <1>2, <1>3, <1>4 DEF Next, AnyHelperStep

LEMMA SessionInductive == Spec => [](TypeInv /\ LockInv)
BY InitTypes, InitLock, SessionStep, PTL DEF Spec

(* Every reachable state is one that the types of the directory, the       *)
(* helpers and the servers admit; in particular a server that runs no      *)
(* longer listens on nothing, and one that is closing hosts no windows.    *)
THEOREM SessionTypesCorrect == Spec => []SessionTypes
<1>1. TypeInv => SessionTypes
  BY DEF TypeInv, DirTypes, HelperTypes, ServerTypes, ServerParts, SessionTypes, Pids,
     PlanTypes, AllWindows
<1> QED
  BY <1>1, SessionInductive, PTL

(* acquireSessionLock, clearStalePIDFile, removePIDFileIfUnchanged: however *)
(* many helpers attach, crash and have their pids reused, at most one of    *)
(* them is inside the session, unless a lock was removed in the moment      *)
(* between its comparison and os.Remove.                                    *)
THEOREM LockIsExclusive == Spec => []LockExclusion
<1>1. LockInv => LockExclusion
  BY DEF LockInv, HolderRecorded, LockExclusion
<1> QED
  BY <1>1, SessionInductive, PTL

(***************************************************************************)
(* One server, and every window                                            *)
(*                                                                         *)
(* The argument is about the servers of the helpers' version that start or *)
(* serve.  A helper starts one only after it has seen that there is none:  *)
(* by the pid file, or because a server of another version answered, whose *)
(* windows it took over.  The first rests on the pid file, the second on   *)
(* the name: as long as the outgoing server serves its windows, its        *)
(* successor keeps the name, and nobody is about to remove it.             *)
(***************************************************************************)
Starting == {"boot", "ask", "clear", "listen", "record", "restore"}

Active(s) == Alive(s) /\ version[s] = "current" /\ at[s] \in Starting \cup {"serving"}

Outlived(o) == version[o] = "older" /\ at[o] = "serving" /\ hosted[o] # {}

Waiting(h)  == Alive(h) /\ hpc[h] = "awaitServer"
Updating(h) == Alive(h) /\ purpose[h] = "old"

Calm    == ~mishap /\ ~raced
Tracked == /\ Calm /\ displaced # {"path", "pid"}
           /\ "pid" \in displaced => disturbances <= 1

\* Which way a helper is going, and what it knows on it.
Routed(point, reason) ==
  /\ reason = "old" => point \in {"judge", "recheck", "unlink", "handoff", "shutdown",
                                  "awaitExit", "final", "probe", "unlinkPath", "spawn",
                                  "awaitServer"}
  /\ reason = "owner" => point \in {"judge", "recheck", "unlink", "requery", "snapshot",
                                    "final", "probe", "unlinkPath", "spawn", "awaitServer"}
  /\ point \in {"final", "spawn", "awaitServer"} => reason \in {"owner", "old"}
  /\ point \in {"probe", "unlinkPath"} => reason \in {"owner", "old", "gcSocket"}
  /\ point \in {"handoff", "shutdown", "awaitExit"} => reason = "old"
  /\ point = "query" => reason = "lock"
  /\ point = "requery" => reason = "owner"
  /\ point = "snapshot" => reason \in {"lock", "owner"}

Planned(point, reason, p) ==
  /\ reason \notin {"old", "unlock"} => p = NoPlan
  /\ reason = "old" => p.windows # {}
  /\ p.keepOldProcess => p.legacyHandoff
  /\ point = "handoff" => p.keepOldProcess

Replaced(s) ==
  /\ s = Outgoing /\ life[s] # "none"
  /\ version[s] = "older" \/ ~Alive(s)

Spawning(s) == s \in Servers /\ life[s] # "none"

RouteInv == \A h \in Helpers :
  /\ Routed(hpc[h], purpose[h])
  /\ Planned(hpc[h], purpose[h], plan[h])
  /\ purpose[h] = "old" \/ hpc[h] = "snapshot" => Replaced(target[h])
  /\ hpc[h] = "awaitServer" => Spawning(spawned[h])

\* A server's version, name and windows by where it stands.
PartInv == ended \subseteq NativeWindows /\ \A s \in Servers :
  /\ version[s] = "older" =>
       s = Outgoing /\ at[s] \in {"serving", "checkPath", "unlinkPath", "join", "unlinkPid"}
  /\ at[s] \in Starting => rpc[s] = "idle"
  /\ at[s] \notin Starting => restore[s] = {}
  /\ at[s] = "gone" => version[s] = "current" /\ rpc[s] = "idle" /\ ~told[s]
  /\ hosted[s] \cap ended = {}

\* Whose inodes are whose.
NameInv == \A s \in Servers :
  /\ 0 \notin open[s]
  /\ \A q \in Servers : q # s => open[s] \cap open[q] = {}
  /\ at[s] \in {"boot", "ask", "clear", "listen"} => open[s] = {}
  /\ at[s] \in {"record", "restore", "serving"} => identity[s] \in open[s]
  /\ at[s] = "serving" => rpc[s] # "undo"
  /\ rpc[s] = "bound" => rebound[s] \in open[s] /\ rebound[s] # identity[s]
  /\ at[s] = "serving" /\ rpc[s] \in {"missing", "bound"} => path # identity[s]

\* A server is in the pid file from the moment it writes it.
PidInv == \A s \in Servers : at[s] \in Starting \ {"restore"} => file["pid"] # s

(***************************************************************************)
(* The helpers' ways                                                       *)
(***************************************************************************)
LEMMA InitRoute == Init => RouteInv
<1> SUFFICES ASSUME Init, NEW h \in Helpers
             PROVE  /\ Routed(hpc[h], purpose[h]) /\ Planned(hpc[h], purpose[h], plan[h])
                    /\ (purpose[h] = "old" \/ hpc[h] = "snapshot" => Replaced(target[h]))
                    /\ (hpc[h] = "awaitServer" => Spawning(spawned[h]))
  BY DEF RouteInv
<1>1. hpc[h] = "end" /\ purpose[h] = "lock" /\ plan[h] = NoPlan
  BY DEF Init
<1>2. ~NoPlan.keepOldProcess
  BY DEF NoPlan
<1> HIDE DEF NoPlan
<1> QED
  BY <1>1, <1>2 DEF Routed, Planned

\* What helper h is up to after a step that leaves the others alone.
OnlyMoves(h) == \A g \in Helpers \ {h} :
  /\ hpc'[g] = hpc[g] /\ purpose'[g] = purpose[g] /\ plan'[g] = plan[g]
  /\ target'[g] = target[g] /\ spawned'[g] = spawned[g]

\* No version changes, and who has been started has been.
NobodyEnds == UNCHANGED version /\ \A s \in Servers : life[s] # "none" => life'[s] = life[s]

LEMMA RouteFrame ==
  ASSUME TypeInv, RouteInv, NEW h \in Helpers, OnlyMoves(h), NobodyEnds,
         Routed(hpc'[h], purpose'[h]), Planned(hpc'[h], purpose'[h], plan'[h]),
         purpose'[h] = "old" \/ hpc'[h] = "snapshot" => Replaced(target'[h]),
         hpc'[h] = "awaitServer" => spawned'[h] \in Servers /\ life'[spawned'[h]] # "none"
  PROVE  RouteInv'
<1>1. \A s : Replaced(s) => Replaced(s)'
  BY SessionAssumption DEF Replaced, NobodyEnds, Alive
<1>2. \A s : Spawning(s) => Spawning(s)'
  BY DEF Spawning, NobodyEnds
<1>4. ASSUME NEW g \in Helpers, g # h
      PROVE  /\ Routed(hpc[g], purpose[g])' /\ Planned(hpc[g], purpose[g], plan[g])'
             /\ (purpose[g] = "old" \/ hpc[g] = "snapshot" => Replaced(target[g]))'
             /\ (hpc[g] = "awaitServer" => Spawning(spawned[g]))'
  BY <1>1, <1>2, <1>4 DEF OnlyMoves, RouteInv, Routed, Planned
<1>5. /\ Routed(hpc[h], purpose[h])' /\ Planned(hpc[h], purpose[h], plan[h])'
      /\ (purpose[h] = "old" \/ hpc[h] = "snapshot" => Replaced(target[h]))'
      /\ (hpc[h] = "awaitServer" => Spawning(spawned[h]))'
  BY <1>1 DEF Routed, Planned, Spawning
<1> QED
  BY <1>4, <1>5 DEF RouteInv

LEMMA RouteReturn ==
  ASSUME TypeInv, RouteInv, NEW h \in Helpers, NEW o, Return(h, o), NobodyEnds,
         UNCHANGED <<plan, target, spawned>>
  PROVE  RouteInv'
<1>1. hpc'[h] = "recheck" /\ purpose'[h] = "unlock" /\ plan'[h] = plan[h] /\ OnlyMoves(h)
  BY DEF Return, OnlyMoves, TypeInv, HelperTypes
<1>2. Planned(hpc[h], purpose[h], plan[h])
  BY DEF RouteInv
<1>3. Routed(hpc'[h], purpose'[h]) /\ Planned(hpc'[h], purpose'[h], plan'[h])
  BY <1>1, <1>2 DEF Routed, Planned
<1> QED
  BY <1>1, <1>3, RouteFrame

LEMMA RouteMove ==
  ASSUME TypeInv, RouteInv, NEW h \in Helpers, NEW p, hpc' = [hpc EXCEPT ![h] = p],
         NobodyEnds, UNCHANGED <<purpose, plan, target, spawned>>,
         Routed(p, purpose[h]), p \notin {"snapshot", "awaitServer"},
         p = "handoff" => plan[h].keepOldProcess
  PROVE  RouteInv'
<1>1. hpc'[h] = p /\ purpose'[h] = purpose[h] /\ plan'[h] = plan[h] /\ target'[h] = target[h]
      /\ OnlyMoves(h)
  BY DEF OnlyMoves, TypeInv, HelperTypes
<1>2. /\ Planned(hpc[h], purpose[h], plan[h])
      /\ purpose[h] = "old" => Replaced(target[h])
  BY DEF RouteInv
<1>3. Routed(hpc'[h], purpose'[h]) /\ Planned(hpc'[h], purpose'[h], plan'[h])
  BY <1>1, <1>2 DEF Planned
<1> QED
  BY <1>1, <1>2, <1>3, RouteFrame

LEMMA RouteForgets ==
  ASSUME TypeInv, RouteInv, NEW h \in Helpers, Forgets(h), NobodyEnds
  PROVE  RouteInv'
<1>1. hpc'[h] = "end" /\ purpose'[h] = "lock" /\ plan'[h] = NoPlan /\ OnlyMoves(h)
  BY DEF OnlyMoves, TypeInv, HelperTypes, Forgets
<1>2. ~NoPlan.keepOldProcess
  BY DEF NoPlan
<1>3. Routed(hpc'[h], purpose'[h]) /\ Planned(hpc'[h], purpose'[h], plan'[h])
  BY <1>1, <1>2 DEF Routed, Planned
<1> QED
  BY <1>1, <1>3, RouteFrame

(* No step of a helper ends a server or changes its version.               *)
LEMMA HelpersEndNobody ==
  ASSUME TypeInv, NEW h \in Helpers, AnyHelperStep(h)
  PROVE  NobodyEnds
<1>0. life \in [Processes -> {"none", "alive", "dead", "reused"}] /\ Helpers \cap Servers = {}
  BY SessionAssumption DEF TypeInv, DirTypes
<1>1. UNCHANGED version
  BY DEF AnyHelperStep, HelperStep, InstallLock, JudgeRecord, Recheck, Unlink, Start,
         LockTimeout, ServerFound, ServerSilent, Snapshot, HandoffWindow, HandoffFails,
         RequestShutdown, ServerExited, ExitTimeout, FinalCheck, ProbePath, ComparePath,
         UnlinkPath, Spawn, ServerStarted, StartTimeout, End, bootVars
<1>2. \/ life' = life \/ \E l : life' = [life EXCEPT ![h] = l]
      \/ \E s \in Servers : life[s] = "none" /\ life' = [life EXCEPT ![s] = "alive"]
  <2>1. CASE Spawn(h)
    BY <2>1 DEF Spawn, FreshPid
  <2>2. CASE ~Spawn(h)
    BY <2>2 DEF AnyHelperStep, HelperStep, InstallLock, JudgeRecord, Recheck, Unlink, Start,
         LockTimeout, ServerFound, ServerSilent, Snapshot, HandoffWindow, HandoffFails,
         RequestShutdown, ServerExited, ExitTimeout, FinalCheck, ProbePath, ComparePath,
         UnlinkPath, ServerStarted, StartTimeout, End
  <2> QED
    BY <2>1, <2>2
<1> QED
  BY <1>0, <1>1, <1>2 DEF NobodyEnds, Processes

LEMMA RouteStep ==
  ASSUME TypeInv, LockInv, RouteInv, PartInv, NEW h \in Helpers, AnyHelperStep(h)
  PROVE  RouteInv'
<1>0. /\ HelperTypes /\ AsleepInv /\ NobodyEnds /\ Fits(hpc[h], purpose[h])
      /\ Routed(hpc[h], purpose[h]) /\ Planned(hpc[h], purpose[h], plan[h])
      /\ purpose[h] = "old" \/ hpc[h] = "snapshot" => Replaced(target[h])
  BY HelpersEndNobody DEF TypeInv, LockInv, ControlInv, RouteInv
<1>1. CASE InstallLock(h)
  <2>1. /\ hpc' = [hpc EXCEPT ![h] = "query"] \/ hpc' = [hpc EXCEPT ![h] = "judge"]
        /\ purpose' = purpose \/ purpose' = [purpose EXCEPT ![h] = "lock"]
        /\ UNCHANGED <<plan, target, spawned>> /\ hpc[h] = "install"
    BY <1>1 DEF InstallLock
  <2>2. hpc'[h] \in {"query", "judge"} /\ purpose'[h] = "lock" /\ plan'[h] = plan[h] /\ OnlyMoves(h)
    BY <1>0, <2>1 DEF OnlyMoves, HelperTypes, Fits
  <2>3. purpose[h] = "lock"
    BY <1>0, <2>1 DEF Fits
  <2>4. Routed(hpc'[h], purpose'[h]) /\ Planned(hpc'[h], purpose'[h], plan'[h])
    BY <1>0, <2>2, <2>3 DEF Routed, Planned
  <2> QED
    BY <1>0, <2>2, <2>4, RouteFrame
<1>2. CASE JudgeRecord(h)
  <2>1. PICK owner \in Ownership(Record(h)) :
          LET stale == owner = "gone" /\ Record(h) # NoPid IN
          /\ hpc' = [hpc EXCEPT ![h] = IF stale THEN "recheck" ELSE Holder(h, owner)]
          /\ plan' = IF purpose[h] = "old" /\ owner # "gone" THEN [plan EXCEPT ![h].old = Record(h)]
                     ELSE plan
    BY <1>2 DEF JudgeRecord
  <2>2. hpc[h] = "judge" /\ UNCHANGED <<purpose, target, spawned>>
    BY <1>2 DEF JudgeRecord
  <2>3. /\ hpc'[h] \in {"recheck", Holder(h, owner)} /\ purpose'[h] = purpose[h]
        /\ target'[h] = target[h] /\ OnlyMoves(h)
    BY <1>0, <2>1, <2>2 DEF OnlyMoves, HelperTypes
  <2>4. /\ plan'[h].windows = plan[h].windows /\ plan'[h].keepOldProcess = plan[h].keepOldProcess
        /\ plan'[h].legacyHandoff = plan[h].legacyHandoff
        /\ purpose[h] # "old" => plan'[h] = plan[h]
    BY <1>0, <2>1 DEF HelperTypes, PlanTypes
  <2>5. /\ Routed(Holder(h, owner), purpose[h]) /\ Routed("recheck", purpose[h])
        /\ Holder(h, owner) \notin {"snapshot", "awaitServer"}
        /\ Holder(h, owner) = "handoff" => plan[h].keepOldProcess
    BY <1>0, <2>2 DEF Routed, Fits, Holder, HelperTypes, Purposes
  <2>6. Planned(hpc'[h], purpose'[h], plan'[h])
    BY <1>0, <2>3, <2>4, <2>5 DEF Planned
  <2>7. Routed(hpc'[h], purpose'[h])
    BY <2>3, <2>5
  <2>8. hpc'[h] \notin {"snapshot", "awaitServer"}
    BY <2>3, <2>5
  <2> QED
    BY <1>0, <2>3, <2>6, <2>7, <2>8, RouteFrame
<1>3. CASE Recheck(h) \/ Unlink(h)
  <2>1. /\ hpc[h] \in {"recheck", "unlink"} /\ UNCHANGED <<purpose, plan, target, spawned>>
        /\ \/ \E p \in {"unlink", Holder(h, "gone")} : hpc' = [hpc EXCEPT ![h] = p]
           \/ hpc' = [hpc EXCEPT ![h] = "judge"] /\ purpose[h] \in {"owner", "old"}
    BY <1>3 DEF Recheck, Unlink, helperVars
  <2>2. /\ Routed(Holder(h, "gone"), purpose[h]) /\ Routed("unlink", purpose[h])
        /\ purpose[h] \in {"owner", "old"} => Routed("judge", purpose[h])
        /\ Holder(h, "gone") \notin {"snapshot", "awaitServer"}
        /\ Holder(h, "gone") = "handoff" => plan[h].keepOldProcess
    BY <1>0, <2>1 DEF Routed, Fits, Holder, HelperTypes, Purposes
  <2>3. CASE hpc' = [hpc EXCEPT ![h] = "judge"] /\ purpose[h] \in {"owner", "old"}
    BY <1>0, <2>1, <2>2, <2>3, RouteMove
  <2>4. CASE \E p \in {"unlink", Holder(h, "gone")} : hpc' = [hpc EXCEPT ![h] = p]
    <3>1. PICK p \in {"unlink", Holder(h, "gone")} : hpc' = [hpc EXCEPT ![h] = p]
      BY <2>4
    <3>2. /\ Routed(p, purpose[h]) /\ p \notin {"snapshot", "awaitServer"}
          /\ p = "handoff" => plan[h].keepOldProcess
      BY <2>2, <3>1
    <3> QED
      BY <1>0, <2>1, <3>1, <3>2, RouteMove
  <2> QED
    BY <2>1, <2>3, <2>4
<1>4. CASE Start(h)
  <2>1. /\ life[h] = "none" /\ UNCHANGED <<plan, target, spawned>>
        /\ \/ hpc' = [hpc EXCEPT ![h] = "install"] /\ UNCHANGED purpose
           \/ /\ hpc' = [hpc EXCEPT ![h] = "judge"]
              /\ \E q \in {"gcLock", "gcPid"} : purpose' = [purpose EXCEPT ![h] = q]
           \/ /\ hpc' = [hpc EXCEPT ![h] = "probe"]
              /\ purpose' = [purpose EXCEPT ![h] = "gcSocket"]
    BY <1>4 DEF Start
  <2>2. purpose[h] = "lock"
    BY <1>0, <2>1 DEF AsleepInv, Alive
  <2>3. /\ \/ hpc'[h] = "install" /\ purpose'[h] = "lock"
           \/ hpc'[h] = "judge" /\ purpose'[h] \in {"gcLock", "gcPid"}
           \/ hpc'[h] = "probe" /\ purpose'[h] = "gcSocket"
        /\ plan'[h] = plan[h] /\ OnlyMoves(h)
    BY <1>0, <2>1, <2>2 DEF OnlyMoves, HelperTypes
  <2>4. Routed(hpc'[h], purpose'[h]) /\ Planned(hpc'[h], purpose'[h], plan'[h])
    BY <1>0, <2>2, <2>3 DEF Routed, Planned
  <2> QED
    BY <1>0, <2>3, <2>4, RouteFrame
<1>5. CASE LockTimeout(h)
  <2>1. hpc[h] = "install" /\ hpc' = [hpc EXCEPT ![h] = "end"]
        /\ UNCHANGED <<purpose, plan, target, spawned>>
    BY <1>5 DEF LockTimeout
  <2>2. Routed("end", purpose[h])
    BY <1>0, <2>1 DEF Routed, Fits
  <2> QED
    BY <1>0, <2>1, <2>2, RouteMove
<1>6. CASE ServerFound(h)
  <2>0. hpc[h] \in {"query", "requery"} /\ UNCHANGED <<plan, spawned>>
    BY <1>6 DEF ServerFound
  <2>1. CASE Return(h, "ok") /\ UNCHANGED target
    BY <1>0, <2>0, <2>1, RouteReturn
  <2>2. CASE \E s \in Answering : /\ version[s] # "current"
                                  /\ hpc' = [hpc EXCEPT ![h] = "snapshot"]
                                  /\ target' = [target EXCEPT ![h] = s] /\ UNCHANGED purpose
    <3>1. PICK s \in Answering : /\ version[s] # "current"
                                 /\ hpc' = [hpc EXCEPT ![h] = "snapshot"]
                                 /\ target' = [target EXCEPT ![h] = s] /\ UNCHANGED purpose
      BY <2>2
    <3>2. /\ hpc'[h] = "snapshot" /\ purpose'[h] = purpose[h] /\ plan'[h] = plan[h]
          /\ target'[h] = s /\ OnlyMoves(h)
      BY <1>0, <2>0, <3>1 DEF OnlyMoves, HelperTypes
    <3> QED
      <4>1. Routed(hpc'[h], purpose'[h]) /\ Planned(hpc'[h], purpose'[h], plan'[h])
        BY <1>0, <2>0, <3>2 DEF Routed, Planned
      <4>2. s \in Servers /\ life[s] = "alive" /\ version[s] = "older"
        BY <3>1 DEF Answering, Dialable, Alive, TypeInv, ServerTypes
      <4>3. Replaced(s)
        BY <4>2 DEF Replaced, PartInv
      <4> QED
        BY <1>0, <3>2, <4>1, <4>3, RouteFrame
  <2> QED
    BY <1>6, <2>1, <2>2 DEF ServerFound

<1>7. CASE ServerSilent(h)
  <2>0. hpc[h] \in {"query", "requery"} /\ UNCHANGED <<plan, target, spawned>>
    BY <1>7 DEF ServerSilent
  <2>1. CASE Return(h, "error")
    BY <1>0, <2>0, <2>1, RouteReturn
  <2>2. CASE /\ hpc[h] = "query" /\ hpc' = [hpc EXCEPT ![h] = "judge"]
             /\ purpose' = [purpose EXCEPT ![h] = "owner"]
    <3>1. hpc'[h] = "judge" /\ purpose'[h] = "owner" /\ plan'[h] = plan[h] /\ OnlyMoves(h)
      BY <1>0, <2>0, <2>2 DEF OnlyMoves, HelperTypes
    <3>2. Routed(hpc'[h], purpose'[h]) /\ Planned(hpc'[h], purpose'[h], plan'[h])
      BY <1>0, <2>2, <3>1 DEF Routed, Planned
    <3> QED
      BY <3>1, <3>2, <1>0, RouteFrame
  <2> QED
    BY <1>7, <2>1, <2>2 DEF ServerSilent
<1>8. CASE Snapshot(h)
  <2>0. hpc[h] = "snapshot" /\ UNCHANGED <<target, spawned>>
    BY <1>8 DEF Snapshot
  <2>1. CASE Return(h, "kept") /\ UNCHANGED plan
    BY <1>0, <2>0, <2>1, RouteReturn
  <2>2. CASE /\ hosted[target[h]] # {} /\ hpc' = [hpc EXCEPT ![h] = "judge"]
             /\ plan' = [plan EXCEPT ![h] = Replacement(target[h])]
             /\ purpose' = [purpose EXCEPT ![h] = "old"]
    <3>1. /\ hpc'[h] = "judge" /\ purpose'[h] = "old" /\ target'[h] = target[h]
          /\ plan'[h] = Replacement(target[h]) /\ OnlyMoves(h)
      BY <1>0, <2>0, <2>2 DEF OnlyMoves, HelperTypes
    <3>2. /\ Replacement(target[h]).windows # {}
          /\ Replacement(target[h]).keepOldProcess => Replacement(target[h]).legacyHandoff
      BY <2>2 DEF Replacement, NoPlan
    <3>3. Routed(hpc'[h], purpose'[h]) /\ Planned(hpc'[h], purpose'[h], plan'[h])
      BY <3>1, <3>2 DEF Routed, Planned
    <3> QED
      BY <1>0, <2>0, <3>1, <3>3, RouteFrame
  <2> QED
    BY <1>8, <2>1, <2>2 DEF Snapshot
<1>9. CASE HandoffWindow(h) \/ RequestShutdown(h) \/ ServerExited(h)
  <2>1. /\ hpc[h] \in {"handoff", "shutdown", "awaitExit"}
        /\ UNCHANGED <<purpose, plan, target, spawned>>
        /\ \E p \in {"final", "awaitExit", hpc[h]} : hpc' = [hpc EXCEPT ![h] = p]
    BY <1>0, <1>9 DEF HandoffWindow, RequestShutdown, ServerExited, HelperTypes
  <2>2. purpose[h] = "old" /\ \A p \in {"final", "awaitExit", hpc[h]} : Routed(p, purpose[h])
    BY <1>0, <2>1 DEF Routed
  <2>3. hpc[h] = "handoff" => plan[h].keepOldProcess
    BY <1>0 DEF Planned
  <2>4. PICK p \in {"final", "awaitExit", hpc[h]} : hpc' = [hpc EXCEPT ![h] = p]
    BY <2>1
  <2>5. /\ Routed(p, purpose[h]) /\ p \notin {"snapshot", "awaitServer"}
        /\ p = "handoff" => plan[h].keepOldProcess
    BY <2>1, <2>2, <2>3
  <2> QED
    BY <1>0, <2>1, <2>4, <2>5, RouteMove
<1>10. CASE HandoffFails(h) \/ ExitTimeout(h) \/ StartTimeout(h) \/ ServerStarted(h)
  <2>1. \E o \in {"kept", "error", "ok"} : Return(h, o) /\ UNCHANGED <<plan, target, spawned>>
    BY <1>10 DEF HandoffFails, ExitTimeout, StartTimeout, ServerStarted
  <2> QED
    BY <1>0, <2>1, RouteReturn
<1>11. CASE FinalCheck(h)
  <2>0. hpc[h] = "final" /\ UNCHANGED <<plan, target, spawned>>
    BY <1>11 DEF FinalCheck
  <2>1. CASE Return(h, "ok")
    BY <1>0, <2>0, <2>1, RouteReturn
  <2>2. CASE UNCHANGED purpose /\ \E p \in {"spawn", "probe"} : hpc' = [hpc EXCEPT ![h] = p]
    <3>1. \A p \in {"spawn", "probe"} : Routed(p, purpose[h])
      BY <1>0, <2>0 DEF Routed
    <3> QED
      BY <1>0, <2>0, <2>2, <3>1, RouteMove
  <2> QED
    BY <1>11, <2>1, <2>2 DEF FinalCheck
<1>12. CASE ProbePath(h) \/ ComparePath(h) \/ UnlinkPath(h)
  <2>1. /\ hpc[h] \in {"probe", "compare", "unlinkPath"}
        /\ UNCHANGED <<purpose, plan, target, spawned>>
        /\ \E p \in {"end", "spawn", "compare", "unlinkPath"} :
             /\ hpc' = [hpc EXCEPT ![h] = p]
             /\ p \in {"end", "compare"} => purpose[h] = "gcSocket"
             /\ p = "spawn" => purpose[h] # "gcSocket"
    BY <1>0, <1>12 DEF ProbePath, ComparePath, UnlinkPath, Fits
  <2>2. PICK p \in {"end", "spawn", "compare", "unlinkPath"} :
             /\ hpc' = [hpc EXCEPT ![h] = p]
             /\ p \in {"end", "compare"} => purpose[h] = "gcSocket"
             /\ p = "spawn" => purpose[h] # "gcSocket"
    BY <2>1
  <2>3. Routed(p, purpose[h])
    BY <1>0, <2>1, <2>2 DEF Routed, Fits
  <2> QED
    BY <1>0, <2>1, <2>2, <2>3, RouteMove
<1>13. CASE Spawn(h)
  <2>0. hpc[h] = "spawn" /\ UNCHANGED <<plan, target>>
    BY <1>13 DEF Spawn
  <2>1. CASE Return(h, "error") /\ UNCHANGED spawned
    BY <1>0, <2>0, <2>1, RouteReturn
  <2>2. CASE \E s \in Servers : /\ life' = [life EXCEPT ![s] = "alive"]
                                /\ spawned' = [spawned EXCEPT ![h] = s]
                                /\ hpc' = [hpc EXCEPT ![h] = "awaitServer"] /\ UNCHANGED purpose
    <3>1. PICK s \in Servers : /\ life' = [life EXCEPT ![s] = "alive"]
                               /\ spawned' = [spawned EXCEPT ![h] = s]
                               /\ hpc' = [hpc EXCEPT ![h] = "awaitServer"] /\ UNCHANGED purpose
      BY <2>2
    <3>2. /\ hpc'[h] = "awaitServer" /\ purpose'[h] = purpose[h] /\ plan'[h] = plan[h]
          /\ target'[h] = target[h] /\ spawned'[h] = s /\ life'[s] = "alive" /\ OnlyMoves(h)
      BY <1>0, <2>0, <3>1 DEF OnlyMoves, HelperTypes, TypeInv, DirTypes, Processes
    <3>3. Routed(hpc'[h], purpose'[h]) /\ Planned(hpc'[h], purpose'[h], plan'[h])
      BY <1>0, <2>0, <3>2 DEF Routed, Planned
    <3> QED
      BY <1>0, <3>2, <3>3, RouteFrame
  <2>3. (CHOOSE q \in Servers : FreshPid(q)) \in Servers \/ ~\E q \in Servers : FreshPid(q)
    OBVIOUS
  <2> QED
    BY <1>13, <2>1, <2>2, <2>3 DEF Spawn
<1>14. CASE End(h)
  <2>1. Forgets(h)
    BY <1>14 DEF End
  <2> QED
    BY <1>0, <2>1, RouteForgets
<1> QED
  BY <1>1, <1>2, <1>3, <1>4, <1>5, <1>6, <1>7, <1>8, <1>9, <1>10, <1>11, <1>12, <1>13, <1>14
     DEF AnyHelperStep, HelperStep

(***************************************************************************)
(* The servers' steps                                                      *)
(***************************************************************************)
Same(q) ==
  /\ life'[q] = life[q] /\ at'[q] = at[q] /\ version'[q] = version[q]
  /\ hosted'[q] = hosted[q] /\ restore'[q] = restore[q] /\ told'[q] = told[q]
  /\ open'[q] = open[q] /\ identity'[q] = identity[q] /\ rebound'[q] = rebound[q]
  /\ rpc'[q] = rpc[q]

Gone(s) ==
  /\ life'[s] = "dead" /\ at'[s] = "gone" /\ version'[s] = "current"
  /\ hosted'[s] = {} /\ restore'[s] = {} /\ told'[s] = FALSE /\ open'[s] = {}
  /\ identity'[s] = 0 /\ rebound'[s] = 0 /\ rpc'[s] = "idle"

Elsewhere(s) == \A p \in Processes \ {s} : life'[p] = life[p]

LEMMA ExitEffect ==
  ASSUME TypeInv, NEW s \in Servers, Exit(s)
  PROVE  Gone(s) /\ Elsewhere(s) /\ \A q \in Servers \ {s} : Same(q)
<1>1. Gone(s) /\ Elsewhere(s)
  BY DEF TypeInv, DirTypes, ServerTypes, Exit, Gone, Elsewhere, Processes
<1>2. ASSUME NEW q \in Servers \ {s} PROVE Same(q)
  BY DEF TypeInv, DirTypes, ServerTypes, Exit, Same, Processes
<1> QED
  BY <1>1, <1>2

LEMMA StaysEffect ==
  ASSUME TypeInv, NEW s \in Servers, Stays, NEW p, at' = [at EXCEPT ![s] = p]
  PROVE  /\ at'[s] = p /\ life'[s] = life[s] /\ version'[s] = version[s]
         /\ hosted'[s] = hosted[s] /\ restore'[s] = restore[s] /\ told'[s] = told[s]
         /\ open'[s] = open[s] /\ identity'[s] = identity[s] /\ rebound'[s] = rebound[s]
         /\ rpc'[s] = rpc[s]
         /\ Elsewhere(s) /\ \A q \in Servers \ {s} : Same(q)
BY DEF TypeInv, ServerTypes, Stays, Same, Elsewhere

LEMMA ServerAlone ==
  ASSUME TypeInv, NEW s \in Servers, ServerStep(s) \/ Republish(s)
  PROVE  /\ Alive(s) /\ Elsewhere(s) /\ \A q \in Servers \ {s} : Same(q)
         /\ UNCHANGED <<helperVars, disturbances, raced, workspace, ended>>
         /\ (mishap => mishap') /\ displaced \subseteq displaced' /\ refused \subseteq refused'
<1>1. /\ Alive(s) /\ UNCHANGED <<helperVars, disturbances, raced, workspace, ended>>
      /\ (mishap => mishap') /\ displaced \subseteq displaced' /\ refused \subseteq refused'
  <2>1. Alive(s) /\ UNCHANGED <<helperVars, disturbances, raced, workspace, ended>>
    BY DEF ServerStep, Republish, ReadRestore, AskOther, ClearName, Listen, RecordPid,
           RestoreWindows, RestoreFails, CloseServer, CheckPath, UnlinkOwnPath, JoinAndForget,
           UnlinkPid, NoticeMissing, Rebind, InstallListener, UndoRebind, faultVars, history
  <2>2. mishap => mishap'
    BY DEF ServerStep, Republish, ReadRestore, AskOther, ClearName, Listen, RecordPid,
           RestoreWindows, RestoreFails, CloseServer, CheckPath, UnlinkOwnPath, JoinAndForget,
           UnlinkPid, NoticeMissing, Rebind, InstallListener, UndoRebind, faultVars
  <2>3. displaced \subseteq displaced'
    BY DEF ServerStep, Republish, ReadRestore, AskOther, ClearName, Listen, RecordPid,
           RestoreWindows, RestoreFails, CloseServer, CheckPath, UnlinkOwnPath, JoinAndForget,
           UnlinkPid, NoticeMissing, Rebind, InstallListener, UndoRebind, RemoveName, history
  <2>4. refused \subseteq refused'
    BY DEF ServerStep, Republish, ReadRestore, AskOther, ClearName, Listen, RecordPid,
           RestoreWindows, RestoreFails, CloseServer, CheckPath, UnlinkOwnPath, JoinAndForget,
           UnlinkPid, NoticeMissing, Rebind, InstallListener, UndoRebind, history
  <2> QED
    BY <2>1, <2>2, <2>3, <2>4
<1>2. CASE Exit(s)
  BY <1>1, <1>2, ExitEffect
<1>3. CASE ~Exit(s)
  <2>1. \A q \in Servers \ {s} : Same(q)
    <3>1. ASSUME NEW q \in Servers \ {s}
          PROVE  /\ life'[q] = life[q] /\ at'[q] = at[q] /\ version'[q] = version[q]
                 /\ hosted'[q] = hosted[q] /\ restore'[q] = restore[q] /\ told'[q] = told[q]
      BY <1>3 DEF TypeInv, ServerTypes, ServerStep, Republish, ReadRestore, AskOther, ClearName,
         Listen, RecordPid, RestoreWindows, RestoreFails, CloseServer, CheckPath, UnlinkOwnPath,
         JoinAndForget, UnlinkPid, NoticeMissing, Rebind, InstallListener, UndoRebind, Stays,
         bootVars
    <3>2. ASSUME NEW q \in Servers \ {s}
          PROVE  /\ open'[q] = open[q] /\ identity'[q] = identity[q]
                 /\ rebound'[q] = rebound[q] /\ rpc'[q] = rpc[q]
      BY <1>3 DEF TypeInv, ServerTypes, ServerStep, Republish, ReadRestore, AskOther, ClearName,
         Listen, RecordPid, RestoreWindows, RestoreFails, CloseServer, CheckPath, UnlinkOwnPath,
         JoinAndForget, UnlinkPid, NoticeMissing, Rebind, InstallListener, UndoRebind, Stays,
         bootVars
    <3> QED
      BY <3>1, <3>2 DEF Same
  <2>2. life' = life
    BY <1>3 DEF ServerStep, Republish, ReadRestore, AskOther, ClearName,
         Listen, RecordPid, RestoreWindows, RestoreFails, CloseServer, CheckPath, UnlinkOwnPath,
         JoinAndForget, UnlinkPid, NoticeMissing, Rebind, InstallListener, UndoRebind, Stays
  <2> QED
    BY <1>1, <2>1, <2>2 DEF Elsewhere
<1> QED
  BY <1>2, <1>3

\* What a step of server s does, at s.
SameLife(s)    == life'[s] = life[s] /\ version'[s] = version[s]
SameNames(s)   == /\ open'[s] = open[s] /\ identity'[s] = identity[s]
                  /\ rebound'[s] = rebound[s] /\ rpc'[s] = rpc[s]
SameWindows(s) == hosted'[s] = hosted[s] /\ restore'[s] = restore[s] /\ told'[s] = told[s]
SamePlace(s)   == at'[s] = at[s] /\ SameLife(s) /\ SameWindows(s)
SameDir        == file' = file /\ path' = path /\ displaced' = displaced

Turns(s, p, q) ==
  at[s] = p /\ at'[s] = q /\ SameLife(s) /\ SameNames(s) /\ SameWindows(s)

Boots(s) == /\ SameDir
            /\ \/ at[s] \in {"boot", "ask", "listen"} /\ Gone(s)
               \/ Turns(s, "boot", "ask") \/ Turns(s, "ask", "clear") \/ Turns(s, "listen", "clear")

Clears(s) == Turns(s, "clear", "listen") /\ path' = 0 /\ file' = file /\ displaced' = displaced

Binds(s) == /\ at[s] = "listen" /\ at'[s] = "record" /\ SameLife(s) /\ SameWindows(s)
            /\ path = 0 /\ path' = NewInode /\ file' = file /\ displaced' = displaced
            /\ open'[s] = {NewInode} /\ identity'[s] = NewInode
            /\ rebound'[s] = rebound[s] /\ rpc'[s] = rpc[s]

Records(s) == /\ Turns(s, "record", "restore") /\ path' = path /\ displaced' = displaced
              /\ file' = [file EXCEPT !["pid"] = s]

Restores(s) == /\ at[s] = "restore" /\ at'[s] = "serving" /\ SameLife(s) /\ SameNames(s) /\ SameDir
               /\ restore'[s] = {} /\ told'[s] = told[s]
               /\ \E failed \in SUBSET restore[s] :
                    /\ hosted'[s] = (IF failed = restore[s] THEN {FreshWindow}
                                     ELSE restore[s] \ (failed \cup ended))
                    /\ refused' = refused \cup failed

Resigns(s) == /\ mishap' /\ at[s] = "restore" /\ at'[s] = "checkPath" /\ SameLife(s) /\ SameDir
              /\ hosted'[s] = hosted[s] /\ restore'[s] = {} /\ told'[s] = told[s]
              /\ open'[s] = {} /\ identity'[s] = identity[s]
              /\ rebound'[s] = rebound[s] /\ rpc'[s] = rpc[s]

Closes(s) == /\ at[s] = "serving" /\ at'[s] = "checkPath" /\ SameLife(s) /\ SameDir
             /\ (told[s] \/ hosted[s] = {}) /\ (Stranded(s) => mishap')
             /\ hosted'[s] = {} /\ restore'[s] = restore[s] /\ told'[s] = told[s]
             /\ open'[s] = open[s] \ {identity[s]} /\ identity'[s] = identity[s]
             /\ rebound'[s] = rebound[s] /\ rpc'[s] = rpc[s]

Unnames(s) == /\ file' = file
              /\ \/ SameDir /\ (Turns(s, "checkPath", "unlinkPath") \/ Turns(s, "checkPath", "join"))
                 \/ Turns(s, "unlinkPath", "join") /\ RemoveName

Leaves(s) == \/ SameDir /\ at[s] = "join" /\ (Gone(s) \/ Turns(s, "join", "unlinkPid"))
             \/ /\ at[s] = "unlinkPid" /\ Gone(s) /\ path' = path
                /\ file' = [file EXCEPT !["pid"] = NoPid]
                /\ displaced' = IF file["pid"] \in {s, NoPid} THEN displaced
                                ELSE displaced \cup {"pid"}

Notices(s) == /\ SamePlace(s) /\ SameDir /\ at[s] = "serving" /\ rpc[s] = "idle" /\ path = 0
              /\ rpc'[s] = "missing" /\ open'[s] = open[s] /\ identity'[s] = identity[s]
              /\ rebound'[s] = rebound[s]

Rebinds(s) == /\ SamePlace(s) /\ file' = file /\ displaced' = displaced
              /\ rpc[s] = "missing" /\ identity'[s] = identity[s]
              /\ \/ /\ path = 0 /\ path' = NewInode /\ open'[s] = open[s] \cup {NewInode}
                    /\ rebound'[s] = NewInode /\ rpc'[s] = "bound"
                 \/ /\ path' = path /\ open'[s] = open[s] /\ rebound'[s] = rebound[s]
                    /\ rpc'[s] = "idle"

Installs(s) == /\ SamePlace(s) /\ SameDir /\ rpc[s] = "bound" /\ rebound'[s] = rebound[s]
               /\ \/ /\ at[s] = "serving" /\ rpc'[s] = "idle"
                     /\ open'[s] = {rebound[s]} /\ identity'[s] = rebound[s]
                  \/ /\ at[s] # "serving" /\ rpc'[s] \in {"undo", "idle"}
                     /\ open'[s] = {} /\ identity'[s] = identity[s]

Undoes(s) == /\ SamePlace(s) /\ file' = file /\ RemoveName /\ rpc[s] = "undo" /\ rpc'[s] = "idle"
             /\ open'[s] = open[s] /\ identity'[s] = identity[s] /\ rebound'[s] = rebound[s]

LEMMA ServerEffects ==
  ASSUME TypeInv, NEW s \in Servers, ServerStep(s) \/ Republish(s)
  PROVE  \/ Boots(s) \/ Clears(s) \/ Binds(s) \/ Records(s) \/ Restores(s) \/ Resigns(s)
         \/ Closes(s) \/ Unnames(s) \/ Leaves(s)
         \/ Notices(s) \/ Rebinds(s) \/ Installs(s) \/ Undoes(s)
<1>0. ServerTypes
  BY DEF TypeInv
<1>1. CASE ReadRestore(s) \/ AskOther(s)
  <2>1. SameDir /\ at[s] \in {"boot", "ask"}
    BY <1>1 DEF ReadRestore, AskOther, SameDir, dirVars, history
  <2>2. CASE Exit(s)
    BY <2>1, <2>2, ExitEffect DEF Boots
  <2>3. CASE Stays /\ at' = [at EXCEPT ![s] = "ask"] /\ at[s] = "boot"
    BY <2>1, <2>3, StaysEffect DEF Boots, Turns, SameLife, SameNames, SameWindows
  <2>4. CASE Stays /\ at' = [at EXCEPT ![s] = "clear"] /\ at[s] = "ask"
    BY <2>1, <2>4, StaysEffect DEF Boots, Turns, SameLife, SameNames, SameWindows
  <2> QED
    BY <1>1, <2>2, <2>3, <2>4 DEF ReadRestore, AskOther
<1>2. CASE ClearName(s)
  BY <1>0, <1>2 DEF ClearName, Clears, Turns, SameLife, SameNames, SameWindows, ServerTypes,
     bootVars, history
<1>3. CASE Listen(s)
  <2>1. at[s] = "listen" /\ file' = file /\ displaced' = displaced
    BY <1>3 DEF Listen, history
  <2>2. CASE path = 0
    BY <1>0, <1>3, <2>1, <2>2 DEF Listen, Binds, SameLife, SameWindows, ServerTypes
  <2>3. CASE path # 0 /\ Exit(s)
    BY <1>3, <2>1, <2>3, ExitEffect DEF Listen, Boots, SameDir
  <2>4. CASE path # 0 /\ ~Exit(s)
    <3>1. Stays /\ at' = [at EXCEPT ![s] = "clear"] /\ SameDir
      BY <1>3, <2>1, <2>4 DEF Listen, SameDir
    <3> QED
      BY <2>1, <3>1, StaysEffect DEF Boots, Turns, SameLife, SameNames, SameWindows
  <2> QED
    BY <2>2, <2>3, <2>4
<1>4. CASE RecordPid(s)
  BY <1>0, <1>4 DEF RecordPid, Records, Turns, SameLife, SameNames, SameWindows, ServerTypes,
     bootVars, history
<1>5. CASE RestoreWindows(s)
  BY <1>0, <1>5 DEF RestoreWindows, Restores, SameLife, SameNames, SameDir, ServerTypes,
     dirVars, history
<1>6. CASE CloseServer(s)
  BY <1>0, <1>6 DEF CloseServer, HostedOnClose, Closes, SameLife, SameDir, ServerTypes,
     bootVars, dirVars, history
<1>7. CASE CheckPath(s)
  BY <1>0, <1>7 DEF CheckPath, Unnames, Turns, SameLife, SameNames, SameWindows, SameDir,
     ServerTypes, bootVars, dirVars, history
<1>8. CASE UnlinkOwnPath(s)
  <2>1. Turns(s, "unlinkPath", "join") /\ file' = file /\ RemoveName
    BY <1>0, <1>8 DEF UnlinkOwnPath, Turns, SameLife, SameNames, SameWindows, ServerTypes, bootVars
  <2> QED
    BY <2>1 DEF Unnames
<1>9. CASE JoinAndForget(s)
  <2>1. SameDir /\ at[s] = "join"
    BY <1>9 DEF JoinAndForget, SameDir, dirVars, history
  <2>2. CASE Exit(s)
    BY <2>1, <2>2, ExitEffect DEF Leaves
  <2>3. CASE ~Exit(s)
    <3>1. Stays /\ at' = [at EXCEPT ![s] = "unlinkPid"]
      BY <1>9, <2>3 DEF JoinAndForget
    <3> QED
      BY <2>1, <3>1, StaysEffect DEF Leaves, Turns, SameLife, SameNames, SameWindows
  <2> QED
    BY <2>2, <2>3
<1>10. CASE UnlinkPid(s)
  BY <1>10, ExitEffect DEF UnlinkPid, Leaves
<1>11. CASE NoticeMissing(s)
  BY <1>0, <1>11 DEF NoticeMissing, NameMissing, Notices, SamePlace, SameLife, SameWindows,
     SameDir, ServerTypes, bootVars, dirVars, history
<1>12. CASE Rebind(s)
  BY <1>0, <1>12 DEF Rebind, Rebinds, SamePlace, SameLife, SameWindows, ServerTypes, bootVars, history
<1>13. CASE InstallListener(s)
  BY <1>0, <1>13 DEF InstallListener, Installs, SamePlace, SameLife, SameWindows,
     SameDir, ServerTypes, bootVars, dirVars, history
<1>14. CASE UndoRebind(s)
  <2>1. /\ SamePlace(s) /\ file' = file /\ RemoveName /\ rpc[s] = "undo" /\ rpc'[s] = "idle"
        /\ open' = open /\ identity' = identity /\ rebound' = rebound
    BY <1>0, <1>14 DEF UndoRebind, SamePlace, SameLife, SameWindows, ServerTypes, bootVars
  <2> QED
    BY <2>1 DEF Undoes
<1>15. CASE RestoreFails(s)
  BY <1>0, <1>15 DEF RestoreFails, Resigns, SameLife, SameDir, ServerTypes, dirVars, history
<1> QED
  BY <1>1, <1>2, <1>3, <1>4, <1>5, <1>6, <1>7, <1>8, <1>9, <1>10, <1>11, <1>12, <1>13, <1>14,
     <1>15 DEF ServerStep, Republish

(***************************************************************************)
(* What the helpers do to the servers                                      *)
(***************************************************************************)
\* Helper h starts server s.
Starts(h, s) ==
  /\ life[s] = "none" /\ life'[s] = "alive" /\ at'[s] = "boot" /\ version'[s] = version[s]
  /\ restore'[s] = plan[h].windows /\ hosted'[s] = hosted[s] /\ told'[s] = told[s] /\ SameNames(s)
  /\ \A q \in Servers \ {s} : Same(q)
  /\ hpc'[h] = "awaitServer" /\ spawned'[h] = s /\ UNCHANGED <<purpose, plan, target, mishap>>

SpawnFails(h) == mishap' /\ \A s \in Servers : Same(s)

LEMMA SpawnEffect ==
  ASSUME TypeInv, NEW h \in Helpers, Spawn(h)
  PROVE  /\ hpc[h] = "spawn" /\ file' = file /\ path' = path
         /\ UNCHANGED <<disturbances, raced, displaced, ended, workspace>>
         /\ SpawnFails(h) \/ \E s \in Servers : Starts(h, s)
<1>1. /\ hpc[h] = "spawn" /\ file' = file /\ path' = path
      /\ UNCHANGED <<disturbances, raced, displaced, ended, workspace>>
      /\ UNCHANGED <<plan, target, version, shutdownOK, tries, hosted, open, identity, told,
                     rpc, rebound>>
  BY DEF Spawn, history
<1>2. CASE \E s \in Servers : FreshPid(s)
  <2>1. PICK s \in Servers :
          /\ FreshPid(s) /\ life' = [life EXCEPT ![s] = "alive"]
          /\ at' = [at EXCEPT ![s] = "boot"] /\ restore' = [restore EXCEPT ![s] = RestoredBy(h)]
          /\ spawned' = [spawned EXCEPT ![h] = s] /\ hpc' = [hpc EXCEPT ![h] = "awaitServer"]
          /\ UNCHANGED <<purpose, mishap>>
    BY <1>2 DEF Spawn
  <2>2. /\ life[s] = "none" /\ life'[s] = "alive" /\ at'[s] = "boot"
        /\ restore'[s] = plan[h].windows /\ spawned'[h] = s /\ hpc'[h] = "awaitServer"
    BY <2>1 DEF FreshPid, RestoredBy, TypeInv, DirTypes, HelperTypes, ServerTypes, Processes
  <2>3. ASSUME NEW q \in Servers \ {s} PROVE Same(q)
    BY <1>1, <2>1 DEF Same, TypeInv, DirTypes, ServerTypes
  <2> QED
    BY <1>1, <2>1, <2>2, <2>3 DEF Starts, SameNames
<1>3. CASE ~\E s \in Servers : FreshPid(s)
  <2>1. mishap' /\ UNCHANGED <<life, at, restore>>
    BY <1>3 DEF Spawn
  <2> QED
    BY <1>1, <2>1 DEF SpawnFails, Same
<1> QED
  BY <1>1, <1>2, <1>3

LEMMA HandoffEffect ==
  ASSUME TypeInv, NEW h \in Helpers, HandoffWindow(h)
  PROVE  /\ hpc[h] = "handoff" /\ SameDir
         /\ \/ hpc' = [hpc EXCEPT ![h] = "final"]
            \/ hpc' = hpc
         /\ \A s \in Servers :
              /\ SameLife(s) /\ SameNames(s) /\ at'[s] = at[s]
              /\ restore'[s] = restore[s] /\ told'[s] = told[s]
              /\ \/ hosted'[s] = hosted[s]
                 \/ /\ s = target[h] /\ at[s] = "serving"
                    /\ hosted'[s] \subseteq hosted[s] /\ hosted[s] \ hosted'[s] \subseteq plan[h].windows
<1>1. /\ hpc[h] = "handoff" /\ Alive(h) /\ at[target[h]] = "serving"
      /\ UNCHANGED <<dirVars, life, bootVars, at, open, identity, told, rpc, rebound, history>>
      /\ hpc' = [hpc EXCEPT ![h] = "final"] \/ hpc' = hpc
      /\ \/ hosted' = hosted
         \/ \E w \in plan[h].windows : hosted' = [hosted EXCEPT ![target[h]] = @ \ {w}]
  BY DEF HandoffWindow
<1>2. SameDir
  BY <1>1 DEF SameDir, dirVars, history
<1>3. ASSUME NEW s \in Servers
      PROVE  \/ hosted'[s] = hosted[s]
             \/ /\ s = target[h] /\ at[s] = "serving"
                /\ hosted'[s] \subseteq hosted[s] /\ hosted[s] \ hosted'[s] \subseteq plan[h].windows
  BY <1>1 DEF TypeInv, ServerTypes
<1>4. ASSUME NEW s \in Servers
      PROVE  /\ SameLife(s) /\ SameNames(s) /\ at'[s] = at[s]
             /\ restore'[s] = restore[s] /\ told'[s] = told[s]
  BY <1>1 DEF SameLife, SameNames, bootVars
<1> QED
  BY <1>1, <1>2, <1>3, <1>4

\* Only whether s has been told to end may change.
Tells(s) == /\ SameLife(s) /\ SameNames(s) /\ at'[s] = at[s]
            /\ hosted'[s] = hosted[s] /\ restore'[s] = restore[s]
            /\ told'[s] \in {told[s], TRUE}

LEMMA TellEffect ==
  ASSUME TypeInv, NEW h \in Helpers, RequestShutdown(h) \/ ServerStarted(h)
  PROVE  /\ SameDir /\ hpc[h] \in {"shutdown", "awaitServer"}
         /\ \A s \in Servers :
              /\ Tells(s)
              /\ told'[s] # told[s] =>
                   \/ hpc[h] = "shutdown" /\ s = target[h] /\ s \in Answering
                   \/ hpc[h] = "awaitServer" /\ s = plan[h].old /\ s # spawned[h] /\ Alive(s)
<1>1. CASE RequestShutdown(h)
  <2>1. /\ hpc[h] = "shutdown" /\ SameDir
        /\ UNCHANGED <<life, bootVars, at, hosted, open, identity, rpc, rebound>>
        /\ \/ told' = told
           \/ target[h] \in Answering /\ told' = [told EXCEPT ![target[h]] = TRUE]
    BY <1>1 DEF RequestShutdown, SameDir, dirVars, history
  <2>2. ASSUME NEW s \in Servers
        PROVE  Tells(s) /\ (told'[s] # told[s] => s = target[h] /\ s \in Answering)
    BY <2>1 DEF Tells, SameLife, SameNames, bootVars, TypeInv, ServerTypes
  <2> QED
    BY <2>1, <2>2
<1>2. CASE ServerStarted(h)
  <2>1. /\ hpc[h] = "awaitServer" /\ SameDir
        /\ UNCHANGED <<life, bootVars, at, hosted, open, identity, rpc, rebound>>
    BY <1>2 DEF ServerStarted, SameDir, history
  <2>2. \/ told' = told
        \/ /\ plan[h].old # NoPid /\ plan[h].old # spawned[h] /\ "live" \in Ownership(plan[h].old)
           /\ told' = [told EXCEPT ![plan[h].old] = TRUE]
    BY <1>2 DEF ServerStarted
  <2>3. ASSUME NEW s \in Servers
        PROVE  /\ Tells(s)
               /\ told'[s] # told[s] => s = plan[h].old /\ s # spawned[h] /\ "live" \in Ownership(s)
    BY <2>1, <2>2 DEF Tells, SameLife, SameNames, bootVars, TypeInv, ServerTypes
  <2>4. ASSUME NEW s \in Servers, "live" \in Ownership(s) PROVE Alive(s)
    BY <2>4, SessionAssumption DEF Ownership, Alive, TypeInv, DirTypes, Processes
  <2> QED
    BY <2>1, <2>3, <2>4
<1> QED
  BY <1>1, <1>2

LEMMA QuietEffect ==
  ASSUME TypeInv, NEW h \in Helpers, AnyHelperStep(h),
         ~(Spawn(h) \/ HandoffWindow(h) \/ RequestShutdown(h) \/ ServerStarted(h))
  PROVE  \A s \in Servers : Same(s)
<1>0. life \in [Processes -> {"none", "alive", "dead", "reused"}] /\ h \notin Servers
  BY SessionAssumption DEF TypeInv, DirTypes
<1>1. /\ UNCHANGED <<bootVars, serverVars>>
      /\ life' = life \/ \E l : life' = [life EXCEPT ![h] = l]
  BY DEF AnyHelperStep, HelperStep, InstallLock, JudgeRecord, Recheck, Unlink, Start,
         LockTimeout, ServerFound, ServerSilent, Snapshot, HandoffFails, ServerExited,
         ExitTimeout, FinalCheck, ProbePath, ComparePath, UnlinkPath, StartTimeout, End
<1>2. \A s \in Servers : life'[s] = life[s]
  BY <1>0, <1>1 DEF Processes
<1> QED
  BY <1>1, <1>2 DEF Same, bootVars, serverVars

(***************************************************************************)
(* Versions, names and records                                             *)
(***************************************************************************)
LEMMA InitServers == Init => PartInv /\ NameInv /\ PidInv
<1> SUFFICES ASSUME Init PROVE PartInv /\ NameInv /\ PidInv
  OBVIOUS
<1>1. PICK served \in BOOLEAN, v \in {"current", "older"}, c \in BOOLEAN,
           ws \in Workspaces, left \in Crashed \cup {NoPid} :
        LET Of(x, y) == [s \in Servers |-> IF served /\ s = Outgoing THEN x ELSE y] IN
        /\ ~served => v = "current"
        /\ v = "current" => c
        /\ life = [p \in Processes |-> IF served /\ p = Outgoing THEN "alive"
                                   ELSE IF p \in Crashed THEN "dead" ELSE "none"]
        /\ at = Of("serving", "gone") /\ version = Of(v, "current")
        /\ shutdownOK = Of(c, TRUE) /\ hosted = Of(ws, {})
        /\ open = Of({1}, {}) /\ identity = Of(1, 0)
        /\ path = (IF served THEN 1 ELSE 0)
        /\ file = [f \in {"lock", "pid"} |-> IF f = "lock" THEN left
                                            ELSE IF served THEN Outgoing ELSE NoPid]
        /\ disturbances = IF left = NoPid THEN 0 ELSE 1
        /\ left # NoPid => ~served /\ MaxDisturbances > 0
        /\ workspace = IF served THEN ws ELSE {}
  BY Zenon DEF Init
<1>2. /\ restore = [s \in Servers |-> {}] /\ told = [s \in Servers |-> FALSE]
      /\ rpc = [s \in Servers |-> "idle"] /\ ended = {}
  BY DEF Init
<1>3. \A s \in Servers :
        IF served /\ s = Outgoing
        THEN at[s] = "serving" /\ version[s] = v /\ open[s] = {1} /\ identity[s] = 1
        ELSE at[s] = "gone" /\ version[s] = "current" /\ open[s] = {} /\ identity[s] = 0
  BY <1>1
<1>4. PartInv
  BY <1>2, <1>3 DEF PartInv, Starting
<1>5. NameInv
  BY <1>2, <1>3 DEF NameInv
<1>6. PidInv
  BY <1>2, <1>3 DEF PidInv, Starting
<1> QED
  BY <1>4, <1>5, <1>6

LEMMA PartServerStep ==
  ASSUME TypeInv, PartInv, NEW s \in Servers, ServerStep(s) \/ Republish(s)
  PROVE  PartInv'
<1>0. ServerParts /\ ServerTypes
  BY DEF TypeInv
<1>1. ended' = ended /\ \A q \in Servers \ {s} : Same(q)
  BY ServerAlone
<1>2. /\ version[s] = "older" =>
           s = Outgoing /\ at[s] \in {"serving", "checkPath", "unlinkPath", "join", "unlinkPid"}
      /\ at[s] \in Starting => rpc[s] = "idle"
      /\ at[s] \notin Starting => restore[s] = {}
      /\ at[s] = "gone" => version[s] = "current" /\ rpc[s] = "idle" /\ ~told[s]
      /\ hosted[s] \cap ended = {}
  BY DEF PartInv
<1>3. /\ version'[s] = "older" =>
           s = Outgoing /\ at'[s] \in {"serving", "checkPath", "unlinkPath", "join", "unlinkPid"}
      /\ at'[s] \in Starting => rpc'[s] = "idle"
      /\ at'[s] \notin Starting => restore'[s] = {}
      /\ at'[s] = "gone" => version'[s] = "current" /\ rpc'[s] = "idle" /\ ~told'[s]
      /\ hosted'[s] \cap ended = {}
  <2>1. CASE Boots(s) \/ Clears(s) \/ Records(s) \/ Unnames(s) \/ Leaves(s)
    BY <1>2, <2>1 DEF Boots, Clears, Records, Unnames, Leaves, Gone, Turns, SameLife,
       SameNames, SameWindows, Starting
  <2>2. CASE Binds(s)
    BY <1>2, <2>2 DEF Binds, SameLife, SameWindows, Starting
  <2>3. CASE Restores(s)
    <3>1. FreshWindow \notin ended
      BY SessionAssumption DEF PartInv
    <3> QED
      BY <1>2, <2>3, <3>1 DEF Restores, SameLife, SameNames, Starting
  <2>4. CASE Closes(s) \/ Resigns(s)
    BY <1>2, <2>4 DEF Closes, Resigns, SameLife, Starting
  <2>5. CASE Notices(s) \/ Rebinds(s) \/ Installs(s) \/ Undoes(s)
    BY <1>0, <1>2, <2>5, ServerAlone DEF Notices, Rebinds, Installs, Undoes, SamePlace,
       SameLife, SameWindows, Starting, ServerParts
  <2> QED
    BY <2>1, <2>2, <2>3, <2>4, <2>5, ServerEffects
<1> QED
  BY <1>1, <1>3 DEF PartInv, Same

LEMMA PartHelperStep ==
  ASSUME TypeInv, PartInv, NEW h \in Helpers, AnyHelperStep(h)
  PROVE  PartInv'
<1>0. ServerParts /\ ServerTypes
  BY DEF TypeInv
<1>1. ended' = ended
  BY DEF AnyHelperStep, HelperStep, InstallLock, JudgeRecord, Recheck, Unlink, Start,
         LockTimeout, ServerFound, ServerSilent, Snapshot, HandoffWindow, HandoffFails,
         RequestShutdown, ServerExited, ExitTimeout, FinalCheck, ProbePath, ComparePath,
         UnlinkPath, Spawn, ServerStarted, StartTimeout, End, history
<1>2. ASSUME NEW s \in Servers,
             version'[s] = version[s] /\ rpc'[s] = rpc[s] /\ restore'[s] = restore[s],
             at'[s] = at[s] /\ hosted'[s] \subseteq hosted[s],
             told'[s] = told[s] \/ at[s] # "gone"
      PROVE  /\ version'[s] = "older" =>
                  s = Outgoing /\ at'[s] \in {"serving", "checkPath", "unlinkPath", "join", "unlinkPid"}
             /\ at'[s] \in Starting => rpc'[s] = "idle"
             /\ at'[s] \notin Starting => restore'[s] = {}
             /\ at'[s] = "gone" => version'[s] = "current" /\ rpc'[s] = "idle" /\ ~told'[s]
             /\ hosted'[s] \cap ended' = {}
  BY <1>1, <1>2 DEF PartInv
<1>3. ASSUME \A s \in Servers :
               /\ version'[s] = version[s] /\ rpc'[s] = rpc[s] /\ restore'[s] = restore[s]
               /\ at'[s] = at[s] /\ hosted'[s] \subseteq hosted[s]
               /\ told'[s] = told[s] \/ at[s] # "gone"
      PROVE  PartInv'
  <2>1. ended' \subseteq NativeWindows
    BY <1>1 DEF PartInv
  <2> QED
    BY <1>2, <1>3, <2>1 DEF PartInv
<1>4. CASE Spawn(h)
  <2>1. CASE SpawnFails(h)
    BY <1>3, <2>1 DEF SpawnFails, Same
  <2>2. ASSUME NEW s \in Servers, Starts(h, s) PROVE PartInv'
    <3>1. /\ version'[s] = "current" /\ at'[s] = "boot" /\ rpc'[s] = "idle"
          /\ hosted'[s] \cap ended' = {}
      BY <1>0, <1>1, <2>2 DEF Starts, SameNames, PartInv, ServerParts, Alive
    <3>2. \A q \in Servers \ {s} : Same(q)
      BY <2>2 DEF Starts
    <3>3. ended' \subseteq NativeWindows
      BY <1>1 DEF PartInv
    <3> QED
      BY <1>1, <3>1, <3>2, <3>3 DEF PartInv, Same, Starting
  <2> QED
    BY <1>4, <2>1, <2>2, SpawnEffect
<1>5. CASE HandoffWindow(h)
  BY <1>3, <1>5, HandoffEffect DEF SameLife, SameNames
<1>6. CASE RequestShutdown(h) \/ ServerStarted(h)
  <2>1. ASSUME NEW s \in Servers
        PROVE  /\ Tells(s)
               /\ told'[s] # told[s] => at[s] # "gone"
    <3>1. /\ Tells(s)
          /\ told'[s] # told[s] => s \in Answering \/ Alive(s)
      BY <1>6, TellEffect
    <3> QED
      BY <1>0, <3>1 DEF Answering, ServerParts
  <2> QED
    BY <1>3, <2>1 DEF Tells, SameLife, SameNames
<1>7. CASE ~(Spawn(h) \/ HandoffWindow(h) \/ RequestShutdown(h) \/ ServerStarted(h))
  BY <1>3, <1>7, QuietEffect DEF Same
<1> QED
  BY <1>4, <1>5, <1>6, <1>7

LEMMA CrashEffect ==
  ASSUME TypeInv, NEW p \in Processes, Crash(p)
  PROVE  /\ mishap' /\ UNCHANGED <<file, path, displaced, ended, workspace, raced>>
         /\ \/ p \in Servers /\ Gone(p) /\ UNCHANGED helperVars /\ Elsewhere(p)
               /\ \A q \in Servers \ {p} : Same(q)
            \/ p \in Helpers /\ Forgets(p) /\ \A s \in Servers : Same(s)
<1>1. mishap' /\ UNCHANGED <<file, path, displaced, ended, workspace, raced>>
  BY DEF Crash, dirVars, history
<1>2. CASE p \in Servers
  <2>1. Exit(p) /\ UNCHANGED helperVars
    BY <1>2 DEF Crash
  <2> QED
    BY <1>1, <1>2, <2>1, ExitEffect
<1>3. CASE p \notin Servers
  <2>1. /\ Forgets(p) /\ life' = [life EXCEPT ![p] = "dead"]
        /\ UNCHANGED <<serverVars, version, shutdownOK, restore>>
    BY <1>3 DEF Crash
  <2>2. \A s \in Servers : life'[s] = life[s]
    BY <1>3, <2>1 DEF TypeInv, DirTypes, Processes
  <2>3. \A s \in Servers : Same(s)
    BY <2>1, <2>2 DEF Same, serverVars
  <2> QED
    BY <1>1, <1>3, <2>1, <2>3 DEF Processes
<1> QED
  BY <1>2, <1>3

LEMMA PartFaultStep ==
  ASSUME TypeInv, PartInv,
         (\E w \in NativeWindows : NativeEnds(w)) \/ (\E p \in Processes : Crash(p) \/ Reuse(p))
  PROVE  PartInv'
<1>1. ASSUME NEW w \in NativeWindows, NativeEnds(w) PROVE PartInv'
  <2>1. /\ UNCHANGED <<version, at, rpc, restore, told>> /\ ended' = ended \cup {w}
        /\ hosted' = [s \in Servers |-> hosted[s] \ {w}]
    BY <1>1 DEF NativeEnds, bootVars
  <2> QED
    BY <2>1 DEF PartInv
<1>2. ASSUME NEW p \in Processes, Crash(p) PROVE PartInv'
  <2>0. ended' = ended /\ ended \subseteq NativeWindows
    BY <1>2, CrashEffect DEF PartInv
  <2>1. CASE p \in Servers /\ Gone(p) /\ \A q \in Servers \ {p} : Same(q)
    BY <2>0, <2>1 DEF Gone, PartInv, Same, Starting
  <2>2. CASE \A s \in Servers : Same(s)
    BY <2>0, <2>2 DEF PartInv, Same
  <2> QED
    BY <1>2, <2>1, <2>2, CrashEffect
<1>3. ASSUME NEW p \in Processes, Reuse(p) PROVE PartInv'
  <2>1. UNCHANGED <<version, at, rpc, restore, told, hosted, ended>>
    BY <1>3 DEF Reuse, bootVars, serverVars, history
  <2> QED
    BY <2>1 DEF PartInv
<1> QED
  BY <1>1, <1>2, <1>3

(* The servers' steps and the faults change no helper's way, except that a  *)
(* helper that crashes forgets it.                                          *)
LEMMA RouteKeeps ==
  ASSUME RouteInv, UNCHANGED helperVars,
         \A s \in Servers : \/ life'[s] = life[s] /\ version'[s] = version[s]
                            \/ life[s] # "none" /\ life'[s] \in {"dead", "reused"}
  PROVE  RouteInv'
<1>1. \A s : Replaced(s) => Replaced(s)'
  BY SessionAssumption DEF Replaced, Alive
<1>2. \A s : Spawning(s) => Spawning(s)'
  BY DEF Spawning
<1>3. ASSUME NEW h \in Helpers
      PROVE  /\ Routed(hpc[h], purpose[h])' /\ Planned(hpc[h], purpose[h], plan[h])'
             /\ (purpose[h] = "old" \/ hpc[h] = "snapshot" => Replaced(target[h]))'
             /\ (hpc[h] = "awaitServer" => Spawning(spawned[h]))'
  BY <1>1, <1>2 DEF RouteInv, Routed, Planned, helperVars
<1> QED
  BY <1>3 DEF RouteInv

LEMMA RouteOtherStep ==
  ASSUME TypeInv, RouteInv,
         \/ \E s \in Servers : ServerStep(s) \/ Republish(s)
         \/ \E w \in NativeWindows : NativeEnds(w)
         \/ \E p \in Processes : Crash(p) \/ Reuse(p)
  PROVE  RouteInv'
<1>1. ASSUME NEW s \in Servers, ServerStep(s) \/ Republish(s) PROVE RouteInv'
  <2>1. /\ UNCHANGED helperVars /\ Alive(s) /\ \A q \in Servers \ {s} : Same(q)
        /\ SameLife(s) \/ Gone(s)
    <3>1. SameLife(s) \/ Gone(s)
      BY <1>1, ServerEffects DEF Boots, Clears, Binds, Records, Restores, Resigns, Closes, Unnames,
         Leaves, Notices, Rebinds, Installs, Undoes, Turns, SamePlace
    <3> QED
      BY <1>1, <3>1, ServerAlone
  <2>2. \A q \in Servers : \/ life'[q] = life[q] /\ version'[q] = version[q]
                           \/ life[q] # "none" /\ life'[q] \in {"dead", "reused"}
    BY <2>1 DEF Same, SameLife, Gone, Alive
  <2> QED
    BY <2>1, <2>2, RouteKeeps
<1>2. ASSUME NEW w \in NativeWindows, NativeEnds(w) PROVE RouteInv'
  <2>1. UNCHANGED <<helperVars, life, version>>
    BY <1>2 DEF NativeEnds, bootVars
  <2> QED
    BY <2>1, RouteKeeps
<1>3. ASSUME NEW p \in Processes, Crash(p) PROVE RouteInv'
  <2>1. CASE p \in Servers
    <3>1. Gone(p) /\ UNCHANGED helperVars /\ \A q \in Servers \ {p} : Same(q)
      BY <1>3, <2>1, CrashEffect, SessionAssumption
    <3>2. \A q \in Servers : \/ life'[q] = life[q] /\ version'[q] = version[q]
                             \/ life[q] # "none" /\ life'[q] \in {"dead", "reused"}
      BY <1>3, <3>1 DEF Same, Gone, Crash, Alive
    <3> QED
      BY <3>1, <3>2, RouteKeeps
  <2>2. CASE p \in Helpers
    <3>1. Forgets(p) /\ \A s \in Servers : Same(s)
      BY <1>3, <2>2, CrashEffect, SessionAssumption
    <3>2. NobodyEnds
      <4>1. UNCHANGED version
        BY <1>3, <2>2, SessionAssumption DEF Crash
      <4> QED
        BY <3>1, <4>1 DEF NobodyEnds, Same
    <3> QED
      BY <2>2, <3>1, <3>2, RouteForgets
  <2> QED
    BY <2>1, <2>2 DEF Processes
<1>4. ASSUME NEW p \in Processes, Reuse(p) PROVE RouteInv'
  <2>1. /\ UNCHANGED <<helperVars, version>> /\ life[p] = "dead"
        /\ life' = [life EXCEPT ![p] = "reused"] /\ DirTypes
    BY <1>4 DEF Reuse, bootVars, TypeInv
  <2>2. \A q \in Servers : \/ life'[q] = life[q] /\ version'[q] = version[q]
                           \/ life[q] # "none" /\ life'[q] \in {"dead", "reused"}
    BY <2>1 DEF DirTypes, Processes
  <2> QED
    BY <2>1, <2>2, RouteKeeps
<1> QED
  BY <1>1, <1>2, <1>3, <1>4

(* A helper at most removes the name, and its server has none yet.          *)
LEMMA NameStep ==
  ASSUME TypeInv, PartInv, NameInv, [Next]_vars
  PROVE  NameInv'
<1>0. ServerTypes /\ NewInode \in Nat \ {0} /\ NewInode \notin UsedInodes
  BY FreshInode DEF TypeInv
<1>1. ASSUME NEW s \in Servers
      PROVE  /\ NewInode \notin open[s] /\ NewInode # identity[s] /\ NewInode # rebound[s]
             /\ NewInode # path
  BY <1>0 DEF UsedInodes
<1>2. ASSUME path' \in {path, 0}, \A s \in Servers :
               /\ \/ at'[s] = at[s]
                  \/ at[s] = "gone" /\ at'[s] = "boot"
                  \/ at'[s] = "gone"
               /\ \/ SameNames(s)
                  \/ open'[s] = {} /\ rpc'[s] = "idle" /\ at'[s] = "gone"
      PROVE  NameInv'
  <2>1. ASSUME NEW s \in Servers
        PROVE  /\ open'[s] \subseteq open[s]
               /\ at'[s] \in {"boot", "ask", "clear", "listen"} => open'[s] = {}
               /\ at'[s] \in {"record", "restore", "serving"} => identity'[s] \in open'[s]
               /\ at'[s] = "serving" => rpc'[s] # "undo"
               /\ rpc'[s] = "bound" => rebound'[s] \in open'[s] /\ rebound'[s] # identity'[s]
    <3>1. at[s] = "gone" => open[s] = {}
      BY DEF TypeInv, ServerParts
    <3> QED
      BY <1>2, <3>1 DEF NameInv, SameNames
  <2>2. ASSUME NEW s \in Servers, at'[s] = "serving", rpc'[s] \in {"missing", "bound"}
        PROVE  path' # identity'[s]
    BY <1>0, <1>2, <2>2 DEF NameInv, SameNames
  <2> QED
    BY <2>1, <2>2 DEF NameInv
<1>3. ASSUME NEW s \in Servers, ServerStep(s) \/ Republish(s) PROVE NameInv'
  <2>1. \A q \in Servers \ {s} : Same(q)
    BY <1>3, ServerAlone
  <2>2. ServerParts /\ PartInv
    BY DEF TypeInv
  <2>3. path' \in {path, 0, NewInode} /\ open'[s] \subseteq open[s] \cup {NewInode}
    <3>1. CASE Boots(s) \/ Clears(s) \/ Binds(s) \/ Records(s) \/ Restores(s) \/ Resigns(s)
      BY <3>1 DEF Boots, Clears, Binds, Records, Restores, Resigns, Turns, SameNames, SameDir, Gone
    <3>2. CASE Closes(s) \/ Unnames(s) \/ Leaves(s)
      BY <3>2 DEF Closes, Unnames, Leaves, Turns, SameNames, SameDir, RemoveName, Gone
    <3>3. CASE Notices(s) \/ Rebinds(s) \/ Installs(s) \/ Undoes(s)
      BY <2>2, <3>3 DEF Notices, Rebinds, Installs, Undoes, SameDir, RemoveName, NameInv
    <3> QED
      BY <1>3, ServerEffects, <3>1, <3>2, <3>3
  <2>4. /\ at'[s] \in {"boot", "ask", "clear", "listen"} => open'[s] = {}
        /\ at'[s] \in {"record", "restore", "serving"} => identity'[s] \in open'[s]
        /\ at'[s] = "serving" => rpc'[s] # "undo"
        /\ rpc'[s] = "bound" => rebound'[s] \in open'[s] /\ rebound'[s] # identity'[s]
        /\ at'[s] = "serving" /\ rpc'[s] \in {"missing", "bound"} => path' # identity'[s]
    <3>1. CASE Boots(s) \/ Clears(s) \/ Binds(s) \/ Records(s) \/ Restores(s)
      BY <1>1, <2>2, <3>1 DEF Boots, Clears, Binds, Records, Restores, Turns, SameNames, SameDir,
         Gone, NameInv, PartInv, Starting
    <3>2. CASE Closes(s) \/ Unnames(s) \/ Leaves(s)
      BY <2>2, <3>2 DEF Closes, Unnames, Leaves, Turns, SameNames, Gone, NameInv
    <3>4. CASE Resigns(s)
      BY <2>2, <3>4 DEF Resigns, PartInv, Starting
    <3>3. CASE Notices(s) \/ Rebinds(s) \/ Installs(s) \/ Undoes(s)
      BY <1>1, <2>2, <3>3 DEF Notices, Rebinds, Installs, Undoes, SamePlace, SameDir, NameInv,
         PartInv, Starting
    <3> QED
      BY <1>3, ServerEffects, <3>1, <3>2, <3>3, <3>4
  <2>5. 0 \notin open'[s] /\ \A q \in Servers \ {s} : open'[s] \cap open[q] = {}
    BY <1>0, <1>1, <2>3 DEF NameInv
  <2>6. ASSUME NEW q \in Servers \ {s}
        PROVE  /\ 0 \notin open'[q]
               /\ \A r \in Servers : r # q => open'[q] \cap open'[r] = {}
               /\ at'[q] \in {"boot", "ask", "clear", "listen"} => open'[q] = {}
               /\ at'[q] \in {"record", "restore", "serving"} => identity'[q] \in open'[q]
               /\ at'[q] = "serving" => rpc'[q] # "undo"
               /\ rpc'[q] = "bound" => rebound'[q] \in open'[q] /\ rebound'[q] # identity'[q]
               /\ at'[q] = "serving" /\ rpc'[q] \in {"missing", "bound"} => path' # identity'[q]
    <3>1. Same(q) /\ NewInode # identity[q]
      BY <1>1, <2>1
    <3>2. \A r \in Servers : r # q => open'[q] \cap open'[r] = {}
      BY <2>1, <2>5 DEF Same, NameInv
    <3> QED
      BY <2>3, <3>1, <3>2 DEF Same, NameInv
  <2>7. \A r \in Servers : r # s => open'[s] \cap open'[r] = {}
    BY <2>1, <2>5 DEF Same
  <2> QED
    BY <2>4, <2>5, <2>6, <2>7 DEF NameInv
<1>4. ASSUME NEW h \in Helpers, AnyHelperStep(h) PROVE NameInv'
  <2>1. path' \in {path, 0}
    BY <1>4 DEF AnyHelperStep, HelperStep, InstallLock, JudgeRecord, Recheck, Unlink, Start,
         LockTimeout, ServerFound, ServerSilent, Snapshot, HandoffWindow, HandoffFails,
         RequestShutdown, ServerExited, ExitTimeout, FinalCheck, ProbePath, ComparePath,
         UnlinkPath, RemoveName, Spawn, ServerStarted, StartTimeout, End, dirVars
  <2>2. CASE Spawn(h)
    <3>1. CASE SpawnFails(h)
      BY <1>2, <2>1, <3>1 DEF SpawnFails, Same, SameNames
    <3>2. ASSUME NEW s \in Servers, Starts(h, s) PROVE NameInv'
      <4>1. at[s] = "gone" /\ at'[s] = "boot" /\ SameNames(s)
        BY <3>2 DEF Starts, TypeInv, ServerParts, Alive
      <4>2. \A q \in Servers \ {s} : at'[q] = at[q] /\ SameNames(q)
        BY <3>2 DEF Starts, Same, SameNames
      <4> QED
        BY <1>2, <2>1, <4>1, <4>2
    <3> QED
      BY <2>2, <3>1, <3>2, SpawnEffect
  <2>3. CASE HandoffWindow(h)
    BY <1>2, <2>1, <2>3, HandoffEffect
  <2>4. CASE RequestShutdown(h) \/ ServerStarted(h)
    BY <1>2, <2>1, <2>4, TellEffect DEF Tells
  <2>5. CASE ~(Spawn(h) \/ HandoffWindow(h) \/ RequestShutdown(h) \/ ServerStarted(h))
    BY <1>2, <1>4, <2>1, <2>5, QuietEffect DEF Same, SameNames
  <2> QED
    BY <2>2, <2>3, <2>4, <2>5
<1>5. ASSUME NEW w \in NativeWindows, NativeEnds(w) PROVE NameInv'
  BY <1>2, <1>5 DEF NativeEnds, dirVars, SameNames
<1>6. ASSUME NEW p \in Processes, Crash(p) PROVE NameInv'
  <2>1. path' = path /\ \A q \in Servers : Same(q) \/ Gone(q)
    BY <1>6, CrashEffect
  <2> QED
    BY <1>2, <2>1 DEF Same, SameNames, Gone
<1>7. ASSUME NEW p \in Processes, Reuse(p) PROVE NameInv'
  BY <1>2, <1>7 DEF Reuse, dirVars, serverVars, SameNames
<1>8. CASE UNCHANGED vars
  BY <1>2, <1>8 DEF vars, dirVars, serverVars, SameNames
<1> QED
  BY <1>3, <1>4, <1>5, <1>6, <1>7, <1>8 DEF Next, AnyHelperStep

(* A helper writes the lock file only, and removes either.                 *)
LEMMA HelperRecords ==
  ASSUME TypeInv, ControlInv, NEW h \in Helpers, AnyHelperStep(h)
  PROVE  /\ file'["pid"] \in {file["pid"], NoPid}
         /\ file'["pid"] # file["pid"] => Unlink(h) /\ RecordFile(h) = "pid"
<1>0. file \in [{"lock", "pid"} -> Pids]
  BY DEF TypeInv, DirTypes
<1>1. CASE InstallLock(h)
  BY <1>0, <1>1 DEF InstallLock
<1>2. CASE Unlink(h)
  BY <1>0, <1>2 DEF Unlink, RecordFile
<1>3. CASE ~(InstallLock(h) \/ Unlink(h))
  BY <1>3 DEF AnyHelperStep, HelperStep, JudgeRecord, Recheck, Start,
         LockTimeout, ServerFound, ServerSilent, Snapshot, HandoffWindow, HandoffFails,
         RequestShutdown, ServerExited, ExitTimeout, FinalCheck, ProbePath, ComparePath,
         UnlinkPath, RemoveName, Spawn, ServerStarted, StartTimeout, End, dirVars
<1> QED
  BY <1>1, <1>2, <1>3

LEMMA PidStep ==
  ASSUME TypeInv, LockInv, PidInv, [Next]_vars
  PROVE  PidInv'
<1>0. file \in [{"lock", "pid"} -> Pids] /\ NoPid \notin Servers
  BY SessionAssumption DEF TypeInv, DirTypes
<1>1. ASSUME file'["pid"] \in {file["pid"], NoPid},
             \A s \in Servers : at'[s] = at[s] \/ at'[s] = "gone"
      PROVE  PidInv'
  BY <1>0, <1>1 DEF PidInv, Starting
<1>2. ASSUME NEW s \in Servers, ServerStep(s) \/ Republish(s) PROVE PidInv'
  <2>1. \A q \in Servers \ {s} : at'[q] = at[q]
    BY <1>2, ServerAlone DEF Same
  <2>2. CASE Records(s)
    <3>1. at'[s] = "restore" /\ file'["pid"] = s
      BY <1>0, <2>2 DEF Records, Turns
    <3> QED
      BY <2>1, <3>1 DEF PidInv, Starting
  <2>3. CASE ~Records(s)
    <3>1. /\ file' = file \/ file' = [file EXCEPT !["pid"] = NoPid]
          /\ at'[s] \in Starting \ {"restore"} => at[s] \in Starting \ {"restore"}
      BY <1>2, <2>3, ServerEffects
         DEF Boots, Clears, Binds, Restores, Resigns, Closes, Unnames, Leaves, Notices, Rebinds,
             Installs, Undoes, Turns, SamePlace, SameDir, Gone, Starting
    <3>2. file'["pid"] \in {file["pid"], NoPid}
      BY <1>0, <3>1
    <3> QED
      BY <1>0, <2>1, <3>1, <3>2 DEF PidInv
  <2> QED
    BY <2>2, <2>3
<1>3. ASSUME NEW h \in Helpers, AnyHelperStep(h) PROVE PidInv'
  <2>1. file'["pid"] \in {file["pid"], NoPid}
    BY <1>3, HelperRecords DEF LockInv
  <2>2. CASE Spawn(h)
    <3>1. CASE SpawnFails(h)
      BY <1>1, <2>1, <3>1 DEF SpawnFails, Same
    <3>2. ASSUME NEW s \in Servers, Starts(h, s) PROVE PidInv'
      <4>1. file'["pid"] # s
        BY <2>1, <3>2, <1>0 DEF Starts, LockInv, FileInv
      <4>2. \A q \in Servers \ {s} : at'[q] = at[q]
        BY <3>2 DEF Starts, Same
      <4> QED
        BY <1>0, <2>1, <4>1, <4>2 DEF PidInv
    <3> QED
      BY <2>2, <3>1, <3>2, SpawnEffect
  <2>3. CASE HandoffWindow(h)
    BY <1>1, <2>1, <2>3, HandoffEffect
  <2>4. CASE RequestShutdown(h) \/ ServerStarted(h)
    BY <1>1, <2>1, <2>4, TellEffect DEF Tells
  <2>5. CASE ~(Spawn(h) \/ HandoffWindow(h) \/ RequestShutdown(h) \/ ServerStarted(h))
    BY <1>1, <1>3, <2>1, <2>5, QuietEffect DEF Same
  <2> QED
    BY <2>2, <2>3, <2>4, <2>5
<1>4. ASSUME NEW w \in NativeWindows, NativeEnds(w) PROVE PidInv'
  BY <1>1, <1>4 DEF NativeEnds, dirVars
<1>5. ASSUME NEW p \in Processes, Crash(p) PROVE PidInv'
  BY <1>1, <1>5, CrashEffect DEF Same, Gone
<1>6. ASSUME NEW p \in Processes, Reuse(p) PROVE PidInv'
  BY <1>1, <1>6 DEF Reuse, dirVars, serverVars
<1>7. CASE UNCHANGED vars
  BY <1>1, <1>7 DEF vars, dirVars, serverVars
<1> QED
  BY <1>2, <1>3, <1>4, <1>5, <1>6, <1>7 DEF Next, AnyHelperStep

(***************************************************************************)
(* Who starts a server, and when                                           *)
(***************************************************************************)
\* Before a successor is started, nothing of the helpers' version runs.
NoneYet == Calm => \A h \in Helpers, s \in Servers :
  Updating(h) /\ hpc[h] # "awaitServer" => ~Active(s)

\* What then runs is the successor.
Successor == Calm => \A h \in Helpers, s \in Servers :
  Updating(h) /\ hpc[h] = "awaitServer" /\ Active(s) => s = spawned[h]

\* As long as a server that is to be replaced serves its windows.
Undisturbed(o) ==
  /\ displaced = {}
  /\ \A s \in Servers : Alive(s) /\ s # o =>
       Active(s) /\ ~told[s] /\ hosted[o] \subseteq restore[s] \cup hosted[s] \cup refused
  /\ path # 0 => \E s \in Servers : path \in open[s]
  /\ file["pid"] \in Servers /\ Alive(file["pid"])

Cautious(h, o) ==
  /\ hpc[h] \notin {"compare", "unlinkPath"}
  /\ hpc[h] = "probe" => purpose[h] = "gcSocket"
  /\ purpose[h] = "owner" => hpc[h] \in {"judge", "requery", "snapshot"}
  /\ purpose[h] = "old" =>
       /\ hosted[o] \subseteq plan[h].windows
       /\ hpc[h] \notin {"recheck", "unlink"}
       /\ ~plan[h].legacyHandoff => hpc[h] \in {"judge", "shutdown", "awaitExit"}
       /\ ~plan[h].legacyHandoff /\ hpc[h] # "judge" => plan[h].old = o

OldInv == Calm => \A o \in Servers :
  Outlived(o) => Undisturbed(o) /\ \A h \in Helpers : Cautious(h, o)

\* A helper that found no server goes on only if it was mistaken about one.
Mistaken(h) ==
  /\ hpc[h] \notin {"probe", "unlinkPath", "spawn"}
  /\ hpc[h] \in {"judge", "recheck", "unlink"} => disturbances > 0 \/ "path" \in displaced
  /\ hpc[h] = "final" => disturbances > 0 /\ "pid" \in displaced

OwnerInv == Tracked => \A h \in Helpers, s \in Servers :
  Alive(h) /\ purpose[h] = "owner" /\ Active(s) => Mistaken(h)

\* One server starts or serves; if it starts, its helper waits for it.
WaitInv == Tracked => \A h \in Helpers, s \in Servers :
  Waiting(h) /\ Active(s) => s = spawned[h]

OneInv == Tracked => \A s \in Servers : Active(s) =>
  /\ \A q \in Servers : Active(q) => q = s
  /\ at[s] # "serving" => \E h \in Helpers : Waiting(h)

\* It keeps its name and its pid, unless an outgoing server or gc is late.
ReachedInv == Tracked /\ "path" \notin displaced => \A s \in Servers :
  Active(s) /\ at[s] \in {"record", "restore", "serving"} => path \in open[s] /\ rpc[s] = "idle"

RecordedInv == Tracked /\ "pid" \notin displaced => \A s \in Servers :
  Active(s) /\ at[s] \in {"restore", "serving"} => file["pid"] = s

\* A window is in a server that goes on, or on its way to one.
Hosts(s, w) == at[s] = "serving" /\ ~told[s] /\ w \in hosted[s]
KeptInv == Calm => \A w \in workspace \ (ended \cup refused) :
  (\E s \in Servers : Hosts(s, w)) \/ \E h \in Helpers : Updating(h) /\ w \in plan[h].windows

Carries(s, ws) == /\ ~told[s]
                  /\ at[s] = "serving" => ws \ (ended \cup refused) \subseteq hosted[s]
                  /\ at[s] # "serving" => restore[s] = ws
CarriedInv == Calm => \A h \in Helpers, s \in Servers :
  Updating(h) /\ hpc[h] = "awaitServer" /\ Active(s) => Carries(s, plan[h].windows)

LostInv == displaced \subseteq {"path", "pid"}

BaseInv  == TypeInv /\ LockInv /\ RouteInv /\ PartInv /\ NameInv /\ PidInv /\ LostInv
ServeInv == /\ NoneYet /\ Successor /\ OldInv /\ OwnerInv /\ WaitInv /\ OneInv /\ ReachedInv
            /\ RecordedInv /\ KeptInv /\ CarriedInv

LEMMA InitServe == Init => LostInv /\ ServeInv
<1> SUFFICES ASSUME Init PROVE LostInv /\ ServeInv
  OBVIOUS
<1>1. PICK served \in BOOLEAN, v \in {"current", "older"}, c \in BOOLEAN,
           ws \in Workspaces, left \in Crashed \cup {NoPid} :
        LET Of(x, y) == [s \in Servers |-> IF served /\ s = Outgoing THEN x ELSE y] IN
        /\ ~served => v = "current"
        /\ v = "current" => c
        /\ life = [p \in Processes |-> IF served /\ p = Outgoing THEN "alive"
                                   ELSE IF p \in Crashed THEN "dead" ELSE "none"]
        /\ at = Of("serving", "gone") /\ version = Of(v, "current")
        /\ shutdownOK = Of(c, TRUE) /\ hosted = Of(ws, {})
        /\ open = Of({1}, {}) /\ identity = Of(1, 0)
        /\ path = (IF served THEN 1 ELSE 0)
        /\ file = [f \in {"lock", "pid"} |-> IF f = "lock" THEN left
                                            ELSE IF served THEN Outgoing ELSE NoPid]
        /\ disturbances = IF left = NoPid THEN 0 ELSE 1
        /\ left # NoPid => ~served /\ MaxDisturbances > 0
        /\ workspace = IF served THEN ws ELSE {}
  BY Zenon DEF Init
<1>2. /\ told = [s \in Servers |-> FALSE] /\ rpc = [s \in Servers |-> "idle"] /\ displaced = {}
      /\ hpc = [h \in Helpers |-> "end"] /\ purpose = [h \in Helpers |-> "lock"]
  BY DEF Init
<1>3. \A s \in Servers :
        IF served /\ s = Outgoing
        THEN /\ at[s] = "serving" /\ version[s] = v /\ open[s] = {1} /\ Alive(s) /\ rpc[s] = "idle"
             /\ hosted[s] = ws /\ ~told[s]
        ELSE at[s] = "gone" /\ ~Alive(s)
  BY <1>1, <1>2 DEF Alive, Processes
<1>4. \A h \in Helpers : ~Alive(h) /\ hpc[h] = "end" /\ purpose[h] = "lock"
  BY <1>1, <1>2, SessionAssumption DEF Alive, Processes
<1>5. file["pid"] = (IF served THEN Outgoing ELSE NoPid) /\ path = (IF served THEN 1 ELSE 0)
      /\ workspace = IF served THEN ws ELSE {}
  BY <1>1
<1>6. NoneYet /\ Successor /\ OwnerInv /\ WaitInv /\ CarriedInv
  BY <1>4 DEF NoneYet, Successor, OwnerInv, WaitInv, CarriedInv, Updating, Waiting
<1>7. OneInv
  BY <1>3 DEF OneInv, Active, Starting
<1>8. ReachedInv /\ RecordedInv
  BY <1>3, <1>5 DEF ReachedInv, RecordedInv, Active, Starting
<1>9. OldInv
  <2>1. ASSUME NEW o \in Servers, Outlived(o)
        PROVE  Undisturbed(o) /\ \A h \in Helpers : Cautious(h, o)
    <3>1. served /\ o = Outgoing
      BY <1>3, <2>1 DEF Outlived
    <3> QED
      BY <1>2, <1>3, <1>4, <1>5, <3>1, SessionAssumption DEF Undisturbed, Cautious
  <2> QED
    BY <2>1 DEF OldInv
<1>10. KeptInv
  BY <1>3, <1>5, SessionAssumption DEF KeptInv, Hosts
<1> QED
  BY <1>2, <1>6, <1>7, <1>8, <1>9, <1>10 DEF LostInv, ServeInv

LEMMA LostStep == LostInv /\ [Next]_vars => LostInv'
<1> SUFFICES ASSUME LostInv, [Next]_vars PROVE LostInv'
  OBVIOUS
<1>1. displaced' \subseteq displaced \cup {"path", "pid"}
  <2>1. CASE \E h \in Helpers : Start(h) \/ LockTimeout(h) \/ ExitTimeout(h) \/ HelperStep(h)
    BY <2>1 DEF HelperStep, InstallLock, JudgeRecord, Recheck, Unlink, Start,
       LockTimeout, ServerFound, ServerSilent, Snapshot, HandoffWindow, HandoffFails,
       RequestShutdown, ServerExited, ExitTimeout, FinalCheck, ProbePath, ComparePath,
       UnlinkPath, RemoveName, Spawn, ServerStarted, StartTimeout, End, history
  <2>2. CASE \E s \in Servers : ServerStep(s) \/ Republish(s)
    BY <2>2 DEF ServerStep, Republish, ReadRestore, AskOther, ClearName, Listen, RecordPid,
       RestoreWindows, RestoreFails, CloseServer, CheckPath, UnlinkOwnPath, JoinAndForget,
       UnlinkPid, NoticeMissing, Rebind, InstallListener, UndoRebind, RemoveName, history
  <2>3. CASE \/ \E w \in NativeWindows : NativeEnds(w)
             \/ \E p \in Processes : Crash(p) \/ Reuse(p)
             \/ UNCHANGED vars
    BY <2>3 DEF NativeEnds, Crash, Reuse, history, vars
  <2> QED
    BY <2>1, <2>2, <2>3 DEF Next
<1> QED
  BY <1>1 DEF LostInv

LEMMA BaseStep == BaseInv /\ [Next]_vars => BaseInv'
<1> SUFFICES ASSUME BaseInv, [Next]_vars PROVE BaseInv'
  OBVIOUS
<1>1. TypeInv' /\ LockInv' /\ NameInv' /\ PidInv' /\ LostInv'
  BY SessionStep, NameStep, PidStep, LostStep DEF BaseInv
<1>2. RouteInv'
  <2>1. CASE UNCHANGED vars
    BY <2>1, RouteKeeps DEF BaseInv, vars, bootVars
  <2> QED
    BY <2>1, RouteStep, RouteOtherStep DEF BaseInv, Next, AnyHelperStep
<1>3. PartInv'
  <2>1. CASE UNCHANGED vars
    BY <2>1 DEF BaseInv, PartInv, vars, bootVars, serverVars, history
  <2> QED
    BY <2>1, PartServerStep, PartHelperStep, PartFaultStep DEF BaseInv, Next, AnyHelperStep
<1> QED
  BY <1>1, <1>2, <1>3 DEF BaseInv

(* What has gone wrong stays so.                                           *)
LEMMA Lasting ==
  ASSUME BaseInv, [Next]_vars
  PROVE  /\ mishap => mishap'
         /\ raced => raced'
         /\ displaced \subseteq displaced' /\ disturbances <= disturbances'
         /\ Calm' => Calm
         /\ Tracked' => Tracked
<1>0. disturbances \in Nat /\ LostInv /\ LostInv'
  BY LostStep, SessionAssumption DEF BaseInv, TypeInv, DirTypes
<1>1. CASE UNCHANGED vars
  BY <1>0, <1>1 DEF vars, faultVars, history, Calm, Tracked
<1>2. ASSUME mishap => mishap', raced => raced', displaced \subseteq displaced',
             disturbances' \in {disturbances, disturbances + 1}
      PROVE  /\ mishap => mishap'
             /\ raced => raced'
             /\ displaced \subseteq displaced' /\ disturbances <= disturbances'
             /\ Calm' => Calm
             /\ Tracked' => Tracked
  <2>1. disturbances <= disturbances' /\ disturbances' \in Nat
    BY <1>0, <1>2
  <2>2. Calm' => Calm
    BY <1>2 DEF Calm
  <2>3. displaced' # {"path", "pid"} => displaced # {"path", "pid"}
    BY <1>0, <1>2 DEF LostInv
  <2> QED
    BY <1>0, <1>2, <2>1, <2>2, <2>3 DEF Tracked
<1>3. ASSUME NEW h \in Helpers, AnyHelperStep(h)
      PROVE  /\ mishap => mishap'
             /\ raced => raced'
             /\ displaced \subseteq displaced'
             /\ disturbances' \in {disturbances, disturbances + 1}
  <2>1. mishap => mishap'
    BY <1>3 DEF AnyHelperStep, HelperStep, InstallLock, JudgeRecord, Recheck, Unlink, Start,
         LockTimeout, ServerFound, ServerSilent, Snapshot, HandoffWindow, HandoffFails,
         RequestShutdown, ServerExited, ExitTimeout, FinalCheck, ProbePath, ComparePath,
         UnlinkPath, RemoveName, Spawn, ServerStarted, StartTimeout, End, faultVars
  <2>2. raced => raced'
    BY <1>3 DEF AnyHelperStep, HelperStep, InstallLock, JudgeRecord, Recheck, Unlink, Start,
         LockTimeout, ServerFound, ServerSilent, Snapshot, HandoffWindow, HandoffFails,
         RequestShutdown, ServerExited, ExitTimeout, FinalCheck, ProbePath, ComparePath,
         UnlinkPath, RemoveName, Spawn, ServerStarted, StartTimeout, End, history
  <2>3. displaced \subseteq displaced'
    BY <1>3 DEF AnyHelperStep, HelperStep, InstallLock, JudgeRecord, Recheck, Unlink, Start,
         LockTimeout, ServerFound, ServerSilent, Snapshot, HandoffWindow, HandoffFails,
         RequestShutdown, ServerExited, ExitTimeout, FinalCheck, ProbePath, ComparePath,
         UnlinkPath, RemoveName, Spawn, ServerStarted, StartTimeout, End, history
  <2>4. disturbances' \in {disturbances, disturbances + 1}
    BY <1>3 DEF AnyHelperStep, HelperStep, InstallLock, JudgeRecord, Recheck, Unlink, Start,
         LockTimeout, ServerFound, ServerSilent, Snapshot, HandoffWindow, HandoffFails,
         RequestShutdown, ServerExited, ExitTimeout, FinalCheck, ProbePath, ComparePath,
         UnlinkPath, RemoveName, Spawn, ServerStarted, StartTimeout, End, faultVars, TakesTime, Disturbed
  <2> QED
    BY <2>1, <2>2, <2>3, <2>4
<1>4. ASSUME NEW s \in Servers, ServerStep(s) \/ Republish(s)
      PROVE  /\ mishap => mishap'
             /\ raced => raced'
             /\ displaced \subseteq displaced'
             /\ disturbances' \in {disturbances, disturbances + 1}
  BY <1>4, ServerAlone DEF BaseInv
<1>5. ASSUME (\E w \in NativeWindows : NativeEnds(w)) \/ (\E p \in Processes : Crash(p) \/ Reuse(p))
      PROVE  /\ mishap => mishap'
             /\ raced => raced'
             /\ displaced \subseteq displaced'
             /\ disturbances' \in {disturbances, disturbances + 1}
  BY <1>5 DEF NativeEnds, Crash, Reuse, faultVars, history, Disturbed
<1>6. (\E h \in Helpers : AnyHelperStep(h)) \/ (\E s \in Servers : ServerStep(s) \/ Republish(s))
      \/ (\E w \in NativeWindows : NativeEnds(w)) \/ (\E p \in Processes : Crash(p) \/ Reuse(p))
      \/ UNCHANGED vars
  BY DEF Next, AnyHelperStep
<1> QED
  BY <1>1, <1>2, <1>3, <1>4, <1>5, <1>6

(* A helper's step is its own.                                             *)
LEMMA OnlyItself ==
  ASSUME TypeInv, NEW h \in Helpers, AnyHelperStep(h)
  PROVE  /\ OnlyMoves(h) /\ UNCHANGED <<ended, workspace, refused>>
         /\ \A g \in Helpers \ {h} : life'[g] = life[g]
<1>0. HelperTypes /\ life \in [Processes -> {"none", "alive", "dead", "reused"}]
      /\ Helpers \cap Servers = {}
  BY SessionAssumption DEF TypeInv, DirTypes
<1>1. UNCHANGED <<ended, workspace, refused>>
  BY DEF AnyHelperStep, HelperStep, InstallLock, JudgeRecord, Recheck, Unlink, Start,
         LockTimeout, ServerFound, ServerSilent, Snapshot, HandoffWindow, HandoffFails,
         RequestShutdown, ServerExited, ExitTimeout, FinalCheck, ProbePath, ComparePath,
         UnlinkPath, Spawn, ServerStarted, StartTimeout, End, history
<1>2. \A g \in Helpers \ {h} : life'[g] = life[g]
  <2>1. CASE Spawn(h)
    <3>1. life' = life \/ \E s \in Servers : life' = [life EXCEPT ![s] = "alive"]
      BY <2>1 DEF Spawn
    <3> QED
      BY <1>0, <3>1 DEF Processes
  <2>2. CASE ~Spawn(h)
    <3>1. life' = life \/ \E l : life' = [life EXCEPT ![h] = l]
      BY <2>2 DEF AnyHelperStep, HelperStep, InstallLock, JudgeRecord, Recheck, Unlink, Start,
         LockTimeout, ServerFound, ServerSilent, Snapshot, HandoffWindow, HandoffFails,
         RequestShutdown, ServerExited, ExitTimeout, FinalCheck, ProbePath, ComparePath,
         UnlinkPath, ServerStarted, StartTimeout, End
    <3> QED
      BY <1>0, <3>1 DEF Processes
  <2> QED
    BY <2>1, <2>2
<1>3. ASSUME NEW g \in Helpers \ {h}
      PROVE  hpc'[g] = hpc[g] /\ purpose'[g] = purpose[g]
  <2>1. CASE JudgeRecord(h)
    <3>1. UNCHANGED purpose /\ \E p : hpc' = [hpc EXCEPT ![h] = p]
      BY <2>1 DEF JudgeRecord
    <3> QED
      BY <1>0, <3>1 DEF HelperTypes
  <2>2. CASE ~JudgeRecord(h)
    <3>1. hpc'[g] = hpc[g]
      <4>1. CASE InstallLock(h) \/ Recheck(h) \/ Unlink(h) \/ LockTimeout(h)
        BY <1>0, <4>1 DEF InstallLock, Recheck, Unlink, LockTimeout, HelperTypes
      <4>5. CASE Start(h)
        BY <1>0, <4>5 DEF Start, HelperTypes
      <4>6. CASE ServerFound(h) \/ ServerSilent(h)
        <5>1. \E p : hpc' = [hpc EXCEPT ![h] = p]
          BY <4>6 DEF ServerFound, ServerSilent, Return
        <5> QED
          BY <1>0, <5>1 DEF HelperTypes
      <4>8. CASE HandoffWindow(h)
        <5>1. hpc' = hpc \/ \E p : hpc' = [hpc EXCEPT ![h] = p]
          BY <4>8 DEF HandoffWindow
        <5> QED
          BY <1>0, <5>1 DEF HelperTypes
      <4>7. CASE Snapshot(h)
        BY <1>0, <4>7 DEF Snapshot, Return, HelperTypes
      <4>2. CASE HandoffFails(h) \/ RequestShutdown(h) \/ ServerExited(h) \/ ExitTimeout(h)
                 \/ FinalCheck(h) \/ ProbePath(h) \/ ComparePath(h) \/ UnlinkPath(h)
        BY <1>0, <4>2 DEF HandoffFails, RequestShutdown, ServerExited, ExitTimeout,
           FinalCheck, ProbePath, ComparePath, UnlinkPath, Return, HelperTypes
      <4>3. CASE Spawn(h) \/ ServerStarted(h) \/ StartTimeout(h) \/ End(h)
        BY <1>0, <4>3 DEF Spawn, ServerStarted, StartTimeout, End, Return, Forgets, HelperTypes
      <4> QED
        BY <2>2, <4>1, <4>2, <4>3, <4>5, <4>6, <4>7, <4>8 DEF AnyHelperStep, HelperStep
    <3>2. purpose'[g] = purpose[g]
      BY <1>0, <2>2 DEF AnyHelperStep, HelperStep, InstallLock, Recheck, Unlink, Start,
         LockTimeout, ServerFound, ServerSilent, Snapshot, HandoffWindow, HandoffFails,
         RequestShutdown, ServerExited, ExitTimeout, FinalCheck, ProbePath, ComparePath,
         UnlinkPath, Spawn, ServerStarted, StartTimeout, End, Return, Forgets, HelperTypes
    <3> QED
      BY <3>1, <3>2
  <2> QED
    BY <2>1, <2>2
<1>4. ASSUME NEW g \in Helpers \ {h}
      PROVE  plan'[g] = plan[g] /\ target'[g] = target[g] /\ spawned'[g] = spawned[g]
  BY <1>0 DEF AnyHelperStep, HelperStep, InstallLock, JudgeRecord, Recheck, Unlink, Start,
         LockTimeout, ServerFound, ServerSilent, Snapshot, HandoffWindow, HandoffFails,
         RequestShutdown, ServerExited, ExitTimeout, FinalCheck, ProbePath, ComparePath,
         UnlinkPath, Spawn, ServerStarted, StartTimeout, End, Return, Forgets, HelperTypes
<1> QED
  BY <1>1, <1>2, <1>3, <1>4 DEF OnlyMoves

\* A helper that is past the lock and has not let go of it.
InHand(h) == /\ Alive(h)
             /\ \/ purpose[h] \in {"owner", "old"}
                \/ hpc[h] \in {"query", "requery", "snapshot", "spawn", "awaitServer"}

LEMMA OneHolder ==
  ASSUME BaseInv, Calm, NEW g \in Helpers, NEW h \in Helpers, InHand(g), InHand(h)
  PROVE  g = h
<1>1. ASSUME NEW x \in Helpers, InHand(x) PROVE Holds(x)
  <2>1. Routed(hpc[x], purpose[x]) /\ Fits(hpc[x], purpose[x]) /\ Alive(x)
    BY <1>1 DEF BaseInv, RouteInv, LockInv, ControlInv, InHand
  <2> QED
    BY <1>1, <2>1 DEF InHand, Holds, Routed, Fits
<1> QED
  BY <1>1 DEF BaseInv, LockInv, HolderRecorded, Calm

\* A step of nobody, of a server, of a window that ends, or of a pid.
OtherStep == \/ \E s \in Servers : ServerStep(s) \/ Republish(s)
             \/ \E w \in NativeWindows : NativeEnds(w)
             \/ \E p \in Processes : Reuse(p)
             \/ UNCHANGED vars

HelpersStay == UNCHANGED helperVars /\ \A h \in Helpers : life'[h] = "alive" <=> life[h] = "alive"

Fewer == \A s \in Servers :
  life'[s] = "alive" /\ version'[s] = "current" /\ at'[s] \in Starting \cup {"serving"} =>
    Active(s) /\ (at'[s] # "serving" => at[s] # "serving")

LEMMA Bystanders ==
  ASSUME BaseInv, OtherStep
  PROVE  HelpersStay /\ Fewer /\ (mishap => mishap') /\ UNCHANGED <<disturbances, raced>>
<1>0. DirTypes /\ Helpers \cap Servers = {}
  BY SessionAssumption DEF BaseInv, TypeInv
<1>1. ASSUME NEW s \in Servers, ServerStep(s) \/ Republish(s)
      PROVE  HelpersStay /\ Fewer /\ (mishap => mishap') /\ UNCHANGED <<disturbances, raced>>
  <2>1. /\ Alive(s) /\ Elsewhere(s) /\ \A q \in Servers \ {s} : Same(q)
        /\ (mishap => mishap') /\ UNCHANGED <<helperVars, disturbances, raced>>
    BY <1>1, ServerAlone DEF BaseInv
  <2>2. life'[s] = "alive" /\ version'[s] = "current" /\ at'[s] \in Starting \cup {"serving"} =>
          Active(s) /\ (at'[s] # "serving" => at[s] # "serving")
    BY <1>1, <2>1, ServerEffects
       DEF BaseInv, Boots, Clears, Binds, Records, Restores, Resigns, Closes, Unnames, Leaves,
           Notices, Rebinds, Installs, Undoes, Turns, SamePlace, SameLife, Gone, Active, Starting
  <2>3. Fewer
    BY <2>1, <2>2 DEF Fewer, Same, Active, Alive
  <2> QED
    BY <1>0, <2>1, <2>3 DEF HelpersStay, Elsewhere, Processes
<1>2. ASSUME UNCHANGED <<helperVars, version, at, disturbances, mishap, raced>>,
             \A p \in Processes : life'[p] = life[p] \/ (life[p] = "dead" /\ life'[p] = "reused")
      PROVE  HelpersStay /\ Fewer /\ (mishap => mishap') /\ UNCHANGED <<disturbances, raced>>
  <2>1. \A p \in Processes : life'[p] = "alive" <=> life[p] = "alive"
    BY <1>2
  <2> QED
    BY <1>2, <2>1 DEF HelpersStay, Fewer, Processes, Active, Alive
<1>3. ASSUME NEW w \in NativeWindows, NativeEnds(w)
      PROVE  HelpersStay /\ Fewer /\ (mishap => mishap') /\ UNCHANGED <<disturbances, raced>>
  BY <1>2, <1>3 DEF NativeEnds, bootVars, faultVars
<1>4. ASSUME NEW p \in Processes, Reuse(p)
      PROVE  HelpersStay /\ Fewer /\ (mishap => mishap') /\ UNCHANGED <<disturbances, raced>>
  <2>1. /\ UNCHANGED <<helperVars, version, at, disturbances, mishap, raced>> /\ life[p] = "dead"
        /\ life' = [life EXCEPT ![p] = "reused"]
    BY <1>4 DEF Reuse, bootVars, serverVars, faultVars, history
  <2>2. \A q \in Processes : life'[q] = life[q] \/ (life[q] = "dead" /\ life'[q] = "reused")
    BY <1>0, <2>1 DEF DirTypes
  <2> QED
    BY <1>2, <2>1, <2>2
<1>5. CASE UNCHANGED vars
  BY <1>2, <1>5 DEF vars, bootVars, serverVars, faultVars, history
<1> QED
  BY <1>1, <1>3, <1>4, <1>5 DEF OtherStep

LEMMA FewerActive ==
  ASSUME BaseInv, OtherStep
  PROVE  /\ \A h \in Helpers : Updating(h)' => Updating(h)
         /\ \A h \in Helpers : Waiting(h)' <=> Waiting(h)
         /\ \A s \in Servers : Active(s)' => Active(s)
BY Bystanders DEF HelpersStay, Fewer, helperVars, Updating, Waiting, Active, Alive

LEMMA StartOtherStep ==
  ASSUME BaseInv, OtherStep, NoneYet, Successor, OwnerInv, WaitInv, OneInv
  PROVE  NoneYet' /\ Successor' /\ OwnerInv' /\ WaitInv' /\ OneInv'
<1>1. /\ UNCHANGED helperVars /\ (Calm' => Calm) /\ (Tracked' => Tracked)
      /\ \A h \in Helpers : Updating(h)' => Updating(h)
      /\ \A h \in Helpers : Waiting(h)' <=> Waiting(h)
      /\ \A s \in Servers : Active(s)' => Active(s)
      /\ displaced \subseteq displaced' /\ disturbances' = disturbances
  <2>1. [Next]_vars
    BY DEF OtherStep, Next
  <2> QED
    BY <2>1, Lasting, Bystanders, FewerActive DEF HelpersStay
<1>2. NoneYet' /\ Successor'
  BY <1>1 DEF NoneYet, Successor, helperVars
<1>3. OwnerInv'
  <2>1. \A h \in Helpers : (Alive(h) /\ purpose[h] = "owner")' => Alive(h) /\ purpose[h] = "owner"
    BY Bystanders DEF HelpersStay, helperVars, Alive
  <2>2. \A h \in Helpers : Mistaken(h) => Mistaken(h)'
    BY <1>1 DEF Mistaken, helperVars
  <2> QED
    BY <1>1, <2>1, <2>2 DEF OwnerInv
<1>4. WaitInv'
  BY <1>1 DEF WaitInv, helperVars
<1>5. OneInv'
  <2>1. \A s \in Servers : Active(s)' => (at'[s] # "serving" => at[s] # "serving")
    BY Bystanders DEF Fewer, Active, Alive
  <2> QED
    BY <1>1, <2>1 DEF OneInv
<1> QED
  BY <1>2, <1>3, <1>4, <1>5

LEMMA ReachedServerStep ==
  ASSUME BaseInv, OneInv, ReachedInv, Tracked, "path" \notin displaced',
         NEW q \in Servers, ServerStep(q) \/ Republish(q), NEW s \in Servers,
         Active(s)', at'[s] \in {"record", "restore", "serving"}
  PROVE  path' \in open'[s] /\ rpc'[s] = "idle"
<1>0. /\ TypeInv /\ ServerParts /\ NameInv /\ PartInv
  BY DEF BaseInv, TypeInv
<1>1. Active(s) /\ "path" \notin displaced /\ \A r \in Servers : Active(r) => r = s
  <2>1. displaced \subseteq displaced' /\ Active(s)
    BY <1>0, ServerAlone, FewerActive DEF OtherStep
  <2> QED
    BY <2>1 DEF OneInv
<1>2. at[s] \in {"record", "restore", "serving"} => path \in open[s] /\ rpc[s] = "idle" /\ path # 0
  BY <1>0, <1>1 DEF ReachedInv, NameInv
<1>3. CASE q = s
  <2>1. CASE Boots(s) \/ Clears(s) \/ Resigns(s) \/ Closes(s) \/ Unnames(s) \/ Leaves(s)
    BY <1>1, <1>3, <2>1 DEF Boots, Clears, Resigns, Closes, Unnames, Leaves, Turns, Gone, Active,
       Alive, Starting
  <2>2. CASE Binds(s)
    BY <1>0, <2>2 DEF Binds, PartInv, Starting
  <2>3. CASE Records(s) \/ Restores(s)
    BY <1>2, <2>3 DEF Records, Restores, Turns, SameNames, SameDir
  <2>4. CASE Notices(s) \/ Rebinds(s) \/ Installs(s) \/ Undoes(s)
    <3>1. at[s] = at'[s]
      BY <2>4 DEF Notices, Rebinds, Installs, Undoes, SamePlace
    <3> QED
      BY <1>2, <2>4, <3>1 DEF Notices, Rebinds, Installs, Undoes
  <2> QED
    BY <1>0, <1>3, ServerEffects, <2>1, <2>2, <2>3, <2>4
<1>4. CASE q # s
  <2>1. Same(s) /\ at[s] \in {"record", "restore", "serving"} /\ Alive(q)
    BY <1>0, <1>4, ServerAlone DEF Same
  <2>2. path \in open[s] /\ rpc[s] = "idle" /\ path # 0 /\ s \in Dialable
    BY <1>1, <1>2, <2>1 DEF Dialable, Active
  <2>3. ~RemoveName
    BY <2>2 DEF RemoveName
  <2>4. at[q] \notin Starting
    BY <1>0, <1>1, <1>4, <2>1 DEF Active, PartInv, TypeInv, ServerTypes, Starting
  <2>5. path' = path
    BY <1>0, <2>2, <2>3, <2>4, ServerEffects
       DEF Boots, Clears, Binds, Records, Restores, Resigns, Closes, Unnames, Leaves, Notices,
           Rebinds, Installs, Undoes, Turns, SameDir, Starting
  <2> QED
    BY <2>1, <2>2, <2>5 DEF Same
<1> QED
  BY <1>3, <1>4

LEMMA RecordedServerStep ==
  ASSUME BaseInv, OneInv, RecordedInv, Tracked, "pid" \notin displaced',
         NEW q \in Servers, ServerStep(q) \/ Republish(q), NEW s \in Servers,
         Active(s)', at'[s] \in {"restore", "serving"}
  PROVE  file'["pid"] = s
<1>0. TypeInv /\ PartInv /\ file \in [{"lock", "pid"} -> Pids] /\ NoPid \notin Servers
  BY SessionAssumption DEF BaseInv, TypeInv, DirTypes
<1>1. Active(s) /\ "pid" \notin displaced /\ \A r \in Servers : Active(r) => r = s
  <2>1. displaced \subseteq displaced' /\ Active(s)
    BY <1>0, ServerAlone, FewerActive DEF OtherStep
  <2> QED
    BY <2>1 DEF OneInv
<1>2. at[s] \in {"restore", "serving"} => file["pid"] = s
  BY <1>1 DEF RecordedInv
<1>3. CASE Records(q)
  <2>1. q = s
    BY <1>0, <1>1, <1>3, ServerAlone DEF Records, Turns, Active, PartInv, TypeInv, ServerTypes, Starting
  <2> QED
    BY <1>0, <1>3, <2>1 DEF Records
<1>4. CASE ~Records(q)
  <2>1. at[s] \in {"restore", "serving"} /\ (q = s => at[q] # "unlinkPid")
    <3>1. CASE q = s
      BY <1>0, <1>4, <3>1, ServerEffects
         DEF Boots, Clears, Binds, Restores, Resigns, Closes, Unnames, Leaves, Notices, Rebinds,
             Installs, Undoes, Turns, SamePlace, Gone, Active
    <3> QED
      BY <1>0, <3>1, ServerAlone DEF Same
  <2>2. file' = file \/ (at[q] = "unlinkPid" /\ (file["pid"] \in {q, NoPid}))
    BY <1>0, <1>4, <1>1, ServerEffects
       DEF Boots, Clears, Binds, Restores, Resigns, Closes, Unnames, Leaves, Notices, Rebinds,
           Installs, Undoes, SamePlace, SameDir
  <2> QED
    BY <1>0, <1>2, <2>1, <2>2
<1> QED
  BY <1>3, <1>4

LEMMA PlaceOtherStep ==
  ASSUME BaseInv, OtherStep, OneInv, ReachedInv, RecordedInv
  PROVE  ReachedInv' /\ RecordedInv'
<1>1. (Tracked' => Tracked) /\ displaced \subseteq displaced'
  <2>1. [Next]_vars
    BY DEF OtherStep, Next
  <2> QED
    BY <2>1, Lasting
<1>2. CASE \E q \in Servers : ServerStep(q) \/ Republish(q)
  BY <1>1, <1>2, ReachedServerStep, RecordedServerStep DEF ReachedInv, RecordedInv
<1>3. CASE ~\E q \in Servers : ServerStep(q) \/ Republish(q)
  <2>1. UNCHANGED <<file, path, at, open, rpc>>
    BY <1>3 DEF OtherStep, NativeEnds, Reuse, dirVars, serverVars, vars
  <2> QED
    BY <1>1, <2>1, FewerActive DEF ReachedInv, RecordedInv
<1> QED
  BY <1>2, <1>3

(***************************************************************************)
(* While the outgoing server serves                                        *)
(***************************************************************************)
LEMMA OldServerStep ==
  ASSUME BaseInv, OldInv, Calm, Calm', NEW q \in Servers, ServerStep(q) \/ Republish(q),
         NEW o \in Servers, Outlived(o)'
  PROVE  Undisturbed(o)' /\ \A h \in Helpers : Cautious(h, o)'
<1>0. /\ TypeInv /\ ServerParts /\ NameInv /\ PartInv /\ PidInv
      /\ file \in [{"lock", "pid"} -> Pids]
  BY DEF BaseInv, TypeInv, DirTypes
<1>1. /\ Alive(q) /\ UNCHANGED <<helperVars, ended>> /\ refused \subseteq refused'
      /\ \A s \in Servers \ {q} : Same(s)
  BY <1>0, ServerAlone
<1>2. Outlived(o) /\ hosted'[o] = hosted[o] /\ hosted[o] # {} /\ (o = q => SamePlace(q))
  <2>1. CASE o # q
    BY <1>1, <2>1 DEF Same, Outlived
  <2>2. CASE o = q
    <3>1. version'[q] = "older" /\ at'[q] = "serving" /\ hosted'[q] # {}
      BY <2>2 DEF Outlived
    <3>2. SamePlace(q)
      BY <1>0, <3>1, ServerEffects
         DEF Boots, Clears, Binds, Records, Restores, Resigns, Closes, Unnames, Leaves, Notices,
             Rebinds, Installs, Undoes, Turns, Gone, SameLife, PartInv, Starting
    <3> QED
      BY <2>2, <3>1, <3>2 DEF SamePlace, SameLife, SameWindows, Outlived
  <2> QED
    BY <2>1, <2>2
<1>3. Undisturbed(o) /\ \A h \in Helpers : Cautious(h, o)
  BY <1>2 DEF OldInv
<1>4. ASSUME NEW h \in Helpers PROVE Cautious(h, o)'
  BY <1>1, <1>2, <1>3 DEF Cautious, helperVars
<1>5. /\ rpc[q] # "undo"
      /\ q # o => /\ Active(q) /\ ~told[q] /\ hosted[o] \subseteq restore[q] \cup hosted[q] \cup refused
                  /\ at[q] \in Starting \cup {"serving"}
                  /\ hosted[q] # {} \/ at[q] # "serving" \/ Stranded(q)
  <2>1. q # o => Active(q) /\ ~told[q] /\ hosted[o] \subseteq restore[q] \cup hosted[q] \cup refused
    BY <1>1, <1>3 DEF Undisturbed
  <2>2. q # o /\ at[q] = "serving" => hosted[q] # {} \/ Stranded(q)
    BY <1>0, <1>2, <2>1 DEF PartInv, Starting, Stranded
  <2>3. rpc[q] # "undo"
    BY <1>0, <1>2, <2>1 DEF Active, PartInv, NameInv, Outlived
  <2> QED
    BY <2>1, <2>2, <2>3 DEF Active
<1>6. \/ SamePlace(q) /\ (Notices(q) \/ Rebinds(q) \/ Installs(q))
      \/ q # o /\ (Boots(q) \/ Clears(q) \/ Binds(q) \/ Records(q) \/ Restores(q))
  <2>1. /\ ~(Closes(q) /\ q # o) /\ ~(Unnames(q) /\ q # o) /\ ~(Leaves(q) /\ q # o) /\ ~Undoes(q)
        /\ ~Resigns(q)
    BY <1>5 DEF Closes, Unnames, Leaves, Undoes, Resigns, Turns, Starting, Calm
  <2>2. Notices(q) \/ Rebinds(q) \/ Installs(q) => SamePlace(q)
    BY DEF Notices, Rebinds, Installs
  <2>3. o = q => ~(Boots(q) \/ Clears(q) \/ Binds(q) \/ Records(q) \/ Restores(q) \/ Closes(q)
                   \/ Unnames(q) \/ Leaves(q))
    BY <1>2 DEF Boots, Clears, Binds, Records, Restores, Closes, Unnames, Leaves, Turns, SamePlace,
       Gone, Outlived
  <2> QED
    BY <1>0, <2>1, <2>2, <2>3, ServerEffects
<1>7. displaced' = {} /\ (file' = file \/ file' = [file EXCEPT !["pid"] = q])
  BY <1>3, <1>6 DEF Undisturbed, Notices, Rebinds, Installs, Boots, Clears, Binds, Records,
     Restores, SameDir
<1>8. ASSUME NEW s \in Servers, life'[s] = "alive", s # o
      PROVE  /\ Active(s)' /\ ~told'[s]
             /\ hosted'[o] \subseteq restore'[s] \cup hosted'[s] \cup refused'
  <2>1. CASE s # q
    <3>1. Same(s) /\ Active(s) /\ ~told[s] /\ hosted[o] \subseteq restore[s] \cup hosted[s] \cup refused
      BY <1>1, <1>3, <1>8, <2>1 DEF Same, Undisturbed, Alive
    <3> QED
      BY <1>1, <1>2, <3>1 DEF Same, Active, Alive
  <2>2. CASE s = q /\ (SamePlace(q) \/ Boots(q) \/ Clears(q) \/ Binds(q) \/ Records(q))
    BY <1>1, <1>2, <1>5, <1>8, <2>2 DEF SamePlace, SameLife, SameWindows, Boots, Clears, Binds,
       Records, Turns, Gone, Active, Alive, Starting
  <2>3. CASE s = q /\ Restores(q)
    <3>1. hosted[q] = {} /\ hosted[o] \cap ended = {}
      BY <1>0, <2>3 DEF Restores, ServerParts, PartInv
    <3>2. hosted[o] \subseteq restore[q] \cup refused
      BY <1>2, <1>5, <1>8, <2>3, <3>1
    <3>3. restore[q] \ ended \subseteq hosted'[q] \cup refused' /\ refused \subseteq refused'
      BY <2>3 DEF Restores
    <3> QED
      BY <1>2, <1>5, <1>8, <2>3, <3>1, <3>2, <3>3 DEF Restores, SameLife, Active, Alive
  <2> QED
    BY <1>6, <1>8, <2>1, <2>2, <2>3
<1>9. ASSUME path' # 0 PROVE \E s \in Servers : path' \in open'[s]
  <2>1. CASE path' \in open'[q]
    BY <2>1
  <2>2. CASE path' \notin open'[q]
    <3>1. path' = path
      BY <1>6, <1>9, <2>2 DEF Notices, Rebinds, Installs, Boots, Clears, Binds, Records,
         Restores, SameDir
    <3>2. PICK s \in Servers : path \in open[s]
      BY <1>3, <1>9, <3>1 DEF Undisturbed
    <3>3. s # q
      <4>1. CASE Boots(q) \/ Clears(q) \/ Binds(q) \/ Records(q) \/ Restores(q)
        BY <1>0, <2>2, <3>1, <3>2, <4>1 DEF Boots, Clears, Binds, Records, Restores, Turns,
           SameNames, NameInv
      <4>2. CASE Notices(q) \/ Rebinds(q)
        BY <2>2, <3>1, <3>2, <4>2 DEF Notices, Rebinds
      <4>3. CASE Installs(q)
        <5>1. at[q] = "serving" /\ rpc[q] = "bound" /\ open'[q] = {rebound[q]}
          BY <1>0, <1>2, <1>5, <4>3 DEF Installs, PartInv, Outlived
        <5>2. path # identity[q] /\ open[q] \subseteq {identity[q], rebound[q]}
          BY <1>0, <5>1 DEF NameInv, ServerParts
        <5> QED
          BY <2>2, <3>1, <3>2, <5>1, <5>2
      <4> QED
        BY <1>6, <4>1, <4>2, <4>3
    <3> QED
      BY <1>1, <3>1, <3>2, <3>3 DEF Same
  <2> QED
    BY <2>1, <2>2
<1>10. file'["pid"] \in Servers /\ life'[file'["pid"]] = "alive"
  <2>1. file["pid"] \in Servers /\ Alive(file["pid"])
    BY <1>3 DEF Undisturbed
  <2>2. CASE file' = [file EXCEPT !["pid"] = q] /\ life'[q] = "alive"
    BY <1>0, <2>2
  <2>3. CASE file' = file /\ file["pid"] # q
    BY <1>1, <2>1, <2>3 DEF Same, Alive
  <2>4. CASE file' = file /\ life'[q] = "alive"
    BY <1>1, <2>1, <2>4 DEF Same, Alive
  <2>5. life'[q] = "alive" \/ (file' = file /\ file["pid"] # q)
    BY <1>0, <1>1, <1>6 DEF Boots, Clears, Binds, Records, Restores, Turns, SameLife, SamePlace,
       SameDir, Alive, PidInv, Starting
  <2> QED
    BY <1>7, <2>2, <2>3, <2>4, <2>5
<1>11. Undisturbed(o)'
  BY <1>7, <1>8, <1>9, <1>10 DEF Undisturbed, Alive
<1> QED
  BY <1>4, <1>11

LEMMA OldOtherStep ==
  ASSUME BaseInv, OtherStep, OldInv
  PROVE  OldInv'
<1>1. Calm' => Calm
  <2>1. [Next]_vars
    BY DEF OtherStep, Next
  <2> QED
    BY <2>1, Lasting
<1>2. CASE \E q \in Servers : ServerStep(q) \/ Republish(q)
  BY <1>1, <1>2, OldServerStep DEF OldInv
<1>3. CASE ~\E q \in Servers : ServerStep(q) \/ Republish(q)
  <2>1. /\ UNCHANGED <<helperVars, file, path, version, at, open, told, restore, displaced, refused>>
        /\ \/ hosted' = hosted
           \/ \E w : hosted' = [s \in Servers |-> hosted[s] \ {w}]
    BY <1>3 DEF OtherStep, NativeEnds, Reuse, dirVars, serverVars, bootVars, history, vars
  <2>2. \A s \in Servers : life'[s] = "alive" <=> life[s] = "alive"
    BY <1>3, SessionAssumption
       DEF OtherStep, NativeEnds, Reuse, vars, BaseInv, TypeInv, DirTypes, Processes
  <2>3. ASSUME NEW o \in Servers, Outlived(o)', Outlived(o) => Undisturbed(o) /\ \A h \in Helpers : Cautious(h, o)
        PROVE  Undisturbed(o)' /\ \A h \in Helpers : Cautious(h, o)'
    <3>1. Outlived(o) /\ hosted'[o] \subseteq hosted[o]
      BY <2>1, <2>3 DEF Outlived
    <3>2. \A h \in Helpers : Cautious(h, o)'
      BY <2>1, <2>3, <3>1 DEF Cautious, helperVars
    <3>3. \A s \in Servers : hosted[o] \subseteq restore[s] \cup hosted[s] \cup refused
            => hosted'[o] \subseteq restore'[s] \cup hosted'[s] \cup refused'
      BY <2>1
    <3>4. Undisturbed(o)'
      BY <2>1, <2>2, <2>3, <3>1, <3>3 DEF Undisturbed, Active, Alive
    <3> QED
      BY <3>2, <3>4
  <2> QED
    BY <1>1, <2>3 DEF OldInv
<1> QED
  BY <1>2, <1>3

(***************************************************************************)
(* The windows on their way                                                *)
(***************************************************************************)
LEMMA KeptServerStep ==
  ASSUME BaseInv, NEW q \in Servers, ServerStep(q) \/ Republish(q), NEW s \in Servers, NEW w,
         Hosts(s, w)
  PROVE  Hosts(s, w)'
<1>0. TypeInv
  BY DEF BaseInv
<1>1. CASE s # q
  BY <1>0, <1>1, ServerAlone DEF Hosts, Same
<1>2. CASE s = q
  <2>1. SamePlace(q)
    BY <1>0, <1>2, ServerEffects
       DEF Boots, Clears, Binds, Records, Restores, Resigns, Closes, Unnames, Leaves, Notices,
           Rebinds, Installs, Undoes, Turns, Hosts
  <2> QED
    BY <1>2, <2>1 DEF SamePlace, SameWindows, Hosts
<1> QED
  BY <1>1, <1>2

LEMMA CarriedServerStep ==
  ASSUME BaseInv, NEW q \in Servers, ServerStep(q) \/ Republish(q), NEW s \in Servers, NEW ws,
         ws # {}, Carries(s, ws), Active(s), Active(s)'
  PROVE  Carries(s, ws)'
<1>0. TypeInv /\ ended' = ended /\ refused \subseteq refused'
  BY ServerAlone DEF BaseInv
<1>1. CASE s # q
  BY <1>0, <1>1, ServerAlone DEF Carries, Same
<1>2. CASE s = q
  <2>1. \/ SameWindows(q) /\ (at'[q] = "serving" <=> at[q] = "serving")
        \/ Restores(q)
    BY <1>0, <1>2, ServerEffects
       DEF Boots, Clears, Binds, Records, Resigns, Closes, Unnames, Leaves, Notices, Rebinds,
           Installs, Undoes, Turns, Gone, SamePlace, Active, Alive, Starting
  <2>2. CASE SameWindows(q) /\ (at'[q] = "serving" <=> at[q] = "serving")
    BY <1>0, <1>2, <2>2 DEF SameWindows, Carries
  <2>3. CASE Restores(q)
    BY <1>0, <1>2, <2>3 DEF Restores, Carries
  <2> QED
    BY <2>1, <2>2, <2>3
<1> QED
  BY <1>1, <1>2

LEMMA WindowsOtherStep ==
  ASSUME BaseInv, OtherStep, KeptInv, CarriedInv
  PROVE  KeptInv' /\ CarriedInv'
<1>1. /\ UNCHANGED <<helperVars, workspace>> /\ (Calm' => Calm) /\ ended \subseteq ended'
      /\ refused \subseteq refused'
      /\ \A h \in Helpers : Updating(h)' <=> Updating(h)
      /\ \A s \in Servers : Active(s)' => Active(s)
  <2>1. [Next]_vars
    BY DEF OtherStep, Next
  <2>2. workspace' = workspace /\ ended \subseteq ended' /\ refused \subseteq refused'
    <3>1. CASE \E q \in Servers : ServerStep(q) \/ Republish(q)
      BY <3>1, ServerAlone DEF BaseInv
    <3>2. CASE ~\E q \in Servers : ServerStep(q) \/ Republish(q)
      BY <3>2 DEF OtherStep, NativeEnds, Reuse, history, vars
    <3> QED
      BY <3>1, <3>2
  <2>3. \A h \in Helpers : Updating(h)' <=> Updating(h)
    BY Bystanders DEF HelpersStay, helperVars, Updating, Alive
  <2> QED
    BY <2>1, <2>2, <2>3, Lasting, Bystanders, FewerActive DEF HelpersStay
<1>2. /\ \A s \in Servers : \A w : Hosts(s, w) /\ w \notin ended' => Hosts(s, w)'
      /\ \A s \in Servers : \A ws : ws # {} /\ Carries(s, ws) /\ Active(s) /\ Active(s)' => Carries(s, ws)'
  <2>1. CASE \E q \in Servers : ServerStep(q) \/ Republish(q)
    BY <2>1, KeptServerStep, CarriedServerStep
  <2>2. CASE ~\E q \in Servers : ServerStep(q) \/ Republish(q)
    <3>1. /\ UNCHANGED <<at, told, restore, refused>>
          /\ \/ UNCHANGED <<hosted, ended>>
             \/ \E w : hosted' = [s \in Servers |-> hosted[s] \ {w}] /\ ended' = ended \cup {w}
      BY <2>2 DEF OtherStep, NativeEnds, Reuse, serverVars, bootVars, history, vars
    <3>2. ASSUME NEW s \in Servers, NEW w, Hosts(s, w), w \notin ended' PROVE Hosts(s, w)'
      BY <3>1, <3>2 DEF Hosts
    <3>3. ASSUME NEW s \in Servers, NEW ws, Carries(s, ws) PROVE Carries(s, ws)'
      BY <3>1, <3>3 DEF Carries
    <3> QED
      BY <3>2, <3>3
  <2> QED
    BY <2>1, <2>2
<1>3. KeptInv'
  <2>1. ASSUME Calm', NEW w \in workspace' \ (ended' \cup refused')
        PROVE  \/ \E s \in Servers : Hosts(s, w)'
               \/ \E h \in Helpers : Updating(h)' /\ w \in plan'[h].windows
    <3>1. \/ \E s \in Servers : Hosts(s, w)
          \/ \E h \in Helpers : Updating(h) /\ w \in plan[h].windows
      BY <1>1, <2>1 DEF KeptInv
    <3>2. CASE \E s \in Servers : Hosts(s, w)
      BY <1>2, <2>1, <3>2
    <3>3. CASE \E h \in Helpers : Updating(h) /\ w \in plan[h].windows
      BY <1>1, <3>3 DEF helperVars
    <3> QED
      BY <3>1, <3>2, <3>3
  <2> QED
    BY <2>1 DEF KeptInv
<1>4. CarriedInv'
  <2>1. ASSUME Calm', NEW h \in Helpers, NEW s \in Servers, Updating(h)',
               hpc'[h] = "awaitServer", Active(s)'
        PROVE  Carries(s, plan[h].windows)'
    <3>1. Updating(h) /\ hpc[h] = "awaitServer" /\ Active(s) /\ plan'[h] = plan[h] /\ Calm
      BY <1>1, <2>1 DEF helperVars
    <3>2. Carries(s, plan[h].windows)
      BY <3>1 DEF CarriedInv
    <3>3. plan[h].windows # {}
      BY <3>1 DEF BaseInv, RouteInv, Planned, Updating
    <3>4. ASSUME NEW ws, ws = plan[h].windows PROVE Carries(s, ws)'
      BY <1>2, <2>1, <3>1, <3>2, <3>3, <3>4
    <3>5. Carries(s, plan[h].windows)'
      BY <3>1, <3>4 DEF Carries
    <3> QED
      BY <3>5
  <2> QED
    BY <2>1 DEF CarriedInv
<1> QED
  BY <1>3, <1>4

(***************************************************************************)
(* Where a helper comes from                                               *)
(***************************************************************************)
LEMMA WaitRoute ==
  ASSUME BaseInv, NEW h \in Helpers, AnyHelperStep(h), hpc'[h] = "awaitServer"
  PROVE  Spawn(h)
<1>0. HelperTypes /\ Fits(hpc[h], purpose[h])
  BY DEF BaseInv, TypeInv, LockInv, ControlInv
<1>1. CASE JudgeRecord(h) \/ Recheck(h) \/ Unlink(h)
  <2>1. /\ hpc[h] \in {"judge", "recheck", "unlink"}
        /\ \E p \in {"recheck", "unlink", "judge"} \cup {Holder(h, owner) : owner \in {"gone", "live", "unknown"}} :
             hpc' = [hpc EXCEPT ![h] = p]
    BY <1>1 DEF JudgeRecord, Recheck, Unlink, Ownership
  <2>2. \A owner : Holder(h, owner) # "awaitServer"
    BY <1>0, <2>1 DEF Fits, Holder, HelperTypes, Purposes
  <2>3. PICK p \in {"recheck", "unlink", "judge"} \cup {Holder(h, owner) : owner \in {"gone", "live", "unknown"}} :
          hpc' = [hpc EXCEPT ![h] = p]
    BY <2>1
  <2>4. hpc'[h] = p
    BY <1>0, <2>3 DEF HelperTypes
  <2> QED
    BY <2>2, <2>3, <2>4
<1>2. CASE InstallLock(h) \/ Start(h) \/ LockTimeout(h) \/ HandoffFails(h) \/ RequestShutdown(h)
           \/ ServerExited(h) \/ ExitTimeout(h) \/ FinalCheck(h) \/ ProbePath(h) \/ ComparePath(h)
  BY <1>0, <1>2 DEF InstallLock, Start, LockTimeout, HandoffFails, RequestShutdown, ServerExited,
     ExitTimeout, FinalCheck, ProbePath, ComparePath, Return, HelperTypes
<1>3. CASE ServerFound(h) \/ ServerSilent(h)
  <2>1. \E p \in {"recheck", "snapshot", "judge"} : hpc' = [hpc EXCEPT ![h] = p]
    BY <1>3 DEF ServerFound, ServerSilent, Return
  <2> QED
    BY <1>0, <2>1 DEF HelperTypes
<1>4. CASE Snapshot(h) \/ UnlinkPath(h) \/ ServerStarted(h) \/ StartTimeout(h) \/ End(h)
  BY <1>0, <1>4 DEF Snapshot, UnlinkPath, ServerStarted, StartTimeout, End, Return, Forgets,
     HelperTypes
<1>5. CASE HandoffWindow(h)
  <2>1. hpc[h] = "handoff" /\ (hpc' = hpc \/ hpc' = [hpc EXCEPT ![h] = "final"])
    BY <1>5 DEF HandoffWindow
  <2> QED
    BY <1>0, <2>1 DEF HelperTypes
<1> QED
  BY <1>1, <1>2, <1>3, <1>4, <1>5 DEF AnyHelperStep, HelperStep

\* The windows of the outgoing server are taken down.
Takes(h) == /\ hpc[h] = "snapshot" /\ Alive(h) /\ target[h] \in Answering /\ hosted[target[h]] # {}
            /\ hpc'[h] = "judge" /\ plan'[h] = Replacement(target[h])
            /\ \A s \in Servers : Same(s)
            /\ UNCHANGED <<file, path, displaced>>

LEMMA OldRoute ==
  ASSUME BaseInv, NEW h \in Helpers, AnyHelperStep(h), life'[h] = "alive", purpose'[h] = "old"
  PROVE  \/ Updating(h) /\ hpc[h] # "awaitServer" /\ plan'[h].windows = plan[h].windows
         \/ Takes(h)
<1>0. HelperTypes /\ Fits(hpc[h], purpose[h]) /\ Routed(hpc[h], purpose[h]) /\ TypeInv /\ AsleepInv
      /\ Helpers \cap Servers = {} /\ life \in [Processes -> {"none", "alive", "dead", "reused"}]
  BY SessionAssumption DEF BaseInv, TypeInv, LockInv, ControlInv, RouteInv, DirTypes
<1>1. CASE Snapshot(h)
  <2>1. purpose' # [purpose EXCEPT ![h] = "unlock"]
    BY <1>0 DEF HelperTypes
  <2>2. /\ hpc[h] = "snapshot" /\ Alive(h) /\ target[h] \in Answering /\ hosted[target[h]] # {}
        /\ plan' = [plan EXCEPT ![h] = Replacement(target[h])] /\ hpc' = [hpc EXCEPT ![h] = "judge"]
        /\ UNCHANGED <<file, path, displaced>>
    BY <1>1, <2>1 DEF Snapshot, Return, history
  <2>3. plan'[h] = Replacement(target[h]) /\ hpc'[h] = "judge"
    BY <1>0, <2>2 DEF HelperTypes
  <2>4. \A s \in Servers : Same(s)
    BY <1>0, <1>1, <2>2, QuietEffect
       DEF AnyHelperStep, Spawn, HandoffWindow, RequestShutdown, ServerStarted
  <2> QED
    BY <2>2, <2>3, <2>4 DEF Takes
<1>2. CASE ~Snapshot(h)
  <2>1. CASE hpc[h] = "awaitServer"
    <3>1. ServerStarted(h) \/ StartTimeout(h)
      BY <1>0, <1>2, <2>1 DEF AnyHelperStep, HelperStep, InstallLock, JudgeRecord, Recheck, Unlink, Start,
         LockTimeout, ServerFound, ServerSilent, HandoffWindow, HandoffFails, RequestShutdown,
         ServerExited, ExitTimeout, FinalCheck, ProbePath, ComparePath, UnlinkPath, Spawn, End,
         AsleepInv, Alive
    <3> QED
      BY <1>0, <3>1 DEF ServerStarted, StartTimeout, Return, HelperTypes
  <2>2. CASE hpc[h] # "awaitServer"
    <3>1. /\ purpose' = purpose \/ \E q \in Purposes \ {"old"} : purpose' = [purpose EXCEPT ![h] = q]
      BY <1>2 DEF AnyHelperStep, HelperStep, InstallLock, JudgeRecord, Recheck, Unlink, Start,
         LockTimeout, ServerFound, ServerSilent, HandoffWindow, HandoffFails, RequestShutdown,
         ServerExited, ExitTimeout, FinalCheck, ProbePath, ComparePath, UnlinkPath, Spawn,
         ServerStarted, StartTimeout, End, Return, Forgets, Purposes
    <3>2. purpose[h] = "old" /\ ~End(h)
      <4>1. End(h) => purpose' = [purpose EXCEPT ![h] = "lock"]
        BY DEF End, Forgets
      <4> QED
        BY <1>0, <3>1, <4>1 DEF HelperTypes
    <3>3. Alive(h)
      BY <1>0, <3>2 DEF AsleepInv
    <3>4. plan' = plan \/ \E r : plan' = [plan EXCEPT ![h].old = r]
      BY <1>2, <3>2 DEF AnyHelperStep, HelperStep, InstallLock, JudgeRecord, Recheck, Unlink, Start,
         LockTimeout, ServerFound, ServerSilent, HandoffWindow, HandoffFails, RequestShutdown,
         ServerExited, ExitTimeout, FinalCheck, ProbePath, ComparePath, UnlinkPath, Spawn,
         ServerStarted, StartTimeout
    <3>5. plan'[h].windows = plan[h].windows
      <4>1. CASE plan' = plan
        BY <4>1
      <4>2. ASSUME NEW r, plan' = [plan EXCEPT ![h].old = r] PROVE plan'[h].windows = plan[h].windows
        <5>1. plan[h] \in PlanTypes /\ plan'[h] = [plan[h] EXCEPT !.old = r]
          BY <1>0, <4>2 DEF HelperTypes
        <5> QED
          BY <5>1 DEF PlanTypes
      <4> QED
        BY <3>4, <4>1, <4>2
    <3> QED
      BY <2>2, <3>2, <3>3, <3>5 DEF Updating
  <2> QED
    BY <2>1, <2>2
<1> QED
  BY <1>1, <1>2

(***************************************************************************)
(* What the helpers leave as it is                                         *)
(***************************************************************************)
Stable(s) == SameLife(s) /\ SameNames(s) /\ at'[s] = at[s] /\ restore'[s] = restore[s]

LEMMA HelperTouches ==
  ASSUME BaseInv, NEW h \in Helpers, AnyHelperStep(h)
  PROVE  \/ \A s \in Servers : Stable(s)
         \/ Spawn(h) /\ \E s \in Servers : Starts(h, s)
<1>0. TypeInv
  BY DEF BaseInv
<1>1. CASE Spawn(h)
  BY <1>0, <1>1, SpawnEffect DEF SpawnFails, Same, Stable, SameLife, SameNames
<1>2. CASE HandoffWindow(h)
  BY <1>0, <1>2, HandoffEffect DEF Stable
<1>3. CASE RequestShutdown(h) \/ ServerStarted(h)
  BY <1>0, <1>3, TellEffect DEF Tells, Stable
<1>4. CASE ~(Spawn(h) \/ HandoffWindow(h) \/ RequestShutdown(h) \/ ServerStarted(h))
  BY <1>0, <1>4, QuietEffect DEF Same, Stable, SameLife, SameNames
<1> QED
  BY <1>1, <1>2, <1>3, <1>4

LEMMA StableActive ==
  ASSUME BaseInv, NEW s \in Servers, Stable(s)
  PROVE  Active(s)' <=> Active(s)
BY DEF Stable, SameLife, Active, Alive

LEMMA StartsActive ==
  ASSUME BaseInv, NEW h \in Helpers, NEW s \in Servers, Starts(h, s)
  PROVE  /\ Active(s)' /\ at'[s] = "boot" /\ ~told'[s] /\ ~Active(s) /\ hosted'[s] = {}
         /\ \A q \in Servers \ {s} : Active(q)' <=> Active(q)
<1>1. at[s] = "gone" /\ ~Alive(s) /\ hosted[s] = {}
  BY DEF Starts, BaseInv, TypeInv, ServerParts, Alive
<1>2. version[s] = "current" /\ ~told[s]
  BY <1>1 DEF BaseInv, PartInv
<1> QED
  BY <1>1, <1>2 DEF Starts, Same, Active, Alive, Starting

(* Who holds the lock and waits for no server knows that the one there is   *)
(* serves.                                                                  *)
LEMMA ServesWhile ==
  ASSUME BaseInv, OneInv, Tracked, NEW h \in Helpers, InHand(h), hpc[h] # "awaitServer",
         NEW s \in Servers, Active(s)
  PROVE  at[s] = "serving"
<1>1. ASSUME NEW g \in Helpers, Waiting(g) PROVE FALSE
  <2>1. InHand(g) /\ Calm
    BY <1>1 DEF Waiting, InHand, Tracked
  <2>2. g = h
    BY <2>1, OneHolder
  <2> QED
    BY <1>1, <2>2 DEF Waiting
<1> QED
  BY <1>1 DEF OneInv

LEMMA NoneWhenTaken ==
  ASSUME BaseInv, OldInv, OneInv, ReachedInv, Calm, NEW h \in Helpers, Takes(h)
  PROVE  /\ target[h] = Outgoing /\ Outlived(Outgoing) /\ Undisturbed(Outgoing)
         /\ \A s \in Servers : ~Active(s)
<1>1. /\ target[h] \in Servers /\ Alive(target[h]) /\ at[target[h]] = "serving"
      /\ path \in open[target[h]] /\ hosted[target[h]] # {}
  BY DEF Takes, Answering, Dialable
<1>2. Replaced(target[h])
  BY DEF Takes, BaseInv, RouteInv
<1>3. target[h] = Outgoing /\ Outlived(Outgoing) /\ version[Outgoing] = "older"
  BY <1>1, <1>2 DEF Replaced, Outlived
<1>4. Undisturbed(Outgoing)
  BY <1>1, <1>3 DEF OldInv
<1>5. Tracked
  BY <1>4 DEF Undisturbed, Tracked
<1>6. ASSUME NEW s \in Servers, Active(s) PROVE FALSE
  <2>1. at[s] = "serving"
    BY <1>5, <1>6, ServesWhile DEF Takes, InHand
  <2>2. path \in open[s]
    BY <1>4, <1>5, <1>6, <2>1 DEF ReachedInv, Undisturbed
  <2>3. s # Outgoing
    BY <1>3, <1>6 DEF Active
  <2> QED
    BY <1>1, <1>3, <2>2, <2>3 DEF BaseInv, NameInv
<1> QED
  BY <1>3, <1>4, <1>6

LEMMA NoneWhenSpawned ==
  ASSUME BaseInv, NoneYet, OwnerInv, Calm, NEW h \in Helpers, Alive(h), hpc[h] = "spawn",
         purpose[h] = "old" \/ Tracked
  PROVE  \A s \in Servers : ~Active(s)
<1>1. purpose[h] \in {"owner", "old"}
  BY DEF BaseInv, RouteInv, Routed
<1>2. CASE purpose[h] = "old"
  BY <1>2 DEF NoneYet, Updating
<1>3. CASE purpose[h] = "owner"
  BY <1>3 DEF OwnerInv, Mistaken
<1> QED
  BY <1>1, <1>2, <1>3

LEMMA SpawnerAlive ==
  ASSUME BaseInv, NEW h \in Helpers, Spawn(h)
  PROVE  Alive(h) /\ hpc[h] = "spawn" /\ InHand(h)
BY DEF Spawn, InHand

LEMMA StartHelperStep ==
  ASSUME BaseInv, ServeInv, NEW h \in Helpers, AnyHelperStep(h)
  PROVE  NoneYet' /\ Successor' /\ WaitInv' /\ OneInv'
<1>0. /\ (Calm' => Calm) /\ (Tracked' => Tracked) /\ (Tracked => Calm)
      /\ \A g \in Helpers \ {h} : /\ hpc'[g] = hpc[g] /\ purpose'[g] = purpose[g]
                                  /\ spawned'[g] = spawned[g] /\ life'[g] = life[g]
  <2>1. [Next]_vars
    BY DEF AnyHelperStep, Next
  <2> QED
    BY <2>1, Lasting, OnlyItself DEF BaseInv, OnlyMoves, Tracked
<1>1. ASSUME NEW s \in Servers, Spawn(h), Starts(h, s)
      PROVE  NoneYet' /\ Successor' /\ WaitInv' /\ OneInv'
  <2>1. /\ Alive(h) /\ hpc[h] = "spawn" /\ InHand(h)
        /\ hpc'[h] = "awaitServer" /\ spawned'[h] = s /\ purpose'[h] = purpose[h]
        /\ h \notin Servers /\ h # s
    BY <1>1, SpawnerAlive, SessionAssumption DEF Starts
  <2>2. ASSUME NEW g \in Helpers, g # h, Calm, Alive(g),
               purpose[g] = "old" \/ hpc[g] = "awaitServer"
        PROVE  FALSE
    BY <2>1, <2>2, OneHolder DEF InHand
  <2>3. life'[h] = "alive"
    BY <1>1, <2>1 DEF Spawn, Starts, Alive, BaseInv, TypeInv, DirTypes, Processes
  <2>4. /\ Active(s)' /\ at'[s] = "boot"
        /\ \A q \in Servers \ {s} : Active(q)' <=> Active(q)
    BY <1>1, StartsActive
  <2>5. NoneYet'
    BY <1>0, <2>1, <2>2 DEF NoneYet, Updating, Alive
  <2>6. Successor'
    <3>1. ASSUME Calm', NEW g \in Helpers, NEW q \in Servers, Updating(g)', hpc'[g] = "awaitServer",
                 Active(q)'
          PROVE  q = spawned'[g]
      <4>1. g = h
        BY <1>0, <2>2, <3>1 DEF Updating, Alive
      <4>2. \A r \in Servers : ~Active(r)
        BY <1>0, <2>1, <3>1, <4>1, NoneWhenSpawned DEF ServeInv, Updating
      <4> QED
        BY <2>1, <2>4, <3>1, <4>1, <4>2
    <3> QED
      BY <3>1 DEF Successor
  <2>7. Tracked' => \A q \in Servers : Active(q)' => q = s
    BY <1>0, <2>1, <2>4, NoneWhenSpawned DEF ServeInv
  <2>8. Tracked' => \A g \in Helpers : Waiting(g)' => g = h
    BY <1>0, <2>2 DEF Waiting, Alive
  <2>9. WaitInv'
    BY <2>1, <2>7, <2>8 DEF WaitInv
  <2>10. OneInv'
    <3>1. Waiting(h)'
      BY <2>1, <2>3 DEF Waiting, Alive
    <3> QED
      BY <2>7, <3>1 DEF OneInv
  <2> QED
    BY <2>5, <2>6, <2>9, <2>10
<1>2. ASSUME \A s \in Servers : Stable(s)
      PROVE  NoneYet' /\ Successor' /\ WaitInv' /\ OneInv'
  <2>1. \A s \in Servers : (Active(s)' <=> Active(s)) /\ at'[s] = at[s]
    BY <1>2, StableActive DEF Stable
  <2>2. CASE Spawn(h)
    <3>1. mishap'
      BY <1>2, <2>2, SpawnEffect DEF SpawnFails, BaseInv, Stable, SameLife, Starts
    <3> QED
      BY <3>1 DEF NoneYet, Successor, WaitInv, OneInv, Tracked, Calm
  <2>3. CASE ~Spawn(h)
    <3>1. hpc'[h] # "awaitServer"
      BY <2>3, WaitRoute
    <3>2. NoneYet'
      <4>1. ASSUME Calm', NEW g \in Helpers, Updating(g)', hpc'[g] # "awaitServer",
                   NEW s \in Servers, Active(s)'
            PROVE  FALSE
        <5>1. CASE g # h
          BY <1>0, <2>1, <4>1, <5>1 DEF ServeInv, NoneYet, Updating, Alive
        <5>2. CASE g = h
          <6>1. (Updating(h) /\ hpc[h] # "awaitServer") \/ Takes(h)
            BY <4>1, <5>2, OldRoute DEF Updating, Alive
          <6> QED
            BY <1>0, <2>1, <4>1, <6>1, NoneWhenTaken DEF ServeInv, NoneYet
        <5> QED
          BY <5>1, <5>2
      <4> QED
        BY <4>1 DEF NoneYet
    <3>3. Successor'
      <4>1. ASSUME Calm', NEW g \in Helpers, NEW s \in Servers, Updating(g)', hpc'[g] = "awaitServer",
                   Active(s)'
            PROVE  s = spawned'[g]
        BY <1>0, <2>1, <3>1, <4>1 DEF ServeInv, Successor, Updating, Alive
      <4> QED
        BY <4>1 DEF Successor
    <3>4. WaitInv'
      <4>1. ASSUME Tracked', NEW g \in Helpers, NEW s \in Servers, Waiting(g)', Active(s)'
            PROVE  s = spawned'[g]
        BY <1>0, <2>1, <3>1, <4>1 DEF ServeInv, WaitInv, Waiting, Alive
      <4> QED
        BY <4>1 DEF WaitInv
    <3>5. OneInv'
      <4>1. ASSUME Tracked', NEW s \in Servers, Active(s)', at'[s] # "serving"
            PROVE  \E g \in Helpers : Waiting(g)'
        <5>1. PICK g \in Helpers : Waiting(g)
          BY <1>0, <2>1, <4>1 DEF ServeInv, OneInv
        <5>2. CASE g # h
          BY <1>0, <5>1, <5>2 DEF Waiting, Alive
        <5>3. CASE g = h
          <6>1. ServerStarted(h) \/ StartTimeout(h)
            BY <5>1, <5>3 DEF Waiting, AnyHelperStep, HelperStep, InstallLock, JudgeRecord,
               Recheck, Unlink, Start, LockTimeout, ServerFound, ServerSilent, Snapshot,
               HandoffWindow, HandoffFails, RequestShutdown, ServerExited, ExitTimeout,
               FinalCheck, ProbePath, ComparePath, UnlinkPath, Spawn, End, Alive
          <6>2. ~StartTimeout(h)
            BY <4>1 DEF StartTimeout, Tracked, Calm
          <6>3. PICK q \in Answering : version[q] = "current"
            BY <6>1, <6>2 DEF ServerStarted
          <6>4. q \in Servers /\ Active(q) /\ at[q] = "serving"
            BY <6>3 DEF Answering, Dialable, Active
          <6> QED
            BY <1>0, <2>1, <4>1, <6>4 DEF ServeInv, OneInv
        <5> QED
          BY <5>2, <5>3
      <4>2. ASSUME Tracked', NEW s \in Servers, Active(s)', NEW q \in Servers, Active(q)'
            PROVE  q = s
        BY <1>0, <2>1, <4>2 DEF ServeInv, OneInv
      <4> QED
        BY <4>1, <4>2 DEF OneInv
    <3> QED
      BY <3>2, <3>3, <3>4, <3>5
  <2> QED
    BY <2>2, <2>3
<1> QED
  BY <1>1, <1>2, HelperTouches

LEMMA OwnerRoute ==
  ASSUME BaseInv, NEW h \in Helpers, AnyHelperStep(h), life'[h] = "alive", purpose'[h] = "owner"
  PROVE  /\ Alive(h) /\ hpc[h] # "awaitServer"
         /\ \/ ServerSilent(h) /\ hpc[h] = "query" /\ hpc'[h] = "judge"
            \/ /\ purpose[h] = "owner"
               /\ \/ JudgeRecord(h) \/ Recheck(h) \/ Unlink(h) \/ ProbePath(h) \/ UnlinkPath(h)
                  \/ Spawn(h)
                  \/ ServerFound(h) /\ hpc'[h] = "snapshot"
                  \/ /\ FinalCheck(h) /\ hpc'[h] \in {"spawn", "probe"}
                     /\ purpose' # [purpose EXCEPT ![h] = "unlock"]
<1>0. HelperTypes /\ Fits(hpc[h], purpose[h]) /\ Routed(hpc[h], purpose[h]) /\ AsleepInv
  BY DEF BaseInv, TypeInv, LockInv, ControlInv, RouteInv
<1>1. \A q \in Purposes \ {"owner"} : purpose' # [purpose EXCEPT ![h] = q]
  BY <1>0 DEF HelperTypes
<1>2. ~ \E o : Return(h, o)
  BY <1>1 DEF Return, Purposes
<1>3. ~Forgets(h) /\ ~Start(h)
  <2>1. ~Forgets(h)
    BY <1>1 DEF Forgets, Purposes
  <2>2. ASSUME Start(h) PROVE FALSE
    <3>1. life[h] = "none"
      BY <2>2 DEF Start
    <3>2. purpose[h] = "lock"
      BY <1>0, <3>1 DEF AsleepInv, Alive
    <3>3. purpose' = purpose \/ \E q \in Purposes \ {"owner"} : purpose' = [purpose EXCEPT ![h] = q]
      BY <2>2 DEF Start, Purposes
    <3> QED
      BY <1>1, <3>2, <3>3
  <2> QED
    BY <2>1, <2>2
<1>4. ~(InstallLock(h) \/ LockTimeout(h) \/ Snapshot(h) \/ HandoffWindow(h) \/ HandoffFails(h)
        \/ RequestShutdown(h) \/ ServerExited(h) \/ ExitTimeout(h) \/ ComparePath(h)
        \/ ServerStarted(h) \/ StartTimeout(h) \/ End(h))
  <2>1. ~(HandoffFails(h) \/ ExitTimeout(h) \/ ServerStarted(h) \/ StartTimeout(h) \/ End(h))
    BY <1>2, <1>3 DEF HandoffFails, ExitTimeout, ServerStarted, StartTimeout, End
  <2>2. ~Snapshot(h)
    BY <1>1, <1>2 DEF Snapshot, Purposes
  <2>3. ~(InstallLock(h) \/ LockTimeout(h))
    BY <1>0, <1>1 DEF InstallLock, LockTimeout, Fits, Purposes
  <2>4. ~(HandoffWindow(h) \/ RequestShutdown(h) \/ ServerExited(h) \/ ComparePath(h))
    BY <1>0 DEF HandoffWindow, RequestShutdown, ServerExited, ComparePath, Fits, Routed
  <2> QED
    BY <2>1, <2>2, <2>3, <2>4
<1>5. CASE ServerSilent(h)
  <2>1. hpc[h] = "query" /\ hpc' = [hpc EXCEPT ![h] = "judge"] /\ Alive(h)
    BY <1>2, <1>5 DEF ServerSilent
  <2> QED
    BY <1>0, <1>5, <2>1 DEF HelperTypes
<1>6. CASE ServerFound(h)
  <2>1. hpc[h] \in {"query", "requery"} /\ hpc' = [hpc EXCEPT ![h] = "snapshot"] /\ Alive(h)
        /\ purpose' = purpose
    BY <1>2, <1>6 DEF ServerFound
  <2> QED
    BY <1>0, <1>6, <2>1 DEF HelperTypes
<1>7. CASE FinalCheck(h)
  <2>1. hpc[h] = "final" /\ Alive(h) /\ purpose' = purpose
        /\ \E p \in {"spawn", "probe"} : hpc' = [hpc EXCEPT ![h] = p]
    BY <1>2, <1>7 DEF FinalCheck
  <2> QED
    BY <1>0, <1>1, <1>7, <2>1 DEF HelperTypes, Purposes
<1>8. CASE JudgeRecord(h) \/ Recheck(h) \/ Unlink(h) \/ ProbePath(h) \/ UnlinkPath(h)
  BY <1>0, <1>8 DEF JudgeRecord, Recheck, Unlink, ProbePath, UnlinkPath
<1>9. CASE Spawn(h)
  BY <1>0, <1>2, <1>9 DEF Spawn
<1> QED
  BY <1>3, <1>4, <1>5, <1>6, <1>7, <1>8, <1>9 DEF AnyHelperStep, HelperStep

(* A record that is taken for a dead owner's is not the serving one's.     *)
LEMMA GoneNotServing ==
  ASSUME BaseInv, NEW h \in Helpers, NEW s \in Servers, Alive(s), RecordFile(h) = "pid",
         \/ JudgeRecord(h) /\ hpc'[h] \in {"recheck", Holder(h, "gone")} \ {Holder(h, "live")}
         \/ Unlink(h) /\ ~raced'
  PROVE  file["pid"] # s
<1>0. HelperTypes /\ s # NoPid
  BY SessionAssumption DEF BaseInv, TypeInv
<1>1. CASE Unlink(h) /\ ~raced'
  <2>1. hpc[h] = "unlink" /\ file["pid"] \in {seen[h], NoPid}
    <3>1. hpc[h] = "unlink" /\ raced' = (raced \/ Record(h) \notin {seen[h], NoPid})
      BY <1>1 DEF Unlink
    <3>2. Record(h) \in {seen[h], NoPid}
      BY <1>1, <3>1, Zenon
    <3> QED
      BY <3>1, <3>2 DEF Record
  <2>2. purpose[h] # "unlock"
    BY DEF RecordFile
  <2>3. life[seen[h]] \in {"dead", "reused"}
    BY <2>1, <2>2 DEF BaseInv, LockInv, StaleInv, Stale
  <2> QED
    BY <1>0, <2>1, <2>3 DEF Alive
<1>2. CASE JudgeRecord(h) /\ hpc'[h] \in {"recheck", Holder(h, "gone")} \ {Holder(h, "live")}
  <2> SUFFICES ASSUME file["pid"] = s PROVE FALSE
    OBVIOUS
  <2>1. Ownership(s) = {"live", "unknown"} /\ Record(h) = s
    BY <1>0 DEF Ownership, Alive, Record
  <2>2. \E owner \in {"live", "unknown"} : hpc' = [hpc EXCEPT ![h] = Holder(h, owner)]
    BY <1>2, <2>1 DEF JudgeRecord
  <2>3. hpc'[h] \in {Holder(h, "live"), Holder(h, "unknown")}
    BY <1>0, <2>2 DEF HelperTypes
  <2>4. Holder(h, "unknown") = Holder(h, "live")
    BY DEF Holder
  <2> QED
    BY <1>2, <2>3, <2>4
<1> QED
  BY <1>1, <1>2

LEMMA MistakenStep ==
  ASSUME BaseInv, ServeInv, NEW h \in Helpers, AnyHelperStep(h), Tracked', life'[h] = "alive",
         purpose'[h] = "owner", \A q \in Servers : Stable(q), NEW s \in Servers, Active(s)
  PROVE  Mistaken(h)'
<1>0. /\ HelperTypes /\ disturbances \in Nat /\ disturbances <= disturbances' /\ disturbances' \in Nat
      /\ displaced \subseteq displaced' /\ Tracked /\ Calm /\ ~raced' /\ LostInv
  <2>1. [Next]_vars
    BY DEF AnyHelperStep, Next
  <2>2. BaseInv'
    BY <2>1, BaseStep
  <2> QED
    BY <2>1, <2>2, Lasting, SessionAssumption DEF BaseInv, TypeInv, DirTypes, Tracked, Calm
<1>1. Alive(h) /\ hpc[h] # "awaitServer" /\ InHand(h)
  BY OwnerRoute DEF InHand, BaseInv, RouteInv, Routed
<1>2. at[s] = "serving" /\ Alive(s) /\ version[s] = "current" /\ s # NoPid
  BY <1>0, <1>1, ServesWhile, SessionAssumption DEF ServeInv, Active
<1>3. "path" \notin displaced => s \in Answering
  BY <1>0, <1>2 DEF ServeInv, ReachedInv, Answering, Dialable
<1>4. "pid" \notin displaced => file["pid"] = s
  BY <1>0, <1>2 DEF ServeInv, RecordedInv
<1>5. purpose[h] = "owner" => Mistaken(h)
  BY <1>0, <1>1 DEF ServeInv, OwnerInv
<1>6. ASSUME file["pid"] # s, disturbances > 0 \/ "path" \in displaced
      PROVE  disturbances' > 0 /\ "pid" \in displaced'
  <2>1. "pid" \in displaced
    BY <1>4, <1>6
  <2>2. "path" \notin displaced
    BY <1>0, <2>1 DEF LostInv, Tracked
  <2> QED
    BY <1>0, <1>6, <2>1, <2>2
<1>7. CASE ServerSilent(h) /\ hpc[h] = "query" /\ hpc'[h] = "judge"
  <2>1. CASE "path" \in displaced
    BY <1>0, <1>7, <2>1 DEF Mistaken
  <2>2. CASE "path" \notin displaced
    <3>1. disturbances' = disturbances + 1
      BY <1>3, <1>7, <2>2 DEF ServerSilent, TakesTime, Disturbed
    <3> QED
      BY <1>0, <1>7, <3>1 DEF Mistaken
  <2> QED
    BY <2>1, <2>2
<1>8. CASE purpose[h] = "owner" /\ JudgeRecord(h)
  <2>1. /\ hpc[h] = "judge" /\ RecordFile(h) = "pid" /\ (disturbances > 0 \/ "path" \in displaced)
        /\ Holder(h, "gone") = "final" /\ Holder(h, "live") = "requery"
        /\ Holder(h, "unknown") = "requery"
    BY <1>5, <1>8 DEF JudgeRecord, RecordFile, Mistaken, Holder
  <2>2. hpc'[h] \in {"recheck", "final", "requery"}
    <3>1. \E owner \in {"gone", "live", "unknown"} :
            hpc' = [hpc EXCEPT ![h] = IF owner = "gone" /\ Record(h) # NoPid THEN "recheck"
                                      ELSE Holder(h, owner)]
      BY <1>8 DEF JudgeRecord, Ownership
    <3> QED
      BY <1>0, <2>1, <3>1 DEF HelperTypes
  <2>3. hpc'[h] = "final" => file["pid"] # s
    BY <1>2, <1>8, <2>1, GoneNotServing
  <2> QED
    BY <1>0, <1>6, <2>1, <2>2, <2>3 DEF Mistaken
<1>9. CASE purpose[h] = "owner" /\ Recheck(h)
  <2>1. disturbances > 0 \/ "path" \in displaced
    BY <1>5, <1>9 DEF Recheck, Mistaken
  <2>2. hpc'[h] \in {"unlink", "judge"}
    BY <1>0, <1>9 DEF Recheck, HelperTypes
  <2> QED
    BY <1>0, <2>1, <2>2 DEF Mistaken
<1>10. CASE purpose[h] = "owner" /\ Unlink(h)
  <2>1. disturbances > 0 \/ "path" \in displaced
    BY <1>5, <1>10 DEF Unlink, Mistaken
  <2>2. hpc'[h] = "final"
    BY <1>0, <1>10 DEF Unlink, Holder, HelperTypes
  <2>3. file["pid"] # s
    BY <1>0, <1>2, <1>10, GoneNotServing DEF RecordFile
  <2> QED
    BY <1>0, <1>6, <2>1, <2>2, <2>3 DEF Mistaken
<1>11. CASE ServerFound(h) /\ hpc'[h] = "snapshot"
  BY <1>11 DEF Mistaken
<1>12. CASE purpose[h] = "owner" /\ FinalCheck(h) /\ purpose' # [purpose EXCEPT ![h] = "unlock"]
  <2>1. disturbances > 0 /\ "pid" \in displaced
    BY <1>5, <1>12 DEF FinalCheck, Mistaken
  <2>2. s \in Answering
    BY <1>0, <1>3, <2>1 DEF LostInv, Tracked
  <2>3. disturbances' = disturbances + 1
    BY <1>2, <1>12, <2>2 DEF FinalCheck, Return, TakesTime, Disturbed
  <2> QED
    BY <1>0, <2>1, <2>3 DEF Tracked
<1>13. ~(purpose[h] = "owner" /\ (ProbePath(h) \/ UnlinkPath(h) \/ Spawn(h)))
  BY <1>5 DEF ProbePath, UnlinkPath, Spawn, Mistaken
<1> QED
  BY <1>7, <1>8, <1>9, <1>10, <1>11, <1>12, <1>13, OwnerRoute

LEMMA OwnerHelperStep ==
  ASSUME BaseInv, ServeInv, NEW h \in Helpers, AnyHelperStep(h)
  PROVE  OwnerInv'
<1>0. /\ (Tracked' => Tracked) /\ (Tracked => Calm) /\ displaced \subseteq displaced'
      /\ disturbances \in Nat /\ disturbances' \in Nat /\ disturbances <= disturbances'
      /\ \A g \in Helpers \ {h} : /\ hpc'[g] = hpc[g] /\ purpose'[g] = purpose[g]
                                  /\ life'[g] = life[g]
  <2>1. [Next]_vars
    BY DEF AnyHelperStep, Next
  <2>2. BaseInv'
    BY <2>1, BaseStep
  <2> QED
    BY <2>1, <2>2, Lasting, OnlyItself, SessionAssumption
       DEF BaseInv, TypeInv, DirTypes, OnlyMoves, Tracked
<1>1. ASSUME Tracked', NEW g \in Helpers, NEW s \in Servers, life'[g] = "alive",
             purpose'[g] = "owner", Active(s)'
      PROVE  Mistaken(g)'
  <2>1. CASE \A q \in Servers : Stable(q)
    <3>1. Active(s)
      BY <1>1, <2>1, StableActive
    <3>2. CASE g = h
      BY <1>1, <2>1, <3>1, <3>2, MistakenStep
    <3>3. CASE g # h
      <4>1. Mistaken(g)
        BY <1>0, <1>1, <3>1, <3>3 DEF ServeInv, OwnerInv, Alive
      <4> QED
        BY <1>0, <3>3, <4>1 DEF Mistaken
    <3> QED
      BY <3>2, <3>3
  <2>2. ASSUME Spawn(h), NEW x \in Servers, Starts(h, x) PROVE Mistaken(g)'
    <3>1. hpc'[h] = "awaitServer" /\ InHand(h) /\ Calm
      BY <1>0, <1>1, <2>2, SpawnerAlive DEF Starts
    <3>2. g # h => InHand(g)
      BY <1>0, <1>1 DEF InHand, Alive
    <3>3. g = h
      BY <3>1, <3>2, OneHolder
    <3> QED
      BY <3>1, <3>3 DEF Mistaken
  <2> QED
    BY <2>1, <2>2, HelperTouches
<1> QED
  BY <1>1 DEF OwnerInv, Alive

LEMMA HelperName ==
  ASSUME NEW h \in Helpers, AnyHelperStep(h)
  PROVE  \/ path' = path /\ displaced' = displaced
         \/ UnlinkPath(h) /\ RemoveName
         \/ FinalCheck(h) /\ plan[h].legacyHandoff /\ path' = 0 /\ displaced' = displaced
<1>1. CASE UnlinkPath(h) \/ FinalCheck(h)
  BY <1>1 DEF UnlinkPath, FinalCheck, history
<1>2. CASE ~(UnlinkPath(h) \/ FinalCheck(h))
  BY <1>2 DEF AnyHelperStep, HelperStep, InstallLock, JudgeRecord, Recheck, Unlink, Start,
         LockTimeout, ServerFound, ServerSilent, Snapshot, HandoffWindow, HandoffFails,
         RequestShutdown, ServerExited, ExitTimeout, ProbePath, ComparePath,
         Spawn, ServerStarted, StartTimeout, End, dirVars, history
<1> QED
  BY <1>1, <1>2

LEMMA LegacyPlan ==
  ASSUME BaseInv, NEW h \in Helpers, FinalCheck(h), plan[h].legacyHandoff
  PROVE  Updating(h)
<1>1. hpc[h] = "final" /\ Alive(h) /\ Routed(hpc[h], purpose[h])
      /\ Planned(hpc[h], purpose[h], plan[h])
  BY DEF FinalCheck, BaseInv, RouteInv
<1>2. plan[h] # NoPlan
  BY DEF NoPlan
<1> QED
  BY <1>1, <1>2 DEF Routed, Planned, Updating

LEMMA PlaceHelperStep ==
  ASSUME BaseInv, ServeInv, NEW h \in Helpers, AnyHelperStep(h)
  PROVE  ReachedInv' /\ RecordedInv'
<1>0. (Tracked' => Tracked) /\ (Tracked' => ~raced' /\ Calm) /\ displaced \subseteq displaced'
      /\ TypeInv /\ ControlInv /\ ServerParts
  <2>1. [Next]_vars
    BY DEF AnyHelperStep, Next
  <2> QED
    BY <2>1, Lasting DEF Tracked, Calm, BaseInv, LockInv, TypeInv
<1>1. ASSUME NEW s \in Servers, Active(s)', at'[s] # "boot"
      PROVE  /\ Active(s) /\ at'[s] = at[s] /\ open'[s] = open[s] /\ rpc'[s] = rpc[s]
  <2>1. Stable(s)
    BY <1>1, HelperTouches DEF Starts, Stable, Same, SameLife, SameNames
  <2> QED
    BY <1>1, <2>1, StableActive DEF Stable, SameNames
<1>2. ASSUME Tracked', "path" \notin displaced', NEW s \in Servers, Active(s)',
             at'[s] \in {"record", "restore", "serving"}
      PROVE  path' \in open'[s] /\ rpc'[s] = "idle"
  <2>1. Active(s) /\ at'[s] = at[s] /\ open'[s] = open[s] /\ rpc'[s] = rpc[s]
    BY <1>1, <1>2
  <2>2. path \in open[s] /\ rpc[s] = "idle"
    BY <1>0, <1>2, <2>1 DEF ServeInv, ReachedInv
  <2>3. ~RemoveName
    <3>1. s \in Dialable
      BY <2>1, <2>2 DEF Dialable, Active
    <3> QED
      BY <1>2, <3>1 DEF RemoveName
  <2>4. ~(FinalCheck(h) /\ plan[h].legacyHandoff)
    <3> SUFFICES ASSUME FinalCheck(h), plan[h].legacyHandoff PROVE FALSE
      OBVIOUS
    <3>1. Updating(h) /\ hpc[h] # "awaitServer"
      BY LegacyPlan DEF FinalCheck
    <3> QED
      BY <1>0, <1>2, <2>1, <3>1 DEF ServeInv, NoneYet
  <2>5. path' = path
    BY <2>3, <2>4, HelperName
  <2> QED
    BY <2>1, <2>2, <2>5
<1>3. ASSUME Tracked', "pid" \notin displaced', NEW s \in Servers, Active(s)',
             at'[s] \in {"restore", "serving"}
      PROVE  file'["pid"] = s
  <2>1. Active(s) /\ at'[s] = at[s] /\ Alive(s)
    BY <1>1, <1>3 DEF Active
  <2>2. file["pid"] = s
    BY <1>0, <1>3, <2>1 DEF ServeInv, RecordedInv
  <2>3. ~(Unlink(h) /\ RecordFile(h) = "pid")
    BY <1>0, <1>3, <2>1, <2>2, GoneNotServing
  <2> QED
    BY <1>0, <2>2, <2>3, HelperRecords
<1> QED
  BY <1>2, <1>3 DEF ReachedInv, RecordedInv

LEMMA HelperWindows ==
  ASSUME BaseInv, NEW h \in Helpers, AnyHelperStep(h), NEW s \in Servers
  PROVE  /\ hosted'[s] \subseteq hosted[s]
         /\ hosted'[s] # hosted[s] => /\ HandoffWindow(h) /\ s = target[h]
                                      /\ hosted[s] \ hosted'[s] \subseteq plan[h].windows
         /\ told'[s] # told[s] =>
              \/ RequestShutdown(h) /\ s = target[h] /\ s \in Answering
              \/ ServerStarted(h) /\ s = plan[h].old /\ s # spawned[h] /\ Alive(s)
<1>0. TypeInv
  BY DEF BaseInv
<1>1. CASE Spawn(h)
  BY <1>0, <1>1, SpawnEffect DEF SpawnFails, Starts, Same
<1>2. CASE HandoffWindow(h)
  BY <1>0, <1>2, HandoffEffect
<1>3. CASE RequestShutdown(h) \/ ServerStarted(h)
  <2>1. /\ Tells(s)
        /\ told'[s] # told[s] =>
             \/ hpc[h] = "shutdown" /\ s = target[h] /\ s \in Answering
             \/ hpc[h] = "awaitServer" /\ s = plan[h].old /\ s # spawned[h] /\ Alive(s)
    BY <1>0, <1>3, TellEffect
  <2>2. (RequestShutdown(h) => hpc[h] = "shutdown") /\ (ServerStarted(h) => hpc[h] = "awaitServer")
    BY DEF RequestShutdown, ServerStarted
  <2> QED
    BY <1>3, <2>1, <2>2 DEF Tells
<1>4. CASE ~(Spawn(h) \/ HandoffWindow(h) \/ RequestShutdown(h) \/ ServerStarted(h))
  BY <1>0, <1>4, QuietEffect DEF Same
<1> QED
  BY <1>1, <1>2, <1>3, <1>4

LEMMA CautiousStep ==
  ASSUME BaseInv, ServeInv, NEW h \in Helpers, AnyHelperStep(h), Calm', NEW o \in Servers,
         Outlived(o), hosted'[o] \subseteq hosted[o]
  PROVE  Cautious(h, o)'
<1>0. /\ HelperTypes /\ TypeInv /\ Fits(hpc[h], purpose[h]) /\ Routed(hpc[h], purpose[h])
      /\ Planned(hpc[h], purpose[h], plan[h]) /\ AsleepInv /\ Calm
      /\ purpose[h] = "old" \/ hpc[h] = "snapshot" => Replaced(target[h])
  <2>1. [Next]_vars
    BY DEF AnyHelperStep, Next
  <2> QED
    BY <2>1, Lasting DEF BaseInv, TypeInv, LockInv, ControlInv, RouteInv
<1>1. Undisturbed(o) /\ Cautious(h, o) /\ o = Outgoing /\ Alive(o) /\ Alive(file["pid"])
      /\ file["pid"] \in Servers
  BY <1>0 DEF ServeInv, OldInv, Outlived, Undisturbed, BaseInv, PartInv, TypeInv, ServerParts
<1>2. purpose[h] = "old" /\ Alive(h) /\ hpc[h] # "awaitServer" => file["pid"] = o
  BY <1>0, <1>1 DEF ServeInv, NoneYet, Updating, Undisturbed
<1>3. \A p \in Servers : Alive(p) => "gone" \notin Ownership(p)
  BY SessionAssumption DEF Ownership, Alive
<1>4. ASSUME hpc'[h] \notin {"compare", "unlinkPath", "probe"}, purpose'[h] \notin {"owner", "old"}
      PROVE  Cautious(h, o)'
  BY <1>4 DEF Cautious
<1>5. ASSUME NEW x, Return(h, x) PROVE Cautious(h, o)'
  BY <1>0, <1>4, <1>5 DEF Return, HelperTypes
<1>6. CASE InstallLock(h) \/ LockTimeout(h) \/ Recheck(h) \/ Unlink(h)
  <2>1. purpose[h] \notin {"owner", "old"} /\ purpose'[h] \notin {"owner", "old"}
    BY <1>0, <1>1, <1>6 DEF InstallLock, LockTimeout, Recheck, Unlink, Fits, Cautious, HelperTypes
  <2>2. CASE InstallLock(h) \/ LockTimeout(h)
    BY <1>0, <1>4, <2>1, <2>2 DEF InstallLock, LockTimeout, HelperTypes
  <2>3. CASE Recheck(h) \/ Unlink(h)
    <3>1. \E p \in {"unlink", Holder(h, "gone")} : hpc' = [hpc EXCEPT ![h] = p]
      BY <2>1, <2>3 DEF Recheck, Unlink
    <3>2. Holder(h, "gone") \notin {"compare", "unlinkPath", "probe"}
      BY <1>0, <2>1, <2>3 DEF Recheck, Unlink, Holder, Fits, HelperTypes, Purposes
    <3>3. hpc'[h] \in {"unlink", Holder(h, "gone")}
      BY <1>0, <3>1 DEF HelperTypes
    <3> QED
      BY <1>4, <2>1, <3>2, <3>3
  <2> QED
    BY <1>6, <2>2, <2>3
<1>7. CASE Start(h)
  <2>1. purpose[h] = "lock"
    BY <1>0, <1>7 DEF Start, AsleepInv, Alive
  <2>2. \/ hpc'[h] \in {"install", "judge"} /\ purpose'[h] \in {"lock", "gcLock", "gcPid"}
        \/ hpc'[h] = "probe" /\ purpose'[h] = "gcSocket"
    BY <1>0, <1>7, <2>1 DEF Start, HelperTypes
  <2> QED
    BY <2>2 DEF Cautious
<1>8. CASE JudgeRecord(h)
  <2>1. PICK owner \in Ownership(Record(h)) :
          LET stale == owner = "gone" /\ Record(h) # NoPid IN
          /\ hpc' = [hpc EXCEPT ![h] = IF stale THEN "recheck" ELSE Holder(h, owner)]
          /\ plan' = IF purpose[h] = "old" /\ owner # "gone" THEN [plan EXCEPT ![h].old = Record(h)]
                     ELSE plan
    BY <1>8 DEF JudgeRecord
  <2>2. hpc[h] = "judge" /\ Alive(h) /\ purpose'[h] = purpose[h]
        /\ hpc'[h] \in {"recheck", Holder(h, owner)}
    BY <1>0, <1>8, <2>1 DEF JudgeRecord, HelperTypes
  <2>3. CASE purpose[h] \notin {"owner", "old"}
    <3>1. Holder(h, owner) \notin {"compare", "unlinkPath", "probe"}
      BY <1>0, <2>2, <2>3 DEF Holder, Fits
    <3> QED
      BY <1>4, <2>2, <2>3, <3>1
  <2>4. CASE purpose[h] \in {"owner", "old"}
    <3>1. Record(h) = file["pid"] /\ owner # "gone"
      BY <1>1, <1>3, <2>1, <2>4 DEF Record, RecordFile
    <3>2. hpc'[h] = Holder(h, owner)
      BY <1>0, <2>1, <3>1 DEF HelperTypes
    <3>3. CASE purpose[h] = "owner"
      <4>1. hpc'[h] = "requery"
        BY <3>1, <3>2, <3>3 DEF Holder
      <4> QED
        BY <2>2, <3>3, <4>1 DEF Cautious
    <3>4. CASE purpose[h] = "old"
      <4>1. plan'[h] = [plan[h] EXCEPT !.old = o] /\ plan[h] \in PlanTypes
        BY <1>0, <1>2, <2>1, <2>2, <3>1, <3>4 DEF HelperTypes
      <4>2. plan'[h].windows = plan[h].windows /\ plan'[h].legacyHandoff = plan[h].legacyHandoff
            /\ plan'[h].old = o
        BY <4>1 DEF PlanTypes
      <4>3. hpc'[h] = IF plan[h].keepOldProcess THEN "handoff"
                      ELSE IF plan[h].legacyHandoff THEN "final" ELSE "shutdown"
        BY <3>1, <3>2, <3>4 DEF Holder
      <4>4. plan[h].keepOldProcess => plan[h].legacyHandoff
        BY <1>0 DEF Planned
      <4>5. ~plan[h].legacyHandoff => hpc'[h] = "shutdown"
        BY <4>3, <4>4
      <4>6. hpc'[h] \in {"handoff", "final", "shutdown"} /\ hosted'[o] \subseteq plan[h].windows
        BY <1>1, <3>4, <4>3 DEF Cautious
      <4> QED
        BY <2>2, <3>4, <4>2, <4>5, <4>6 DEF Cautious
    <3> QED
      BY <2>4, <3>3, <3>4
  <2> QED
    BY <2>3, <2>4
<1>9. CASE ServerFound(h) \/ ServerSilent(h)
  <2>1. CASE \E x : Return(h, x)
    BY <1>5, <2>1
  <2>2. CASE ~\E x : Return(h, x)
    <3>1. \/ hpc' = [hpc EXCEPT ![h] = "snapshot"] /\ UNCHANGED purpose
          \/ hpc' = [hpc EXCEPT ![h] = "judge"] /\ purpose' = [purpose EXCEPT ![h] = "owner"]
      BY <1>9, <2>2 DEF ServerFound, ServerSilent
    <3>2. purpose[h] # "old"
      BY <1>0, <1>9 DEF ServerFound, ServerSilent, Routed
    <3>3. hpc'[h] \in {"judge", "snapshot"} /\ purpose'[h] # "old"
      BY <1>0, <3>1, <3>2 DEF HelperTypes
    <3> QED
      BY <3>3 DEF Cautious
  <2> QED
    BY <2>1, <2>2
<1>10. CASE Snapshot(h)
  <2>1. CASE \E x : Return(h, x)
    BY <1>5, <2>1
  <2>2. CASE ~\E x : Return(h, x)
    <3>1. /\ target[h] \in Answering /\ plan' = [plan EXCEPT ![h] = Replacement(target[h])]
          /\ hpc' = [hpc EXCEPT ![h] = "judge"] /\ hpc[h] = "snapshot"
      BY <1>10, <2>2 DEF Snapshot
    <3>2. target[h] = o
      BY <1>0, <1>1, <3>1 DEF Replaced
    <3>3. hpc'[h] = "judge" /\ plan'[h] = Replacement(o)
      BY <1>0, <3>1, <3>2 DEF HelperTypes
    <3>4. Replacement(o).windows = hosted[o]
      BY DEF Replacement, NoPlan
    <3> QED
      BY <3>3, <3>4 DEF Cautious
  <2> QED
    BY <2>1, <2>2
<1>11. CASE HandoffWindow(h) \/ RequestShutdown(h)
  <2>1. /\ purpose'[h] = purpose[h] /\ plan'[h] = plan[h] /\ purpose[h] = "old"
        /\ \/ hpc[h] = "handoff" /\ hpc'[h] \in {"handoff", "final"}
           \/ hpc[h] = "shutdown" /\ hpc'[h] = "awaitExit"
    BY <1>0, <1>11 DEF HandoffWindow, RequestShutdown, Routed, HelperTypes
  <2>2. hpc[h] = "handoff" => plan[h].legacyHandoff
    BY <1>0 DEF Planned
  <2>3. hosted'[o] \subseteq plan[h].windows
    BY <1>1, <2>1 DEF Cautious
  <2> QED
    BY <1>1, <2>1, <2>2, <2>3 DEF Cautious
<1>12. CASE ServerExited(h)
  <2>1. /\ purpose'[h] = purpose[h] /\ plan'[h] = plan[h] /\ purpose[h] = "old"
        /\ hpc[h] = "awaitExit" /\ hpc'[h] = "final"
    BY <1>0, <1>12 DEF ServerExited, Routed, HelperTypes
  <2>2. plan[h].legacyHandoff
    <3>1. plan[h].old = o => FALSE
      BY <1>1, <1>3, <1>12, SessionAssumption DEF ServerExited
    <3> QED
      BY <1>1, <2>1, <3>1 DEF Cautious
  <2>3. hosted'[o] \subseteq plan[h].windows
    BY <1>1, <2>1 DEF Cautious
  <2> QED
    BY <1>1, <2>1, <2>2, <2>3 DEF Cautious
<1>13. CASE FinalCheck(h)
  <2>1. CASE \E x : Return(h, x)
    BY <1>5, <2>1
  <2>2. CASE ~\E x : Return(h, x)
    <3>1. hpc[h] = "final" /\ purpose[h] = "old"
      BY <1>0, <1>1, <1>13 DEF FinalCheck, Routed, Cautious
    <3>2. plan[h].legacyHandoff /\ hosted'[o] \subseteq plan[h].windows
      BY <1>1, <3>1 DEF Cautious
    <3>3. hpc'[h] = "spawn" /\ UNCHANGED <<purpose, plan>>
      BY <1>0, <1>13, <2>2, <3>2 DEF FinalCheck, HelperTypes
    <3> QED
      BY <3>1, <3>2, <3>3 DEF Cautious
  <2> QED
    BY <2>1, <2>2
<1>14. CASE ProbePath(h)
  <2>1. purpose[h] = "gcSocket" /\ UNCHANGED purpose
    BY <1>1, <1>14 DEF ProbePath, Cautious
  <2>2. Dialable # {} \/ path = 0
    BY <1>1 DEF Undisturbed, Dialable, BaseInv, TypeInv, ServerParts
  <2>3. hpc'[h] = "end"
    BY <1>0, <1>14, <2>1, <2>2 DEF ProbePath, HelperTypes
  <2> QED
    BY <1>4, <2>1, <2>3
<1>15. CASE ComparePath(h) \/ UnlinkPath(h)
  BY <1>1, <1>15 DEF ComparePath, UnlinkPath, Cautious
<1>16. CASE Spawn(h)
  <2>1. CASE \E x : Return(h, x)
    BY <1>5, <2>1
  <2>2. CASE ~\E x : Return(h, x)
    <3>1. hpc[h] = "spawn" /\ purpose[h] = "old"
      BY <1>0, <1>1, <1>16 DEF Spawn, Routed, Cautious
    <3>2. plan[h].legacyHandoff /\ hosted'[o] \subseteq plan[h].windows
      BY <1>1, <3>1 DEF Cautious
    <3>3. hpc'[h] = "awaitServer" /\ UNCHANGED <<purpose, plan>>
      BY <1>0, <1>16, <2>2 DEF Spawn, HelperTypes
    <3> QED
      BY <3>1, <3>2, <3>3 DEF Cautious
  <2> QED
    BY <2>1, <2>2
<1>17. CASE HandoffFails(h) \/ ExitTimeout(h) \/ ServerStarted(h) \/ StartTimeout(h)
  BY <1>5, <1>17 DEF HandoffFails, ExitTimeout, ServerStarted, StartTimeout
<1>18. CASE End(h)
  BY <1>0, <1>4, <1>18 DEF End, Forgets, HelperTypes
<1> QED
  BY <1>6, <1>7, <1>8, <1>9, <1>10, <1>11, <1>12, <1>13, <1>14, <1>15, <1>16, <1>17, <1>18
     DEF AnyHelperStep, HelperStep

LEMMA UndisturbedStep ==
  ASSUME BaseInv, ServeInv, NEW h \in Helpers, AnyHelperStep(h), Calm', NEW o \in Servers,
         Outlived(o)
  PROVE  Undisturbed(o)'
<1>0. /\ TypeInv /\ ServerParts /\ ControlInv /\ Calm /\ ~raced'
      /\ file \in [{"lock", "pid"} -> Pids]
      /\ purpose[h] = "old" => Replaced(target[h])
      /\ Routed(hpc[h], purpose[h])
  <2>1. [Next]_vars
    BY DEF AnyHelperStep, Next
  <2> QED
    BY <2>1, Lasting DEF BaseInv, TypeInv, DirTypes, LockInv, RouteInv, Calm
<1>1. Undisturbed(o) /\ Cautious(h, o) /\ o = Outgoing /\ Alive(o)
  BY <1>0 DEF ServeInv, OldInv, Outlived, BaseInv, PartInv, TypeInv, ServerParts
<1>2. Tracked
  BY <1>0, <1>1 DEF Tracked, Undisturbed
<1>3. displaced' = displaced /\ path' \in {path, 0}
  <2>1. ~UnlinkPath(h)
    BY <1>1 DEF UnlinkPath, Cautious
  <2> QED
    BY <2>1, HelperName
<1>4. hosted'[o] \subseteq hosted[o]
  BY HelperWindows
<1>5. file'["pid"] = file["pid"] /\ file["pid"] \in Servers /\ Alive(file["pid"])
  <2>1. file["pid"] \in Servers /\ Alive(file["pid"])
    BY <1>1 DEF Undisturbed
  <2> QED
    BY <1>0, <2>1, HelperRecords, GoneNotServing
<1>6. ASSUME NEW s \in Servers, Stable(s), life'[s] = "alive", s # o
      PROVE  Active(s)' /\ ~told'[s] /\ hosted'[o] \subseteq restore'[s] \cup hosted'[s] \cup refused'
  <2>1. /\ Active(s) /\ ~told[s] /\ hosted[o] \subseteq restore[s] \cup hosted[s] \cup refused
        /\ Alive(s) /\ Active(s)' /\ restore'[s] = restore[s] /\ refused' = refused
    <3>1. Alive(s)
      BY <1>6 DEF Stable, SameLife, Alive
    <3>2. refused' = refused
      BY <1>0, OnlyItself
    <3> QED
      BY <1>1, <1>6, <3>1, <3>2, StableActive DEF Undisturbed, Stable
  <2>2. purpose[h] = "old" /\ Alive(s) => s # target[h]
    BY <1>0, <1>1, <1>6 DEF Replaced
  <2>3. hosted'[s] = hosted[s]
    <3>1. ~(HandoffWindow(h) /\ s = target[h])
      BY <1>0, <2>1, <2>2 DEF HandoffWindow, Routed
    <3> QED
      BY <3>1, HelperWindows
  <2>4. ~told'[s]
    <3>1. ~(RequestShutdown(h) /\ s = target[h])
      BY <1>0, <2>1, <2>2 DEF RequestShutdown, Routed
    <3>2. ~(ServerStarted(h) /\ s # spawned[h])
      BY <1>2, <2>1 DEF ServerStarted, ServeInv, WaitInv, Waiting
    <3> QED
      BY <2>1, <3>1, <3>2, HelperWindows
  <2> QED
    BY <1>4, <2>1, <2>3, <2>4
<1>7. CASE \A s \in Servers : Stable(s)
  <2>1. path' # 0 => \E s \in Servers : path' \in open'[s]
    BY <1>1, <1>3, <1>7 DEF Undisturbed, Stable, SameNames
  <2>2. life'[file["pid"]] = "alive"
    BY <1>5, <1>7 DEF Stable, SameLife, Alive
  <2> QED
    BY <1>1, <1>3, <1>5, <1>6, <1>7, <2>1, <2>2 DEF Undisturbed, Alive
<1>8. ASSUME Spawn(h), NEW x \in Servers, Starts(h, x) PROVE Undisturbed(o)'
  <2>1. \A s \in Servers \ {x} : Stable(s)
    BY <1>8 DEF Starts, Same, Stable, SameLife, SameNames
  <2>2. /\ Active(x)' /\ ~told'[x] /\ restore'[x] = plan[h].windows
        /\ life'[x] = "alive" /\ SameNames(x)
    BY <1>8, StartsActive DEF Starts
  <2>3. hosted[o] \subseteq plan[h].windows
    BY <1>0, <1>1, <1>8 DEF Spawn, Routed, Cautious
  <2>4. path' # 0 => \E s \in Servers : path' \in open'[s]
    <3>1. \A s \in Servers : open'[s] = open[s]
      BY <2>1, <2>2 DEF Stable, SameNames
    <3> QED
      BY <1>1, <1>3, <3>1 DEF Undisturbed
  <2>5. life'[file["pid"]] = "alive"
    BY <1>5, <2>1, <2>2 DEF Stable, SameLife, Alive
  <2>6. ASSUME NEW s \in Servers, life'[s] = "alive", s # o
        PROVE  Active(s)' /\ ~told'[s] /\ hosted'[o] \subseteq restore'[s] \cup hosted'[s] \cup refused'
    BY <1>4, <1>6, <2>1, <2>2, <2>3, <2>6
  <2> QED
    BY <1>1, <1>3, <1>5, <2>4, <2>5, <2>6 DEF Undisturbed, Alive
<1> QED
  BY <1>7, <1>8, HelperTouches

LEMMA OldHelperStep ==
  ASSUME BaseInv, ServeInv, NEW h \in Helpers, AnyHelperStep(h)
  PROVE  OldInv'
<1>1. Calm' => Calm
  <2>1. [Next]_vars
    BY DEF AnyHelperStep, Next
  <2> QED
    BY <2>1, Lasting
<1>2. ASSUME Calm', NEW o \in Servers, Outlived(o)'
      PROVE  Undisturbed(o)' /\ \A g \in Helpers : Cautious(g, o)'
  <2>1. Outlived(o) /\ hosted'[o] \subseteq hosted[o]
    <3>1. hosted'[o] \subseteq hosted[o]
      BY HelperWindows
    <3>2. version'[o] = version[o] /\ at'[o] = "serving" => at[o] = "serving"
      BY HelperTouches DEF Stable, SameLife, Starts, Same
    <3>3. version'[o] = version[o]
      BY HelperTouches DEF Stable, SameLife, Starts, Same
    <3> QED
      BY <1>2, <3>1, <3>2, <3>3 DEF Outlived
  <2>2. Undisturbed(o)'
    BY <1>2, <2>1, UndisturbedStep
  <2>3. ASSUME NEW g \in Helpers \ {h} PROVE Cautious(g, o)'
    <3>1. Cautious(g, o)
      BY <1>1, <1>2, <2>1 DEF ServeInv, OldInv
    <3>2. hpc'[g] = hpc[g] /\ purpose'[g] = purpose[g] /\ plan'[g] = plan[g]
      BY OnlyItself DEF OnlyMoves, BaseInv
    <3> QED
      BY <2>1, <3>1, <3>2 DEF Cautious
  <2>4. Cautious(h, o)'
    BY <1>2, <2>1, CautiousStep
  <2> QED
    BY <2>2, <2>3, <2>4
<1> QED
  BY <1>2 DEF OldInv

LEMMA CarriedHelperStep ==
  ASSUME BaseInv, ServeInv, NEW h \in Helpers, AnyHelperStep(h)
  PROVE  CarriedInv'
<1>0. /\ (Calm' => Calm) /\ ended' = ended /\ refused' = refused
      /\ \A g \in Helpers \ {h} : /\ hpc'[g] = hpc[g] /\ purpose'[g] = purpose[g]
                                  /\ plan'[g] = plan[g] /\ life'[g] = life[g]
      /\ Routed(hpc[h], purpose[h])
  <2>1. [Next]_vars
    BY DEF AnyHelperStep, Next
  <2> QED
    BY <2>1, Lasting, OnlyItself DEF BaseInv, OnlyMoves, RouteInv
<1>1. ASSUME Calm', NEW g \in Helpers, NEW s \in Servers, life'[g] = "alive", purpose'[g] = "old",
             hpc'[g] = "awaitServer", Active(s)'
      PROVE  Carries(s, plan[g].windows)'
  <2>1. ASSUME Spawn(h), NEW x \in Servers, Starts(h, x) PROVE Carries(s, plan[g].windows)'
    <3>1. /\ hpc'[h] = "awaitServer" /\ InHand(h) /\ plan' = plan /\ purpose' = purpose
          /\ Alive(h) /\ hpc[h] = "spawn" /\ restore'[x] = plan[h].windows
      BY <2>1, SpawnerAlive DEF Starts
    <3>2. g = h
      <4>1. g # h => InHand(g)
        BY <1>0, <1>1 DEF InHand, Alive
      <4> QED
        BY <1>0, <1>1, <3>1, <4>1, OneHolder
    <3>3. \A q \in Servers : ~Active(q)
      BY <1>0, <1>1, <3>1, <3>2, NoneWhenSpawned DEF ServeInv
    <3>4. s = x /\ ~told'[x] /\ at'[x] = "boot"
      BY <1>1, <2>1, <3>3, StartsActive
    <3> QED
      BY <3>1, <3>2, <3>4 DEF Carries
  <2>2. CASE \A q \in Servers : Stable(q)
    <3>1. g # h
      <4>1. ASSUME Spawn(h) PROVE mishap'
        BY <2>2, <4>1, SpawnEffect DEF SpawnFails, BaseInv, Stable, SameLife, Starts
      <4> QED
        BY <1>1, <4>1, WaitRoute DEF Calm
    <3>2. Updating(g) /\ hpc[g] = "awaitServer" /\ Active(s) /\ InHand(g) /\ plan'[g] = plan[g]
      BY <1>0, <1>1, <2>2, <3>1, StableActive DEF Updating, InHand, Alive
    <3>3. Carries(s, plan[g].windows)
      BY <1>0, <1>1, <3>2 DEF ServeInv, CarriedInv
    <3>4. ~InHand(h)
      BY <1>0, <1>1, <3>1, <3>2, OneHolder
    <3>5. ~(HandoffWindow(h) \/ RequestShutdown(h) \/ ServerStarted(h))
      BY <1>0, <3>4 DEF HandoffWindow, RequestShutdown, ServerStarted, InHand, Routed
    <3>6. hosted'[s] = hosted[s] /\ told'[s] = told[s]
      BY <3>5, HelperWindows
    <3>7. at'[s] = at[s] /\ restore'[s] = restore[s]
      BY <2>2 DEF Stable
    <3> QED
      BY <1>0, <3>2, <3>3, <3>6, <3>7 DEF Carries
  <2> QED
    BY <2>1, <2>2, HelperTouches
<1> QED
  BY <1>1 DEF CarriedInv, Updating, Alive

(* Short of a mishap a helper gives up an update only when it is done.     *)
LEMMA UpdateEnds ==
  ASSUME BaseInv, ServeInv, NEW h \in Helpers, AnyHelperStep(h), Calm', Updating(h)
  PROVE  \/ ServerStarted(h)
         \/ life'[h] = "alive" /\ purpose'[h] = "old" /\ plan'[h].windows = plan[h].windows
<1>0. /\ HelperTypes /\ TypeInv /\ Routed(hpc[h], "old") /\ purpose[h] = "old" /\ Alive(h) /\ Calm
      /\ plan[h].windows # {} /\ Helpers \cap Servers = {}
      /\ life \in [Processes -> {"none", "alive", "dead", "reused"}]
  <2>1. [Next]_vars
    BY DEF AnyHelperStep, Next
  <2> QED
    BY <2>1, Lasting, SessionAssumption
       DEF BaseInv, TypeInv, DirTypes, RouteInv, Updating, Planned
<1>1. ~(InstallLock(h) \/ Start(h) \/ LockTimeout(h) \/ ServerFound(h) \/ ServerSilent(h)
        \/ Snapshot(h) \/ ComparePath(h) \/ End(h))
  BY <1>0 DEF InstallLock, Start, LockTimeout, ServerFound, ServerSilent, Snapshot, ComparePath,
     End, Routed, Alive
<1>2. ~(HandoffFails(h) \/ ExitTimeout(h) \/ StartTimeout(h))
  BY DEF HandoffFails, ExitTimeout, StartTimeout, Calm
<1>3. ASSUME purpose' = purpose, life' = life \/ Spawn(h)
      PROVE  life'[h] = "alive" /\ purpose'[h] = "old" /\ plan'[h].windows = plan[h].windows
  <2>1. life'[h] = "alive"
    <3>1. CASE Spawn(h)
      <4>1. life' = life \/ \E s \in Servers : life' = [life EXCEPT ![s] = "alive"]
        BY <3>1 DEF Spawn
      <4> QED
        BY <1>0, <4>1 DEF Alive, Processes
    <3> QED
      BY <1>0, <1>3, <3>1 DEF Alive
  <2>2. purpose'[h] = "old" /\ ~Takes(h)
    BY <1>0, <1>3 DEF Takes, Routed
  <2> QED
    BY <2>1, <2>2, OldRoute
<1>4. CASE JudgeRecord(h) \/ Recheck(h) \/ Unlink(h) \/ HandoffWindow(h) \/ RequestShutdown(h)
           \/ ServerExited(h) \/ ProbePath(h) \/ UnlinkPath(h)
  BY <1>3, <1>4 DEF JudgeRecord, Recheck, Unlink, HandoffWindow, RequestShutdown, ServerExited,
     ProbePath, UnlinkPath
<1>5. CASE FinalCheck(h)
  <2>1. ~\E s \in Answering : plan[h] = NoPlan \/ version[s] = "current"
    <3>1. \A s \in Servers : ~Active(s)
      BY <1>0, <1>5 DEF FinalCheck, ServeInv, NoneYet, Updating
    <3>2. plan[h] # NoPlan
      BY <1>0 DEF NoPlan
    <3> QED
      BY <3>1, <3>2 DEF Answering, Dialable, Active
  <2>2. purpose' = purpose /\ life' = life
    BY <1>5, <2>1 DEF FinalCheck
  <2> QED
    BY <1>3, <2>2
<1>6. CASE Spawn(h)
  <2>1. purpose' = purpose
    BY <1>6 DEF Spawn, Calm
  <2> QED
    BY <1>3, <1>6, <2>1
<1> QED
  BY <1>1, <1>2, <1>4, <1>5, <1>6 DEF AnyHelperStep, HelperStep

(* When it is done, the successor has the windows.                         *)
LEMMA UpdateDone ==
  ASSUME BaseInv, ServeInv, NEW h \in Helpers, ServerStarted(h), Calm', Updating(h),
         NEW w \in plan[h].windows \ (ended \cup refused)
  PROVE  \E s \in Servers : Hosts(s, w)'
<1>0. AnyHelperStep(h) /\ hpc[h] = "awaitServer" /\ Calm
  <2>1. AnyHelperStep(h)
    BY DEF AnyHelperStep, HelperStep
  <2>2. [Next]_vars
    BY <2>1 DEF AnyHelperStep, Next
  <2> QED
    BY <2>1, <2>2, Lasting DEF ServerStarted
<1>1. PICK s \in Answering : version[s] = "current"
  BY DEF ServerStarted
<1>2. s \in Servers /\ Active(s) /\ at[s] = "serving"
  BY <1>1 DEF Answering, Dialable, Active
<1>3. s = spawned[h] /\ Carries(s, plan[h].windows)
  BY <1>0, <1>2 DEF ServeInv, Successor, CarriedInv
<1>4. Hosts(s, w)
  BY <1>2, <1>3 DEF Carries, Hosts
<1>5. ~HandoffWindow(h) /\ ~RequestShutdown(h)
  BY <1>0 DEF HandoffWindow, RequestShutdown
<1>6. hosted'[s] = hosted[s] /\ told'[s] = told[s]
  BY <1>0, <1>2, <1>3, <1>5, HelperWindows
<1>7. at'[s] = at[s]
  BY <1>0, <1>2 DEF ServerStarted
<1> QED
  BY <1>2, <1>4, <1>6, <1>7 DEF Hosts

LEMMA KeptHelperStep ==
  ASSUME BaseInv, ServeInv, NEW h \in Helpers, AnyHelperStep(h)
  PROVE  KeptInv'
<1>0. /\ (Calm' => Calm) /\ UNCHANGED <<ended, refused, workspace>>
      /\ \A g \in Helpers \ {h} : /\ purpose'[g] = purpose[g] /\ plan'[g] = plan[g]
                                  /\ life'[g] = life[g]
      /\ Routed(hpc[h], purpose[h]) /\ Planned(hpc[h], purpose[h], plan[h])
      /\ purpose[h] = "old" => Replaced(target[h])
      /\ HelperTypes
  <2>1. [Next]_vars
    BY DEF AnyHelperStep, Next
  <2> QED
    BY <2>1, Lasting, OnlyItself DEF BaseInv, TypeInv, OnlyMoves, RouteInv
<1>1. ASSUME Calm', NEW w \in workspace \ (ended \cup refused), Updating(h), w \in plan[h].windows
      PROVE  (\E s \in Servers : Hosts(s, w)') \/ \E g \in Helpers : Updating(g)' /\ w \in plan'[g].windows
  <2>1. CASE ServerStarted(h)
    BY <1>1, <2>1, UpdateDone
  <2>2. CASE ~ServerStarted(h)
    BY <1>1, <2>2, UpdateEnds DEF Updating, Alive
  <2> QED
    BY <2>1, <2>2
<1>2. ASSUME Calm', NEW w \in workspace \ (ended \cup refused), NEW s \in Servers, Hosts(s, w)
      PROVE  (\E q \in Servers : Hosts(q, w)') \/ \E g \in Helpers : Updating(g)' /\ w \in plan'[g].windows
  <2>1. at'[s] = "serving"
    BY <1>2, HelperTouches DEF Hosts, Stable, Starts, Same, BaseInv, TypeInv, ServerParts, Alive
  <2>2. CASE hosted'[s] # hosted[s] /\ w \notin hosted'[s]
    <3>1. HandoffWindow(h) /\ w \in plan[h].windows
      BY <1>2, <2>2, HelperWindows DEF Hosts
    <3>2. Updating(h)
      BY <1>0, <3>1 DEF HandoffWindow, Routed, Updating
    <3> QED
      BY <1>1, <1>2, <3>1, <3>2
  <2>3. CASE told'[s] # told[s]
    <3>1. CASE RequestShutdown(h) /\ s = target[h] /\ s \in Answering
      <4>1. Updating(h)
        BY <1>0, <3>1 DEF RequestShutdown, Routed, Updating
      <4>2. Outlived(s)
        BY <1>0, <1>2, <3>1, <4>1 DEF Replaced, Answering, Dialable, Updating, Outlived, Hosts
      <4>3. hosted[s] \subseteq plan[h].windows
        BY <1>0, <1>2, <4>1, <4>2 DEF ServeInv, OldInv, Cautious, Updating
      <4> QED
        BY <1>1, <1>2, <4>1, <4>3 DEF Hosts
    <3>2. CASE ServerStarted(h) /\ s = plan[h].old /\ s # spawned[h] /\ Alive(s)
      <4>1. Updating(h)
        <5>1. plan[h] # NoPlan
          BY <3>2, SessionAssumption DEF NoPlan
        <5> QED
          BY <1>0, <3>2, <5>1 DEF ServerStarted, Routed, Planned, Updating
      <4>2. version[s] # "current"
        BY <1>0, <1>2, <3>2, <4>1 DEF ServeInv, Successor, ServerStarted, Active, Hosts
      <4>3. Outlived(s)
        BY <1>2, <4>2 DEF Outlived, Hosts, BaseInv, TypeInv, ServerTypes
      <4>4. hosted[s] \subseteq plan[h].windows
        BY <1>0, <1>2, <4>1, <4>3 DEF ServeInv, OldInv, Cautious, Updating
      <4> QED
        BY <1>1, <1>2, <4>1, <4>4 DEF Hosts
    <3> QED
      BY <2>3, <3>1, <3>2, HelperWindows
  <2>4. CASE w \in hosted'[s] /\ told'[s] = told[s]
    BY <1>2, <2>1, <2>4 DEF Hosts
  <2> QED
    BY <1>2, <2>2, <2>3, <2>4 DEF Hosts
<1> QED
  BY <1>0, <1>1, <1>2 DEF KeptInv, ServeInv, Updating, Alive

(***************************************************************************)
(* The theorems                                                            *)
(***************************************************************************)
LEMMA ServeHelperStep ==
  ASSUME BaseInv, ServeInv, NEW h \in Helpers, AnyHelperStep(h)
  PROVE  ServeInv'
<1>1. NoneYet' /\ Successor' /\ WaitInv' /\ OneInv'
  BY StartHelperStep
<1>2. OwnerInv'
  BY OwnerHelperStep
<1>3. ReachedInv' /\ RecordedInv'
  BY PlaceHelperStep
<1>4. OldInv'
  BY OldHelperStep
<1>5. KeptInv' /\ CarriedInv'
  BY KeptHelperStep, CarriedHelperStep
<1> QED
  BY <1>1, <1>2, <1>3, <1>4, <1>5 DEF ServeInv

LEMMA ServeOtherStep ==
  ASSUME BaseInv, ServeInv, OtherStep
  PROVE  ServeInv'
<1>1. /\ NoneYet /\ Successor /\ OldInv /\ OwnerInv /\ WaitInv /\ OneInv /\ ReachedInv
      /\ RecordedInv /\ KeptInv /\ CarriedInv
  BY DEF ServeInv
<1>2. NoneYet' /\ Successor' /\ OwnerInv' /\ WaitInv' /\ OneInv'
  BY <1>1, StartOtherStep
<1>3. ReachedInv' /\ RecordedInv'
  BY <1>1, PlaceOtherStep
<1>4. OldInv'
  BY <1>1, OldOtherStep
<1>5. KeptInv' /\ CarriedInv'
  BY <1>1, WindowsOtherStep
<1> QED
  BY <1>2, <1>3, <1>4, <1>5 DEF ServeInv

(* A crash is one of the accidents the invariant makes an exception for.   *)
LEMMA ServeCrash ==
  ASSUME BaseInv, NEW p \in Processes, Crash(p)
  PROVE  ServeInv'
<1>1. ~Calm' /\ ~Tracked'
  <2>1. mishap'
    BY CrashEffect DEF BaseInv
  <2> QED
    BY <2>1, Zenon DEF Calm, Tracked
<1>2. NoneYet' /\ Successor' /\ OldInv' /\ KeptInv' /\ CarriedInv'
  BY <1>1, Zenon DEF NoneYet, Successor, OldInv, KeptInv, CarriedInv
<1>3. OwnerInv' /\ WaitInv' /\ OneInv' /\ ReachedInv' /\ RecordedInv'
  BY <1>1, Zenon DEF OwnerInv, WaitInv, OneInv, ReachedInv, RecordedInv
<1> QED
  BY <1>2, <1>3 DEF ServeInv

LEMMA ServeStep == BaseInv /\ ServeInv /\ [Next]_vars => ServeInv'
<1> SUFFICES ASSUME BaseInv, ServeInv, [Next]_vars PROVE ServeInv'
  OBVIOUS
<1>1. CASE \E h \in Helpers : AnyHelperStep(h)
  BY <1>1, ServeHelperStep
<1>2. CASE OtherStep
  BY <1>2, ServeOtherStep
<1>3. CASE \E p \in Processes : Crash(p)
  BY <1>3, ServeCrash
<1> QED
  BY <1>1, <1>2, <1>3 DEF Next, AnyHelperStep, OtherStep

LEMMA ServeInductive == Spec => [](BaseInv /\ ServeInv)
<1>1. Init => BaseInv /\ ServeInv
  BY InitTypes, InitLock, InitRoute, InitServers, InitServe DEF BaseInv
<1>2. BaseInv /\ ServeInv /\ [Next]_vars => BaseInv' /\ ServeInv'
  BY BaseStep, ServeStep
<1> QED
  BY <1>1, <1>2, PTL DEF Spec

(* ensureServer, serveSession, runServer: however many helpers attach,     *)
(* update and collect garbage, and however many servers they start, at     *)
(* most one of the helpers' version serves the session, unless a process   *)
(* crashes, misses a deadline or is left without a window, a lock is       *)
(* removed in the moment after its comparison, or a record of the first    *)
(* server is removed too late in the ways that OneWorkspace names.         *)
THEOREM OneServerServes == Spec => []OneWorkspace
<1>1. ASSUME BaseInv, ServeInv PROVE OneWorkspace
  <2> DEFINE S == {s \in Servers : Alive(s) /\ at[s] = "serving"
                                   /\ version[s] = "current" /\ ~told[s]}
  <2>1. CASE Tracked
    <3>1. \A q, s \in S : q = s
      BY <1>1, <2>1 DEF ServeInv, OneInv, Active
    <3>2. Cardinality(S) <= 1
      <4>1. CASE S = {}
        BY <4>1, FS_EmptySet
      <4>2. ASSUME NEW s \in S PROVE Cardinality(S) <= 1
        <5>1. S = {s}
          BY <3>1, <4>2
        <5>2. Cardinality({s}) = 1
          BY FS_Singleton
        <5> QED
          BY <5>1, <5>2
      <4> QED
        BY <4>1, <4>2
    <3> QED
      BY <3>2 DEF OneWorkspace
  <2>2. CASE ~Tracked
    <3>1. disturbances \in Nat
      BY <1>1, SessionAssumption DEF BaseInv, TypeInv, DirTypes
    <3>2. mishap \/ raced \/ displaced = {"path", "pid"} \/ ("pid" \in displaced /\ disturbances > 1)
      <4>1. ~(disturbances <= 1) => disturbances > 1
        BY <3>1
      <4> QED
        BY <2>2, <4>1, Zenon DEF Tracked, Calm
    <3> QED
      BY <3>2, Zenon DEF OneWorkspace
  <2> QED
    BY <2>1, <2>2
<1> QED
  BY <1>1, ServeInductive, PTL

(* ensureServer, restoreOrCreateInitialWindow: a replacement, however it   *)
(* is interleaved with other helpers and servers, loses no window but      *)
(* those it cannot start again: short of crashes, deadlines and servers    *)
(* left without a window, each of the others is in a live server or in the *)
(* snapshot of a helper that starts one.                                   *)
THEOREM NoWindowIsLost == Spec => []WindowsSurvive
<1>1. ASSUME BaseInv, ServeInv PROVE WindowsSurvive
  <2>1. CASE Calm
    <3>1. ASSUME NEW w \in workspace \ (ended \cup refused)
          PROVE  \/ \E s \in Servers : Alive(s) /\ w \in hosted[s]
                 \/ \E h \in Helpers : Alive(h) /\ w \in plan[h].windows
      BY <1>1, <2>1 DEF ServeInv, KeptInv, Hosts, Updating, BaseInv, TypeInv, ServerParts
    <3> QED
      BY <3>1 DEF WindowsSurvive
  <2>2. CASE ~Calm
    BY <2>2, Zenon DEF WindowsSurvive, Calm
  <2> QED
    BY <2>1, <2>2
<1> QED
  BY <1>1, ServeInductive, PTL
=============================================================================
