----------------------------- MODULE MCAlgorithms -----------------------------
(***************************************************************************)
(* The two algorithms that are checked over all inputs of a bounded size:  *)
(* the trimming of the replay window, whose loops are run step by step,    *)
(* and the assignment of Pi sessions, which is one evaluation.             *)
(***************************************************************************)
EXTENDS AcpTrimLoop, FiniteSetsExt

Pi == INSTANCE PiSessions

CONSTANT
  PiTimes               \* bound: the slots of time, which begin at 2

VARIABLE restore        \* what discoverPiSessions is called with
allvars == <<vars, restore>>

None == [windows |-> <<>>, files |-> <<>>]

(***************************************************************************)
(* Sessions files: written to after they were created, and created after   *)
(* the file that the chain of their parents begins with.                   *)
(***************************************************************************)
Written == {t \in PiTimes \X PiTimes : t[1] <= t[2]}

First(cwd, name, t) ==
  [cwd |-> cwd, name |-> name, created |-> t[1], mod |-> t[2], parent |-> 0,
   from |-> [cwd |-> cwd, created |-> t[1]]]
\* Made by /new from the first one, or moved from a directory that is gone.
After1(e) == [e EXCEPT !.parent = 1]
Moved(e, t) == [e EXCEPT !.from = [cwd |-> "a", created |-> t]]

PiFiles ==
  LET one == {First("a", n, t) : n \in {"none", "x"}, t \in Written}
      two == one \cup {After1(First("a", "none", t)) : t \in Written}
                 \cup {Moved(First("b", "none", t), Min(PiTimes)) : t \in Written}
                 \cup {First("b", "x", t) : t \in Written}
  IN {<<e>> : e \in one} \cup {<<First("a", "none", t), f>> : t \in {Min(PiTimes)} \X PiTimes, f \in two}

(***************************************************************************)
(* Windows: a live one has a process whose start may be unknown.           *)
(***************************************************************************)
PiTitles == {[name |-> "none", cwd |-> "none"], [name |-> "none", cwd |-> "b"],
             [name |-> "x", cwd |-> "a"]}
PiWindow(live, start, confirmed, proofs, title, activity, held, cwd) ==
  [tool |-> "pi", shell |-> TRUE, live |-> live, start |-> start, confirmed |-> confirmed,
   proofs |-> proofs, title |-> title, activity |-> activity, held |-> held, cwd |-> cwd]

PiWindows ==
  LET plain == [name |-> "none", cwd |-> "none"] IN
  {PiWindow(TRUE, s, TRUE, <<>>, t, a, h, "a") :
     s \in PiTimes \cup {0}, t \in PiTitles, a \in {0, Max(PiTimes)}, h \in {0, 1}}
  \cup {PiWindow(TRUE, Min(PiTimes), TRUE, <<1>>, plain, 0, 0, "a")}
  \cup {PiWindow(FALSE, 0, c, <<>>, t, a, 1, "a") :
          c \in BOOLEAN, t \in PiTitles, a \in {0, Max(PiTimes)}}
\* The second window is one of a few.
SecondWindows ==
  {w \in PiWindows : w.live /\ w.start # 0 /\ w.activity # 0 /\ w.title.cwd # "b"}
  \cup {PiWindow(TRUE, s, TRUE, <<>>, [name |-> "none", cwd |-> "b"], Max(PiTimes), 0, "b") :
          s \in PiTimes}
  \cup {[PiWindow(FALSE, 0, TRUE, <<>>, [name |-> "none", cwd |-> "none"], 0, 1, "a")
           EXCEPT !.tool = "other"]}

(***************************************************************************)
(* One input is a behaviour of its own.                                    *)
(***************************************************************************)
OneWindow == [kind |-> "note", bytes |-> Min(WindowSizes), pinned |-> FALSE]

MCInit ==
  \/ Init /\ restore = None
  \/ /\ \E w \in PiWindows, more \in {<<>>} \cup {<<v>> : v \in SecondWindows},
          es \in PiFiles : restore = [windows |-> <<w>> \o more, files |-> es]
     /\ window = <<>> /\ slice = <<>> /\ total = 0 /\ phase = "done"
     /\ index = 1 /\ remaining = 0 /\ kept = <<>>

MCSpec == MCInit /\ [][Next /\ UNCHANGED restore]_allvars

(***************************************************************************)
(* The evidence for which session a Pi window had is never stretched: no   *)
(* two windows go on with one session, none with one that was not written  *)
(* to by its process or that it left, and what cannot be told apart stays  *)
(* open (discoverPiSessions).                                              *)
(***************************************************************************)
RestoredRightly ==
  LET ws == restore.windows
      es == restore.files
      got == Pi!Discovered(ws, es, <<"a", "b">>)
  IN /\ Pi!SoleOwners(ws, es, got)
     /\ Pi!NothingStale(ws, es, got)
     /\ Pi!NothingLeft(ws, es, got)
     /\ Pi!AmbiguousStaysOpen(ws, got)
=============================================================================
