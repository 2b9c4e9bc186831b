------------------------------ MODULE AcpStream ------------------------------
(***************************************************************************)
(* What the bridge and its client promise together: the events of a bridge *)
(* form one numbered stream; a view of it moves forward only, sees every   *)
(* event at most once and in order, and misses only events it has been     *)
(* told it would miss.                                                     *)
(***************************************************************************)
EXTENDS Naturals

VARIABLES
  published,            \* events the bridge has numbered
  delivered,            \* the last one the view has taken
  excused               \* the view knows events up to here may be missing
vars == <<published, delivered, excused>>

Init == published = 0 /\ delivered = 0 /\ excused = 0

Publish ==
  /\ published' = published + 1
  /\ UNCHANGED <<delivered, excused>>

(* The next event, or one after a gap that was disclosed in full.          *)
Deliver ==
  /\ \E n \in delivered + 1 .. published :
       /\ n = delivered + 1 \/ n <= excused + 1
       /\ delivered' = n
  /\ UNCHANGED <<published, excused>>

(* The view is told that history up to some event may be missing.          *)
Disclose ==
  /\ excused' \in delivered .. published
  /\ excused' >= excused
  /\ UNCHANGED <<published, delivered>>

(* The view starts at a baseline and knows that nothing before it comes.   *)
Baseline ==
  /\ delivered' \in delivered .. published
  /\ excused' = delivered'
  /\ UNCHANGED published

(* A new view, of an app that was restarted.                               *)
Restart == delivered' = 0 /\ excused' = 0 /\ UNCHANGED published

Next == Publish \/ Deliver \/ Disclose \/ Baseline \/ Restart

Spec == Init /\ [][Next]_vars
=============================================================================
