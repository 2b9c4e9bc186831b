------------------------------ MODULE AcpReplay ------------------------------
(***************************************************************************)
(* The bounded replay window of an ACP bridge (acp_bridge.go): which       *)
(* events the bridge retains for clients that are away, and what it tells  *)
(* a client that attaches about the ones it no longer has.                 *)
(*                                                                         *)
(* The Go code keeps the window as a slice ordered by sequence number.     *)
(* Here it is a function from the retained sequence numbers to events, so  *)
(* "the head of the slice" is the least element of its domain.  Every      *)
(* operator is a set comprehension; module AcpTrimLoop checks the trimming *)
(* ones against the loops of the code.                                     *)
(***************************************************************************)
EXTENDS Integers, FiniteSets, Functions

CONSTANTS
  ReplayMaxEvents,      \* acpReplayMaxEvents
  ReplayMaxBytes,       \* acpReplayMaxBytes
  PendingMaxEvents,     \* acpPendingReplayMaxEvents
  PendingMaxBytes,      \* acpPendingReplayMaxBytes
  AdaptiveMaxBytes      \* acpAdaptiveReplayMaxBytes

(* The byte limits count a whole frame each, the event limit leaves a      *)
(* compacted window that is not empty.                                     *)
ASSUME LimitsAssumption ==
  /\ ReplayMaxEvents \in Nat /\ ReplayMaxEvents >= 2
  /\ ReplayMaxBytes \in Nat \ {0}
  /\ PendingMaxEvents \in Nat \ {0}
  /\ PendingMaxBytes \in Nat
  /\ AdaptiveMaxBytes \in Nat

(* Payload bytes of the events of window r whose sequence numbers are in S. *)
Bytes(r, S) == SumFunctionOnSet([s \in S |-> r[s].bytes], S)

(* Events that hold an unanswered provider request: never evicted.         *)
Pinned(r) == {s \in DOMAIN r : r[s].pinned}

OverLimit(events, bytes, maxEvents, maxBytes) ==
  \/ events > maxEvents
  \/ bytes > maxBytes /\ events > 1

(* Does the window still exceed the limits once the events in gone have    *)
(* left it?  total is the bridge's byte counter for r.                     *)
OverWithout(r, total, gone, maxEvents, maxBytes) ==
  OverLimit(Cardinality(DOMAIN r \ gone), total - Bytes(r, gone),
            maxEvents, maxBytes)

(* First pass: unpinned events leave from the head until the window fits   *)
(* or a pinned event is at the head.                                       *)
HeadEvicted(r, total) ==
  {s \in DOMAIN r :
     /\ \A t \in DOMAIN r : t <= s => ~r[t].pinned
     /\ OverWithout(r, total, {t \in DOMAIN r : t < s},
                    ReplayMaxEvents, ReplayMaxBytes)}

CompactAnything(r, total) ==   \* mutant: unanswered requests leave as well
  {s \in DOMAIN r :
     OverWithout(r, total, {t \in DOMAIN r : t < s},
                 (ReplayMaxEvents * 7) \div 8, (ReplayMaxBytes * 7) \div 8)}

(* Second pass, when pinned events keep the first from fitting: unpinned   *)
(* events leave in order until the window is below seven eighths.          *)
CompactEvicted(r, total) ==
  {s \in DOMAIN r :
     /\ ~r[s].pinned
     /\ OverWithout(r, total, {t \in DOMAIN r : t < s /\ ~r[t].pinned},
                    (ReplayMaxEvents * 7) \div 8, (ReplayMaxBytes * 7) \div 8)}

(* What trimReplayLocked evicts, and what it leaves.                       *)
Evicted(r, total) ==
  LET head  == HeadEvicted(r, total)
      rest  == Restrict(r, DOMAIN r \ head)
      left  == total - Bytes(r, head)
  IN IF OverWithout(rest, left, {}, ReplayMaxEvents, ReplayMaxBytes)
     THEN head \cup CompactEvicted(rest, left)
     ELSE head

Trim(r, total) == Restrict(r, DOMAIN r \ Evicted(r, total))

(* The window after the pins of the events in S are dropped.               *)
Unpin(r, S) ==
  [s \in DOMAIN r |-> IF s \in S THEN [r[s] EXCEPT !.pinned = FALSE] ELSE r[s]]

(* retainedFrom of handleAttach: the oldest retained sequence number.      *)
RetainedFrom(r, highWater) ==
  IF DOMAIN r = {} THEN highWater + 1
  ELSE CHOOSE s \in DOMAIN r : \A t \in DOMAIN r : s <= t

HeadIncomplete(r, lastAck, highWater) ==   \* mutant: only the head is looked at
  lastAck + 1 < RetainedFrom(r, highWater)

(* Is an event that a client at lastAck still needs no longer retained?    *)
ReplayIncomplete(r, lastAck, highWater) ==
  \/ lastAck + 1 < RetainedFrom(r, highWater)
  \/ \E s \in lastAck + 1 .. highWater : s \notin DOMAIN r

(* The mode the bridge offers: only a client that has nothing yet may get  *)
(* anything but a plain replay.                                            *)
ReplayMode(r, total, lastAck, highWater, requested) ==
  CASE lastAck # 0              -> "plain"
    [] lastAck = 0 /\ requested = "pending"  -> "pending"
    [] lastAck = 0 /\ requested = "plain"    -> "plain"
    [] lastAck = 0 /\ requested = "adaptive" ->
         IF \/ total > AdaptiveMaxBytes
            \/ ReplayIncomplete(r, lastAck, highWater)
            \/ \E s \in DOMAIN r : r[s].kind = "request"
         THEN "pending" ELSE "direct"
=============================================================================
