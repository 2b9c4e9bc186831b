----------------------------- MODULE AcpTrimLoop -----------------------------
(***************************************************************************)
(* trimReplayLocked as the code runs it: one loop that drops the head of   *)
(* the slice, then one that walks the rest and compacts it in place.  A    *)
(* behaviour is one run of the function on some window; it must leave what *)
(* Trim of module AcpReplay says in one comprehension.                     *)
(***************************************************************************)
EXTENDS AcpReplay, Sequences

CONSTANTS
  WindowEvents,         \* bound: the windows trimmed hold at most this many
  WindowSizes           \* sizes of their events

VARIABLES
  window,               \* what the function was called with
  slice,                \* b.replay
  total,                \* b.replayBytes
  phase,
  index, remaining, kept   \* of the second loop
vars == <<window, slice, total, phase, index, remaining, kept>>

Windows ==
  UNION {[1 .. n -> [kind : {"note"}, bytes : WindowSizes, pinned : BOOLEAN]] :
           n \in 0 .. WindowEvents}

Init ==
  /\ window \in Windows
  /\ slice = [i \in DOMAIN window |->
                [seq |-> i, bytes |-> window[i].bytes, pinned |-> window[i].pinned]]
  /\ total = Bytes(window, DOMAIN window)
  /\ phase = "head"
  /\ index = 1
  /\ remaining = 0
  /\ kept = <<>>

SliceOver == OverLimit(Len(slice), total, ReplayMaxEvents, ReplayMaxBytes)

DropHead ==
  /\ phase = "head"
  /\ SliceOver
  /\ ~Head(slice).pinned
  /\ total' = total - Head(slice).bytes
  /\ slice' = Tail(slice)
  /\ UNCHANGED <<window, phase, index, remaining, kept>>

HeadDone ==
  /\ phase = "head"
  /\ SliceOver => Head(slice).pinned
  /\ phase' = IF SliceOver THEN "compact" ELSE "done"
  /\ remaining' = Len(slice)
  /\ UNCHANGED <<window, slice, total, index, kept>>

CompactKeepingBytes ==  \* mutant: compaction does not count the bytes it drops
  /\ phase = "compact"
  /\ index <= Len(slice)
  /\ IF /\ OverLimit(remaining, total, (ReplayMaxEvents * 7) \div 8,
                    (ReplayMaxBytes * 7) \div 8)
        /\ ~slice[index].pinned
     THEN remaining' = remaining - 1 /\ UNCHANGED kept
     ELSE kept' = Append(kept, slice[index]) /\ UNCHANGED remaining
  /\ index' = index + 1
  /\ UNCHANGED <<window, slice, total, phase>>

CompactStep ==
  /\ phase = "compact"
  /\ index <= Len(slice)
  /\ LET over == OverLimit(remaining, total, (ReplayMaxEvents * 7) \div 8,
                           (ReplayMaxBytes * 7) \div 8)
     IN IF over /\ ~slice[index].pinned
        THEN /\ remaining' = remaining - 1
             /\ total' = total - slice[index].bytes
             /\ UNCHANGED kept
        ELSE /\ kept' = Append(kept, slice[index])
             /\ UNCHANGED <<remaining, total>>
  /\ index' = index + 1
  /\ UNCHANGED <<window, slice, phase>>

CompactDone ==
  /\ phase = "compact"
  /\ index > Len(slice)
  /\ slice' = kept
  /\ phase' = "done"
  /\ UNCHANGED <<window, total, index, remaining, kept>>

Next == DropHead \/ HeadDone \/ CompactStep \/ CompactDone

Spec == Init /\ [][Next]_vars

(* When the loops have ended, the slice and the byte counter are what the  *)
(* comprehensions of AcpReplay say of the window they started from.        *)
TrimIsTheLoops ==
  phase = "done" =>
    LET expected == Trim(window, Bytes(window, DOMAIN window))
    IN /\ {slice[i].seq : i \in DOMAIN slice} = DOMAIN expected
       /\ \A i \in DOMAIN slice : \A j \in 1 .. i - 1 : slice[j].seq < slice[i].seq
       /\ total = Bytes(expected, DOMAIN expected)
=============================================================================
