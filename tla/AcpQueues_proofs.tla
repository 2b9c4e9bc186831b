--------------------------- MODULE AcpQueues_proofs ---------------------------
(***************************************************************************)
(* What TLAPS proves about the queues of AcpBridge's clients: what an      *)
(* attach puts into one, what is added to it and taken from it, and that   *)
(* it has room.  The lemmas are about steps of an open bridge, OpenNext:   *)
(* module AcpSession_proofs needs them for a client that reconnects.       *)
(***************************************************************************)
EXTENDS AcpBridge_proofs, FiniteFacts, SequenceTheorems

(* The window's numbers are put in their order.                            *)
LEMMA AscendingOrders ==
  ASSUME NEW n \in Nat, NEW S \in SUBSET (1 .. n)
  PROVE  Enumerates(Ascending(S), S)
<1>1. \E q \in [1 .. Cardinality(S) -> S] :
        ToSet(q) = S /\ \A i, j \in DOMAIN q : i < j => q[i] < q[j]
  BY CanBeOrdered DEF Enumerates
<1> QED  BY <1>1, Zenon DEF Ascending, Enumerates

(***************************************************************************)
(* The window is never emptied                                             *)
(***************************************************************************)
LEMMA OldestIsRetained ==
  ASSUME NEW n \in Nat, NEW r, DOMAIN r \subseteq 1 .. n, DOMAIN r # {}
  PROVE  /\ RetainedFrom(r, n) \in DOMAIN r
         /\ \A s \in DOMAIN r : RetainedFrom(r, n) <= s
<1>1. \E s \in DOMAIN r : \A t \in DOMAIN r : s <= t
  BY LeastNumber
<1> QED  BY <1>1 DEF RetainedFrom

(* The last event of a window leaves it in neither pass, or pinned events  *)
(* stay before it.                                                         *)
LEMMA TrimLeaves ==
  ASSUME NEW n \in Nat, NEW r, DOMAIN r \subseteq 1 .. n, DOMAIN r # {}, NEW total
  PROVE  DOMAIN Trim(r, total) # {}
<1>1. PICK m \in DOMAIN r : \A k \in DOMAIN r : k <= m
  BY GreatestNumber
<1>2. ASSUME NEW max \in Nat, max >= 1, NEW bytes, NEW most
      PROVE  ~OverLimit(Cardinality({m}), bytes, max, most)
  <2>1. Cardinality({m}) = 1  BY FS_Singleton
  <2> QED  BY <1>2, <2>1 DEF OverLimit
<1>3. m \in Int /\ \A k \in DOMAIN r : k \in Int  OBVIOUS
<1>4. m \notin HeadEvicted(r, total)
  <2>1. DOMAIN r \ {t \in DOMAIN r : t < m} = {m}  BY <1>1, <1>3
  <2>2. ReplayMaxEvents \in Nat /\ ReplayMaxEvents >= 1  BY LimitsAssumption
  <2> QED  BY <1>2, <2>1, <2>2 DEF HeadEvicted, OverWithout
<1> DEFINE head == HeadEvicted(r, total)
           rest == Restrict(r, DOMAIN r \ head)
           left == total - Bytes(r, head)
<1>5. DOMAIN rest = DOMAIN r \ head /\ m \in DOMAIN rest
  BY <1>1, <1>4 DEF Restrict
<1>6. \E s \in DOMAIN rest : s \notin CompactEvicted(rest, left)
  <2>1. CASE \E s \in DOMAIN rest : rest[s].pinned
    BY <2>1 DEF CompactEvicted
  <2>2. CASE \A s \in DOMAIN rest : ~rest[s].pinned
    <3> HIDE DEF rest, head
    <3>1. DOMAIN rest \ {t \in DOMAIN rest : t < m /\ ~rest[t].pinned} = {m}
      BY <1>1, <1>3, <1>5, <2>2
    <3>2. (ReplayMaxEvents * 7) \div 8 \in Nat /\ (ReplayMaxEvents * 7) \div 8 >= 1
      BY LimitsAssumption
    <3>3. m \notin CompactEvicted(rest, left)
      BY <1>2, <3>1, <3>2 DEF CompactEvicted, OverWithout
    <3> QED  BY <1>5, <3>3
  <2> QED  BY <2>1, <2>2
<1>7. \/ Evicted(r, total) = head
      \/ Evicted(r, total) = head \cup CompactEvicted(rest, left)
  BY DEF Evicted
<1>8. DOMAIN Trim(r, total) = DOMAIN r \ Evicted(r, total)
  BY TrimKeeps
<1> HIDE DEF rest, left, head
<1> QED  BY <1>4, <1>5, <1>6, <1>7, <1>8

(***************************************************************************)
(* What flows through a queue                                              *)
(***************************************************************************)
IsEvent(f) == f.type = "event"
EventsIn(q) == {i \in DOMAIN q : IsEvent(q[i])}

(* Queue q of a reader that has got everything up to number from: its      *)
(* events come later, no later than n, and in order.                       *)
InOrder(q, from, n) ==
  \A i \in EventsIn(q) :
    /\ q[i].seq \in Nat /\ from < q[i].seq /\ q[i].seq <= n
    /\ \A j \in EventsIn(q) : i < j => q[i].seq < q[j].seq

(* It has all events up to n, but for those the reader was told are gone.  *)
HasAll(q, from, gone, n) ==
  \A s \in from + 1 .. n : s \in gone \/ \E i \in EventsIn(q) : q[i].seq = s

(* Its events are what window r says of them, as far as r retains them.     *)
Faithful(q, r) ==
  \A i \in EventsIn(q) :
    q[i].seq \in DOMAIN r => q[i].kind = r[q[i].seq].kind /\ q[i].id = r[q[i].seq].id

Flows(q, from, gone, n) ==
  /\ InOrder(q, from, n)
  /\ \A i \in EventsIn(q) : HasAll(q, from, gone, q[i].seq)

LEMMA AppendParts ==
  ASSUME NEW F, NEW q \in Seq(F), NEW f \in F
  PROVE  /\ Append(q, f) \in Seq(F) /\ Len(q) \in Nat /\ Len(Append(q, f)) = Len(q) + 1
         /\ DOMAIN q = 1 .. Len(q) /\ DOMAIN Append(q, f) = 1 .. Len(q) + 1
         /\ \A i \in DOMAIN q : Append(q, f)[i] = q[i]
         /\ Append(q, f)[Len(q) + 1] = f
         /\ EventsIn(Append(q, f)) = IF IsEvent(f) THEN EventsIn(q) \cup {Len(q) + 1}
                                                  ELSE EventsIn(q)
<1>1. /\ Append(q, f) \in Seq(F) /\ Len(q) \in Nat /\ Len(Append(q, f)) = Len(q) + 1
      /\ DOMAIN q = 1 .. Len(q) /\ DOMAIN Append(q, f) = 1 .. Len(q) + 1
      /\ \A i \in DOMAIN q : Append(q, f)[i] = q[i]
      /\ Append(q, f)[Len(q) + 1] = f
  <2>1. Append(q, f) \in Seq(F) /\ Len(Append(q, f)) = Len(q) + 1 /\ Append(q, f)[Len(q) + 1] = f
        /\ \A i \in 1 .. Len(q) : Append(q, f)[i] = q[i]
    BY AppendProperties
  <2>2. Len(q) \in Nat /\ DOMAIN q = 1 .. Len(q)  BY LenProperties
  <2>3. DOMAIN Append(q, f) = 1 .. Len(Append(q, f))  BY <2>1, LenProperties
  <2> QED  BY <2>1, <2>2, <2>3
<1> DEFINE a == Append(q, f)
<1> HIDE DEF a
<1>2. EventsIn(a) = IF IsEvent(f) THEN EventsIn(q) \cup {Len(q) + 1} ELSE EventsIn(q)
  <2>1. /\ Len(q) \in Nat /\ DOMAIN q = 1 .. Len(q) /\ DOMAIN a = 1 .. Len(q) + 1
        /\ \A i \in DOMAIN q : a[i] = q[i]
        /\ a[Len(q) + 1] = f
    BY <1>1 DEF a
  <2>2. \A i : i \in DOMAIN a <=> i \in DOMAIN q \/ i = Len(q) + 1  BY <2>1
  <2>3. Len(q) + 1 \notin DOMAIN q  BY <2>1
  <2> QED  BY <2>1, <2>2, <2>3, Zenon DEF EventsIn
<1> QED  BY <1>1, <1>2 DEF a

LEMMA TailParts ==
  ASSUME NEW F, NEW q \in Seq(F), q # <<>>
  PROVE  /\ Tail(q) \in Seq(F) /\ Len(q) \in Nat /\ Len(q) >= 1 /\ Len(Tail(q)) = Len(q) - 1
         /\ DOMAIN q = 1 .. Len(q) /\ DOMAIN Tail(q) = 1 .. Len(q) - 1
         /\ \A i \in DOMAIN Tail(q) : Tail(q)[i] = q[i + 1]
         /\ Head(q) = q[1] /\ q[1] \in F
         /\ \A i : i \in EventsIn(Tail(q)) <=> i \in Nat \ {0} /\ i + 1 \in EventsIn(q)
<1>1. /\ Tail(q) \in Seq(F) /\ Len(Tail(q)) = Len(q) - 1
      /\ \A i \in 1 .. Len(Tail(q)) : Tail(q)[i] = q[i + 1]
  BY HeadTailProperties
<1>2. Len(q) \in Nat /\ DOMAIN q = 1 .. Len(q) /\ Len(q) >= 1  BY LenProperties, EmptySeq
<1>3. DOMAIN Tail(q) = 1 .. Len(q) - 1  BY <1>1, LenProperties
<1>4. Head(q) = q[1] /\ q[1] \in F  BY <1>2, ElementOfSeq
<1> DEFINE t == Tail(q)
<1> HIDE DEF t
<1>5. DOMAIN t = 1 .. Len(q) - 1 /\ \A i \in DOMAIN t : t[i] = q[i + 1]
  BY <1>1, <1>3 DEF t
<1>6. ASSUME NEW i
      PROVE  i \in EventsIn(t) <=> i \in Nat \ {0} /\ i + 1 \in EventsIn(q)
  BY <1>2, <1>5 DEF EventsIn
<1> QED  BY <1>1, <1>2, <1>3, <1>4, <1>6 DEF t

(* The next number is added to a queue that has all there is.              *)
LEMMA AddNext ==
  ASSUME NEW F, NEW q \in Seq(F), NEW f \in F, NEW from \in Nat, NEW gone, NEW n \in Nat,
         Flows(q, from, gone, n), HasAll(q, from, gone, n), from <= n,
         IsEvent(f), f.seq = n + 1
  PROVE  Flows(Append(q, f), from, gone, n + 1) /\ HasAll(Append(q, f), from, gone, n + 1)
<1> DEFINE a == Append(q, f)
           l == Len(q) + 1
<1>1. /\ Len(q) \in Nat /\ DOMAIN q = 1 .. Len(q) /\ EventsIn(q) \subseteq 1 .. Len(q)
      /\ \A i \in EventsIn(q) : a[i] = q[i]
      /\ a[l] = f /\ EventsIn(a) = EventsIn(q) \cup {l}
  BY AppendParts DEF EventsIn
<1> HIDE DEF a
<1>2. InOrder(a, from, n + 1)
  BY <1>1 DEF Flows, InOrder
<1>3. ASSUME NEW m \in Nat, m <= n, HasAll(q, from, gone, m)
      PROVE  HasAll(a, from, gone, m)
  BY <1>1, <1>3 DEF HasAll
<1>4. HasAll(a, from, gone, n + 1)
  <2>1. HasAll(a, from, gone, n)  BY <1>3
  <2> QED  BY <1>1, <2>1 DEF HasAll
<1>5. ASSUME NEW i \in EventsIn(a)
      PROVE  HasAll(a, from, gone, a[i].seq)
  BY <1>1, <1>3, <1>4 DEF Flows, InOrder
<1> QED  BY <1>2, <1>4, <1>5 DEF Flows, a

(* A frame that is no event changes nothing.                               *)
LEMMA AddOther ==
  ASSUME NEW F, NEW q \in Seq(F), NEW f \in F, NEW from, NEW gone, NEW n,
         Flows(q, from, gone, n), ~IsEvent(f)
  PROVE  /\ Flows(Append(q, f), from, gone, n)
         /\ HasAll(q, from, gone, n) => HasAll(Append(q, f), from, gone, n)
<1> DEFINE a == Append(q, f)
<1>1. EventsIn(a) = EventsIn(q) /\ \A i \in EventsIn(q) : a[i] = q[i]
  BY AppendParts DEF EventsIn
<1> HIDE DEF a
<1>2. \A m : HasAll(q, from, gone, m) => HasAll(a, from, gone, m)
  BY <1>1 DEF HasAll
<1>3. Flows(a, from, gone, n)
  BY <1>1, <1>2 DEF Flows, InOrder
<1> QED  BY <1>2, <1>3 DEF a

(* Whoever takes the first frame has got what it holds.                    *)
LEMMA TakeFirst ==
  ASSUME NEW F, NEW q \in Seq(F), q # <<>>, NEW from \in Nat, NEW gone, NEW n \in Nat,
         Flows(q, from, gone, n)
  PROVE  LET upTo == IF IsEvent(Head(q)) THEN Head(q).seq ELSE from
         IN /\ upTo \in Nat /\ upTo >= from /\ (upTo <= n \/ upTo = from)
            /\ Flows(Tail(q), upTo, gone, n)
            /\ HasAll(q, from, gone, n) => HasAll(Tail(q), upTo, gone, n)
<1> DEFINE t == Tail(q)
           upTo == IF IsEvent(Head(q)) THEN Head(q).seq ELSE from
<1>1. /\ Len(q) \in Nat /\ DOMAIN q = 1 .. Len(q) /\ DOMAIN t = 1 .. Len(q) - 1
      /\ \A i \in DOMAIN t : t[i] = q[i + 1]
      /\ Head(q) = q[1] /\ Len(q) >= 1
      /\ \A i : i \in EventsIn(t) <=> i \in Nat \ {0} /\ i + 1 \in EventsIn(q)
  BY TailParts
<1>2. \A i \in EventsIn(t) : t[i] = q[i + 1] /\ i \in Nat /\ i >= 1
  BY <1>1 DEF EventsIn
<1>3. IsEvent(Head(q)) <=> 1 \in EventsIn(q)
  BY <1>1 DEF EventsIn
<1>4. \A i \in EventsIn(q) : i \in Nat /\ i >= 1 /\ (i = 1 \/ i - 1 \in EventsIn(t))
  BY <1>1 DEF EventsIn
<1> HIDE DEF t
<1>5. upTo \in Nat /\ upTo >= from /\ (upTo <= n \/ upTo = from)
  BY <1>1, <1>3 DEF Flows, InOrder
<1>6. ASSUME NEW i \in EventsIn(t) PROVE upTo < t[i].seq
  <2>1. i + 1 \in EventsIn(q) /\ t[i] = q[i + 1] /\ 1 < i + 1  BY <1>1, <1>2
  <2>2. CASE IsEvent(Head(q))
    BY <1>1, <1>3, <2>1, <2>2 DEF Flows, InOrder
  <2>3. CASE ~IsEvent(Head(q))
    BY <2>1, <2>3 DEF Flows, InOrder
  <2> QED  BY <2>2, <2>3
<1> HIDE DEF upTo
<1>7. InOrder(t, upTo, n)
  BY <1>1, <1>2, <1>6 DEF Flows, InOrder
<1>8. ASSUME NEW m, HasAll(q, from, gone, m), m \in Nat
      PROVE  HasAll(t, upTo, gone, m)
  <2> SUFFICES ASSUME NEW s \in upTo + 1 .. m, s \notin gone
               PROVE  \E i \in EventsIn(t) : t[i].seq = s
    BY DEF HasAll
  <2>1. PICK i \in EventsIn(q) : q[i].seq = s
    BY <1>5, <1>8 DEF HasAll
  <2>2. i # 1
    BY <1>1, <1>3, <1>5, <2>1 DEF upTo
  <2>3. i - 1 \in EventsIn(t) /\ t[i - 1] = q[i]
    BY <1>2, <1>4, <2>2
  <2> QED  BY <2>1, <2>3
<1>9. Flows(t, upTo, gone, n)
  BY <1>1, <1>2, <1>7, <1>8 DEF Flows, InOrder
<1> QED  BY <1>5, <1>8, <1>9 DEF t, upTo

LEMMA NothingFlows ==
  ASSUME NEW from, NEW gone, NEW n
  PROVE  Flows(<<>>, from, gone, n) /\ \A r : Faithful(<<>>, r)
BY DEF Flows, InOrder, Faithful, EventsIn

(* What is gone stays gone, and later events change nothing before them.   *)
LEMMA FlowsOn ==
  ASSUME NEW q, NEW from, NEW gone, NEW lost, gone \subseteq lost, NEW n \in Nat, NEW m \in Nat,
         n <= m, Flows(q, from, gone, n)
  PROVE  /\ Flows(q, from, lost, m)
         /\ HasAll(q, from, gone, n) => HasAll(q, from, lost, n)
<1>1. InOrder(q, from, m)
  BY DEF Flows, InOrder
<1>2. \A k : HasAll(q, from, gone, k) => HasAll(q, from, lost, k)
  BY DEF HasAll
<1> QED  BY <1>1, <1>2 DEF Flows

(***************************************************************************)
(* Frames, and what an attach puts into a queue                            *)
(***************************************************************************)
States == {"running", "protocol_error", "exited", "stopped"}
Offers == {"plain", "pending", "direct"}

Hellos == [type : {"hello"}, canSend : BOOLEAN, mode : Offers, high : Nat, state : States]
Overflows == [type : {"overflow"}, from : Nat \ {0}]
Pendings == [type : {"pending"}, id : ProviderRequests]
Marks == [type : {"replay_end", "answer"}]
Numbered ==
  [type : {"event"}, seq : Nat \ {0}, kind : {"request"}, id : ProviderRequests] \cup
  [type : {"event"}, seq : Nat \ {0}, kind : {"result", "failure", "note", "bare", "garbled", "state"},
   id : ProviderRequests \cup ClientRequests \cup {Note, "protocol_error", "exited"}]
Frames == Hellos \cup Overflows \cup Pendings \cup Marks \cup Numbered

(* Requests in the window are the provider's, answered ones as well.       *)
WindowKept ==
  /\ nextSequence > 0 => DOMAIN replay # {}
  /\ \A s \in DOMAIN replay : replay[s].kind = "request" => replay[s].id \in ProviderRequests
  /\ \A s \in Pinned(replay) : replay[s].kind = "request"

(* A later window: fewer events, and the same.                             *)
Later(r, w) ==
  DOMAIN w \subseteq DOMAIN r /\ \A s \in DOMAIN w : w[s].kind = r[s].kind /\ w[s].id = r[s].id

WindowGoesOn == WindowKept' /\ Later(replay, replay')

LEMMA EventFrameIsFrame ==
  ASSUME NEW e \in Events, e.kind = "request" => e.id \in ProviderRequests,
         NEW s \in Nat, s > 0
  PROVE  /\ EventFrame(s, e) \in Frames /\ EventFrame(s, e).seq = s
         /\ EventFrame(s, e).type = "event" /\ IsEvent(EventFrame(s, e))
         /\ EventFrame(s, e).kind = e.kind /\ EventFrame(s, e).id = e.id
BY DEF EventFrame, Events, Frames, Numbered, IsEvent

LEMMA ReplayedParts ==
  ASSUME WindowType, WindowKept, NEW S \in SUBSET DOMAIN replay
  PROVE  /\ Replayed(S) \in Seq(Frames)
         /\ \A i \in DOMAIN Replayed(S) : IsEvent(Replayed(S)[i]) /\ Replayed(S)[i].seq \in S
         /\ \A i, j \in DOMAIN Replayed(S) : i < j => Replayed(S)[i].seq < Replayed(S)[j].seq
         /\ \A s \in S : \E i \in DOMAIN Replayed(S) : Replayed(S)[i].seq = s
         /\ \A i \in DOMAIN Replayed(S) : /\ Replayed(S)[i].kind = replay[Replayed(S)[i].seq].kind
                                          /\ Replayed(S)[i].id = replay[Replayed(S)[i].seq].id
<1> DEFINE q == Ascending(S)
           p == Replayed(S)
<1>1. nextSequence \in Nat /\ S \in SUBSET (1 .. nextSequence)
  BY DEF WindowType
<1>2. Enumerates(q, S)  BY <1>1, AscendingOrders
<1>3. Cardinality(S) \in Nat  BY <1>1, PartIsFinite
<1>4. p = [i \in DOMAIN q |-> EventFrame(q[i], replay[q[i]])]  BY DEF Replayed
<1> HIDE DEF q, p
<1>5. /\ DOMAIN q = 1 .. Cardinality(S) /\ \A i \in DOMAIN q : q[i] \in S
      /\ \A i, j \in DOMAIN q : i < j => q[i] < q[j]
  BY <1>2 DEF Enumerates
<1>6. \A s \in S : \E i \in DOMAIN q : q[i] = s
  BY <1>2, Zenon DEF Enumerates, ToSet
<1>7. \A s \in S : /\ EventFrame(s, replay[s]) \in Frames /\ EventFrame(s, replay[s]).seq = s
                   /\ IsEvent(EventFrame(s, replay[s]))
                   /\ EventFrame(s, replay[s]).kind = replay[s].kind
                   /\ EventFrame(s, replay[s]).id = replay[s].id
  <2> TAKE s \in S
  <2>1. s \in Nat /\ s > 0 /\ s \in DOMAIN replay  BY <1>1
  <2>2. replay[s] \in Events  BY <2>1 DEF WindowType
  <2>3. replay[s].kind = "request" => replay[s].id \in ProviderRequests
    BY <2>1 DEF WindowKept
  <2> QED  BY <2>1, <2>2, <2>3, EventFrameIsFrame
<1>8. /\ DOMAIN p = DOMAIN q
      /\ \A i \in DOMAIN q : /\ p[i] \in Frames /\ IsEvent(p[i]) /\ p[i].seq = q[i]
                             /\ p[i].kind = replay[q[i]].kind /\ p[i].id = replay[q[i]].id
  BY <1>4, <1>5, <1>7
<1>9. p \in Seq(Frames)  BY <1>3, <1>4, <1>5, <1>8
<1> QED  BY <1>5, <1>6, <1>8, <1>9 DEF p

LEMMA PendingParts ==
  ASSUME TypeOK, PendingIsPinned
  PROVE  /\ PendingFrames \in Seq(Frames)
         /\ \A i \in DOMAIN PendingFrames : PendingFrames[i] \in Pendings
         /\ \A i \in DOMAIN PendingFrames : PendingFrames[i].id \in pendingRequests
         /\ \A x \in pendingRequests : \E i \in DOMAIN PendingFrames : PendingFrames[i].id = x
<1> DEFINE S == Pinned(replay)
           q == Ascending(S)
           p == PendingFrames
<1>1. nextSequence \in Nat /\ S \in SUBSET (1 .. nextSequence)
  BY DEF TypeOK, WindowType, Pinned
<1>2. Enumerates(q, S)  BY <1>1, AscendingOrders
<1>3. Cardinality(S) \in Nat  BY <1>1, PartIsFinite
<1>4. p = [i \in DOMAIN q |-> [type |-> "pending", id |-> replay[q[i]].id]]
  BY DEF PendingFrames
<1>5. pendingRequests = {replay[s].id : s \in S}
  BY DEF PendingIsPinned
<1>6. pendingRequests \subseteq ProviderRequests  BY DEF TypeOK, BookType
<1> HIDE DEF S, q, p
<1>7. DOMAIN q = 1 .. Cardinality(S) /\ \A i \in DOMAIN q : q[i] \in S
  BY <1>2 DEF Enumerates
<1>8. \A s \in S : \E i \in DOMAIN q : q[i] = s
  BY <1>2, Zenon DEF Enumerates, ToSet
<1>9. DOMAIN p = DOMAIN q /\ \A i \in DOMAIN q : p[i].id = replay[q[i]].id /\ p[i] \in Pendings
  BY <1>4, <1>5, <1>6, <1>7 DEF Pendings
<1>10. p \in Seq(Pendings)  BY <1>3, <1>4, <1>7, <1>9
<1>11. p \in Seq(Frames)
  <2>1. Pendings \subseteq Frames  BY DEF Frames
  <2> QED  BY <1>10, <2>1, SeqMonotonic
<1>12. \A x : x \in pendingRequests <=> \E s \in S : x = replay[s].id  BY <1>5
<1>13. ASSUME NEW x \in pendingRequests
       PROVE  \E i \in DOMAIN p : p[i].id = x
  <2>1. PICK s \in S : x = replay[s].id  BY <1>12
  <2>2. PICK i \in DOMAIN q : q[i] = s  BY <1>8
  <2> QED  BY <1>9, <2>1, <2>2
<1>14. \A i \in DOMAIN p : p[i].id \in pendingRequests  BY <1>7, <1>9, <1>12
<1> QED  BY <1>9, <1>11, <1>13, <1>14 DEF p

LEMMA HelloIsFrame ==
  ASSUME TypeOK, NEW c, NEW mode \in Offers
  PROVE  HelloFrame(c, mode) \in Hellos /\ HelloFrame(c, mode).mode = mode
         /\ HelloFrame(c, mode).high = nextSequence
<1>1. (writerClientID \in {NoClient, c}) \in BOOLEAN  OBVIOUS
<1>2. nextSequence \in Nat /\ state \in States
  BY DEF TypeOK, WindowType, LifeType, States
<1> QED  BY <1>1, <1>2 DEF HelloFrame, Hellos

(* A fresh start: the pending requests and a baseline.                     *)
LEMMA PrimedPending ==
  ASSUME TypeOK, PendingIsPinned, NEW c, NEW lastAck
  PROVE  LET q == Primed(c, lastAck, "pending")
             l == Len(q)
         IN /\ q \in Seq(Frames) /\ l \in Nat /\ l >= 2 /\ DOMAIN q = 1 .. l
            /\ q[1] = HelloFrame(c, "pending")
            /\ q[l] = [type |-> "replay_end"]
            /\ \A i \in 2 .. l - 1 : q[i] \in Pendings /\ q[i].id \in pendingRequests
            /\ \A x \in pendingRequests : \E i \in 2 .. l - 1 : q[i].id = x
<1> DEFINE h == HelloFrame(c, "pending")
           e == [type |-> "replay_end"]
           p == PendingFrames
           q == Primed(c, lastAck, "pending")
<1>1. /\ p \in Seq(Frames) /\ \A i \in DOMAIN p : p[i] \in Pendings
      /\ \A i \in DOMAIN p : p[i].id \in pendingRequests
      /\ \A x \in pendingRequests : \E i \in DOMAIN p : p[i].id = x
  BY PendingParts
<1>2. h \in Frames /\ e \in Frames
  BY HelloIsFrame DEF Frames, Marks, Offers
<1>3. q = <<h>> \o (p \o <<e>>)  BY DEF Primed
<1> HIDE DEF h, e, p, q
<1>4. <<h>> \in Seq(Frames) /\ Len(<<h>>) = 1 /\ <<e>> \in Seq(Frames) /\ Len(<<e>>) = 1
      /\ <<h>>[1] = h /\ <<e>>[1] = e
  BY <1>2
<1>5. /\ p \o <<e>> \in Seq(Frames) /\ Len(p \o <<e>>) = Len(p) + 1
      /\ \A i \in 1 .. Len(p) + 1 :
           (p \o <<e>>)[i] = IF i <= Len(p) THEN p[i] ELSE <<e>>[i - Len(p)]
  BY <1>1, <1>4, ConcatProperties
<1>6. Len(p) \in Nat /\ DOMAIN p = 1 .. Len(p)  BY <1>1, LenProperties
<1>7. /\ q \in Seq(Frames) /\ Len(q) = Len(p) + 2
      /\ \A i \in 1 .. Len(p) + 2 : q[i] = IF i <= 1 THEN h ELSE (p \o <<e>>)[i - 1]
  <2>1. /\ q \in Seq(Frames) /\ Len(q) = 1 + Len(p \o <<e>>)
        /\ \A i \in 1 .. 1 + Len(p \o <<e>>) :
             q[i] = IF i <= 1 THEN <<h>>[i] ELSE (p \o <<e>>)[i - 1]
    BY <1>3, <1>4, <1>5, ConcatProperties
  <2> QED  BY <1>4, <1>5, <1>6, <2>1
<1>8. DOMAIN q = 1 .. Len(q)  BY <1>7, LenProperties
<1>9. q[1] = h  BY <1>6, <1>7
<1>10. q[Len(q)] = e
  <2>1. q[Len(q)] = (p \o <<e>>)[Len(p) + 1]  BY <1>6, <1>7
  <2>2. (p \o <<e>>)[Len(p) + 1] = <<e>>[1]  BY <1>5, <1>6
  <2> QED  BY <1>4, <2>1, <2>2
<1>11. \A i \in 2 .. Len(q) - 1 : q[i] = p[i - 1] /\ i - 1 \in DOMAIN p
  BY <1>5, <1>6, <1>7
<1>12. \A i \in DOMAIN p : i + 1 \in 2 .. Len(q) - 1 /\ q[i + 1] = p[i]
  BY <1>5, <1>6, <1>7
<1>13. /\ \A i \in 2 .. Len(q) - 1 : q[i] \in Pendings /\ q[i].id \in pendingRequests
       /\ \A x \in pendingRequests : \E i \in 2 .. Len(q) - 1 : q[i].id = x
  <2>1. ASSUME NEW i \in 2 .. Len(q) - 1
        PROVE  q[i] \in Pendings /\ q[i].id \in pendingRequests
    BY <1>1, <1>11
  <2>2. ASSUME NEW x \in pendingRequests
        PROVE  \E i \in 2 .. Len(q) - 1 : q[i].id = x
    <3>1. PICK i \in DOMAIN p : p[i].id = x  BY <1>1, Zenon
    <3> QED  BY <1>12, <3>1
  <2> QED  BY <2>1, <2>2
<1>14. Len(q) \in Nat /\ Len(q) >= 2  BY <1>6, <1>7
<1> QED
  BY <1>7, <1>8, <1>9, <1>10, <1>13, <1>14, Zenon DEF h, e, q

(* A replay: the retained events after lastAck, announced if incomplete.   *)
LEMMA PrimedReplay ==
  ASSUME TypeOK, WindowKept, NEW c, NEW lastAck \in 0 .. nextSequence, NEW mode \in {"plain", "direct"}
  PROVE  LET q    == Primed(c, lastAck, mode)
             gap  == ReplayIncomplete(replay, lastAck, nextSequence)
             from == RetainedFrom(replay, nextSequence)
             gone == {s \in 1 .. nextSequence : gap /\ s \notin DOMAIN replay}
         IN /\ q \in Seq(Frames) /\ q # <<>>
            /\ q[1] = HelloFrame(c, mode)
            /\ gap => /\ from \in 1 .. nextSequence
                      /\ 2 \in DOMAIN q /\ q[2] = [type |-> "overflow", from |-> from]
            /\ \A i \in DOMAIN q : i = 1 \/ (gap /\ i = 2) \/ (IsEvent(q[i]) /\ (gap => q[i].seq >= from))
            /\ Flows(q, lastAck, gone, nextSequence)
            /\ HasAll(q, lastAck, gone, nextSequence)
            /\ Faithful(q, replay)
<1> DEFINE h == HelloFrame(c, mode)
           gap == ReplayIncomplete(replay, lastAck, nextSequence)
           from == RetainedFrom(replay, nextSequence)
           o == IF gap THEN <<[type |-> "overflow", from |-> from]>> ELSE <<>>
           S == {s \in DOMAIN replay : s > lastAck}
           r == Replayed(S)
           q == Primed(c, lastAck, mode)
           off == IF gap THEN 2 ELSE 1
           gone == {s \in 1 .. nextSequence : gap /\ s \notin DOMAIN replay}
<1>1. /\ r \in Seq(Frames)
      /\ \A i \in DOMAIN r : IsEvent(r[i]) /\ r[i].seq \in S
      /\ \A i, j \in DOMAIN r : i < j => r[i].seq < r[j].seq
      /\ \A s \in S : \E i \in DOMAIN r : r[i].seq = s
      /\ \A i \in DOMAIN r : r[i].kind = replay[r[i].seq].kind /\ r[i].id = replay[r[i].seq].id
  BY ReplayedParts DEF TypeOK
<1>2. h \in Frames /\ ~IsEvent(h)
  BY HelloIsFrame DEF Frames, Offers, IsEvent, Hellos
<1>3. gap => from \in 1 .. nextSequence /\ \A s \in S : from <= s
  <2> SUFFICES ASSUME gap PROVE from \in 1 .. nextSequence /\ \A s \in S : from <= s
    OBVIOUS
  <2>1. nextSequence \in Nat /\ DOMAIN replay \subseteq 1 .. nextSequence
    BY DEF TypeOK, WindowType
  <2>2. nextSequence > 0
    <3> SUFFICES ASSUME nextSequence = 0 PROVE FALSE
      BY <2>1
    <3>0. lastAck = 0 /\ 1 .. nextSequence = {}  OBVIOUS
    <3>1. DOMAIN replay = {} /\ lastAck = 0  BY <2>1, <3>0, Zenon
    <3>2. from = 1  BY <3>1 DEF RetainedFrom
    <3> QED  BY <3>1, <3>2 DEF ReplayIncomplete
  <2>3. DOMAIN replay # {}  BY <2>2 DEF WindowKept
  <2> QED  BY <2>1, <2>3, OldestIsRetained
<1>4. o \in Seq(Frames) /\ Len(o) = off - 1 /\ (gap => o[1] = [type |-> "overflow", from |-> from])
  <2>1. CASE gap
    <3>1. [type |-> "overflow", from |-> from] \in Frames
      BY <1>3, <2>1 DEF Frames, Overflows
    <3> HIDE DEF gap, from
    <3> QED  BY <2>1, <3>1
  <2>2. CASE ~gap
    <3> HIDE DEF gap, from
    <3> QED  BY <2>2, EmptySeq
  <2> QED  BY <2>1, <2>2
<1>5. q = <<h>> \o (o \o r)
  BY Zenon DEF Primed
<1>6. S = {s \in DOMAIN replay : s > lastAck}  OBVIOUS
<1>7. nextSequence \in Nat /\ lastAck \in Nat /\ lastAck <= nextSequence
      /\ DOMAIN replay \subseteq 1 .. nextSequence
  BY DEF TypeOK, WindowType
<1>8. ~gap => \A s \in lastAck + 1 .. nextSequence : s \in DOMAIN replay
  BY <1>7 DEF ReplayIncomplete
<1>28. off \in {1, 2} /\ (off = 2 <=> gap)  OBVIOUS
<1> HIDE DEF h, gap, from, o, S, r, q, off
<1>9. <<h>> \in Seq(Frames) /\ Len(<<h>>) = 1 /\ <<h>>[1] = h
  BY <1>2
<1>10. /\ o \o r \in Seq(Frames) /\ Len(o \o r) = off - 1 + Len(r)
       /\ \A i \in 1 .. off - 1 + Len(r) :
            (o \o r)[i] = IF i <= off - 1 THEN o[i] ELSE r[i - (off - 1)]
  <2>1. /\ o \o r \in Seq(Frames) /\ Len(o \o r) = Len(o) + Len(r)
        /\ \A i \in 1 .. Len(o) + Len(r) : (o \o r)[i] = IF i <= Len(o) THEN o[i] ELSE r[i - Len(o)]
    BY <1>1, <1>4, ConcatProperties
  <2> QED  BY <1>4, <2>1, Zenon
<1>11. Len(r) \in Nat /\ DOMAIN r = 1 .. Len(r)  BY <1>1, LenProperties
<1>12. /\ q \in Seq(Frames) /\ Len(q) = off + Len(r)
       /\ \A i \in 1 .. off + Len(r) : q[i] = IF i <= 1 THEN h ELSE (o \o r)[i - 1]
  <2>1. /\ q \in Seq(Frames) /\ Len(q) = 1 + Len(o \o r)
        /\ \A i \in 1 .. 1 + Len(o \o r) : q[i] = IF i <= 1 THEN <<h>>[i] ELSE (o \o r)[i - 1]
    BY <1>5, <1>9, <1>10, ConcatProperties
  <2>2. Len(q) = off + Len(r)  BY <1>10, <1>11, <1>28, <2>1
  <2>3. 1 + Len(o \o r) = off + Len(r)  BY <1>10, <1>11, <1>28
  <2>4. ASSUME NEW i \in 1 .. off + Len(r)
        PROVE  q[i] = IF i <= 1 THEN h ELSE (o \o r)[i - 1]
    <3>1. q[i] = IF i <= 1 THEN <<h>>[i] ELSE (o \o r)[i - 1]  BY <2>1, <2>3
    <3>2. i <= 1 => i = 1  BY <1>11, <1>28
    <3> QED  BY <1>9, <3>1, <3>2
  <2> QED  BY <2>1, <2>2, <2>4
<1>13. DOMAIN q = 1 .. off + Len(r) /\ q # <<>> /\ off \in {1, 2} /\ (off = 2 <=> gap)
  BY <1>11, <1>12, <1>28, LenProperties, EmptySeq
<1>14. q[1] = h  BY <1>11, <1>12, <1>28
<1>15. gap => 2 \in DOMAIN q /\ q[2] = [type |-> "overflow", from |-> from]
  <2> SUFFICES ASSUME gap PROVE 2 \in DOMAIN q /\ q[2] = o[1]
    BY <1>4
  <2> QED  BY <1>10, <1>11, <1>12, <1>13
<1>16. \A i \in DOMAIN r : i + off \in DOMAIN q /\ q[i + off] = r[i]
  <2> TAKE i \in DOMAIN r
  <2>1. i \in 1 .. Len(r)  BY <1>11
  <2>2. PICK k : k = i + off  OBVIOUS
  <2>3. PICK j : j = k - 1  OBVIOUS
  <2>4. /\ k \in 1 .. off + Len(r) /\ ~(k <= 1)
        /\ j \in 1 .. off - 1 + Len(r) /\ ~(j <= off - 1) /\ j - (off - 1) = i
    BY <1>11, <1>28, <2>1, <2>2, <2>3
  <2>5. q[k] = (o \o r)[j]  BY <1>12, <2>3, <2>4
  <2>6. (o \o r)[j] = r[i]  BY <1>10, <2>4
  <2> QED  BY <1>13, <2>2, <2>4, <2>5, <2>6
<1>17. \A i \in DOMAIN q : i = 1 \/ (gap /\ i = 2) \/ (i - off \in DOMAIN r /\ q[i] = r[i - off])
  <2> TAKE i \in DOMAIN q
  <2>1. i \in Nat /\ (i = 1 \/ (gap /\ i = 2) \/ i - off \in DOMAIN r)  BY <1>11, <1>13
  <2>2. i - off \in DOMAIN r => q[(i - off) + off] = r[i - off]  BY <1>16
  <2> QED  BY <1>13, <2>1, <2>2
<1>18. ~IsEvent(q[1]) /\ (gap => ~IsEvent(q[2]))
  BY <1>2, <1>14, <1>15 DEF IsEvent
<1>19. \A i : i \in EventsIn(q) <=> i \in DOMAIN q /\ i - off \in DOMAIN r
  <2>1. \A i \in DOMAIN q : IsEvent(q[i]) => i - off \in DOMAIN r
    BY <1>17, <1>18
  <2>2. \A i \in DOMAIN q : i - off \in DOMAIN r => IsEvent(q[i])
    BY <1>1, <1>11, <1>13, <1>17
  <2> QED  BY <2>1, <2>2 DEF EventsIn
<1>20. \A i \in EventsIn(q) : i \in Nat /\ i - off \in DOMAIN r /\ q[i] = r[i - off]
  BY <1>11, <1>13, <1>17, <1>19
<1>21. \A s \in S : s \in Nat /\ lastAck < s /\ s <= nextSequence
  BY <1>6, <1>7
<1>22. InOrder(q, lastAck, nextSequence)
  <2> SUFFICES ASSUME NEW i \in EventsIn(q)
               PROVE  /\ q[i].seq \in Nat /\ lastAck < q[i].seq /\ q[i].seq <= nextSequence
                      /\ \A j \in EventsIn(q) : i < j => q[i].seq < q[j].seq
    BY DEF InOrder
  <2>1. q[i].seq \in S  BY <1>1, <1>20
  <2>2. ASSUME NEW j \in EventsIn(q), i < j PROVE q[i].seq < q[j].seq
    <3>1. i - off < j - off  BY <1>13, <1>20, <2>2
    <3> QED  BY <1>1, <1>20, <3>1
  <2> QED  BY <1>21, <2>1, <2>2
<1>23. ASSUME NEW m \in Nat, m <= nextSequence PROVE HasAll(q, lastAck, gone, m)
  <2> SUFFICES ASSUME NEW s \in lastAck + 1 .. m, s \notin gone
               PROVE  \E i \in EventsIn(q) : q[i].seq = s
    BY DEF HasAll
  <2>1. s \in lastAck + 1 .. nextSequence /\ s \in 1 .. nextSequence /\ s > lastAck
    BY <1>7, <1>23
  <2>2. s \in DOMAIN replay  BY <1>8, <2>1
  <2>3. s \in S  BY <1>6, <2>1, <2>2
  <2>4. PICK i \in DOMAIN r : r[i].seq = s  BY <1>1, <2>3
  <2>5. i + off \in DOMAIN q /\ q[i + off] = r[i]  BY <1>16
  <2>6. i + off \in EventsIn(q)  BY <1>1, <2>5 DEF EventsIn
  <2> QED  BY <2>4, <2>5, <2>6
<1>24. Flows(q, lastAck, gone, nextSequence)
  BY <1>22, <1>23 DEF Flows, InOrder
<1>25. \A i \in DOMAIN q : i = 1 \/ (gap /\ i = 2) \/ (IsEvent(q[i]) /\ (gap => q[i].seq >= from))
  <2> TAKE i \in DOMAIN q
  <2>1. CASE i - off \in DOMAIN r /\ q[i] = r[i - off]
    <3>1. IsEvent(q[i]) /\ q[i].seq \in S  BY <1>1, <2>1
    <3> QED  BY <1>3, <1>21, <3>1
  <2> QED  BY <1>17, <2>1
<1>26. HasAll(q, lastAck, gone, nextSequence)  BY <1>7, <1>23
<1>27. gap => from \in 1 .. nextSequence  BY <1>3
<1>29. Faithful(q, replay)
  BY <1>1, <1>20 DEF Faithful
<1> QED
  BY <1>12, <1>13, <1>14, <1>15, <1>24, <1>25, <1>26, <1>27, <1>29 DEF h, gap, from, q

(***************************************************************************)
(* The queues of all connections                                           *)
(***************************************************************************)
QueueType ==
  /\ send \in [Conns -> Seq(Frames)]
  /\ capacity \in [Conns -> Nat]
  /\ base \in [Conns -> Nat]
  /\ sent \in [Conns -> Nat]
  /\ disclosed \in [Conns -> BOOLEAN]

(* A connection that has not said hello, or that was closed.               *)
Away == {"idle", "accepted", "collecting"}
AwayIsEmpty == \A c \in Conns : pc[c] \in Away => c \notin clients /\ send[c] = <<>>

(* What client c was told it will not get: what the window had lost.       *)
Gone(c) == {s \in 1 .. base[c] : disclosed[c] /\ s \notin DOMAIN replay}

QueueFlows ==
  \A c \in Conns :
    /\ base[c] <= nextSequence /\ sent[c] <= nextSequence
    /\ Flows(send[c], sent[c], Gone(c), nextSequence)
    /\ c \in clients => HasAll(send[c], sent[c], Gone(c), nextSequence)
    /\ Faithful(send[c], replay)

QueueInv == QueueType /\ WindowKept /\ AwayIsEmpty /\ QueueFits /\ QueueFlows

(* An older window says no less of a queue.                                *)
LEMMA FaithfulOn ==
  ASSUME NEW q, NEW r, NEW w, Later(r, w), Faithful(q, r)
  PROVE  Faithful(q, w)
BY DEF Later, Faithful

LEMMA GoneOn ==
  ASSUME NEW c, base'[c] = base[c], disclosed'[c] = disclosed[c], DOMAIN replay' \subseteq DOMAIN replay
  PROVE  Gone(c) \subseteq Gone(c)'
BY DEF Gone

(* The queue of c stays as it is, and the window goes on.                  *)
LEMMA SameQueue ==
  ASSUME TypeOK, QueueInv, NEW c \in Conns, nextSequence' = nextSequence, WindowGoesOn,
         send'[c] = send[c], base'[c] = base[c], sent'[c] = sent[c], disclosed'[c] = disclosed[c],
         c \in clients' => c \in clients
  PROVE  /\ base'[c] <= nextSequence' /\ sent'[c] <= nextSequence'
         /\ Flows(send'[c], sent'[c], Gone(c)', nextSequence')
         /\ c \in clients' => HasAll(send'[c], sent'[c], Gone(c)', nextSequence')
         /\ Faithful(send'[c], replay')
<1>1. /\ base[c] <= nextSequence /\ sent[c] <= nextSequence
      /\ Flows(send[c], sent[c], Gone(c), nextSequence)
      /\ c \in clients => HasAll(send[c], sent[c], Gone(c), nextSequence)
      /\ Faithful(send[c], replay)
  BY DEF QueueInv, QueueFlows
<1>2. Gone(c) \subseteq Gone(c)'  BY GoneOn DEF WindowGoesOn, Later
<1>3. nextSequence \in Nat  BY DEF TypeOK, WindowType
<1>4. /\ Flows(send[c], sent[c], Gone(c)', nextSequence)
      /\ c \in clients => HasAll(send[c], sent[c], Gone(c)', nextSequence)
  BY <1>1, <1>2, <1>3, FlowsOn
<1>5. Faithful(send[c], replay')  BY <1>1, FaithfulOn DEF WindowGoesOn
<1> QED  BY <1>1, <1>4, <1>5

(* Steps that leave the queues alone.                                      *)
LEMMA SameQueues ==
  ASSUME TypeOK, QueueInv, UNCHANGED <<nextSequence, queueVars>>, WindowGoesOn,
         clients' \subseteq clients, \A c \in Conns : pc'[c] \in Away => pc[c] \in Away
  PROVE  QueueInv'
<1>1. UNCHANGED <<nextSequence, send, capacity, base, sent, disclosed>>
  BY DEF queueVars
<1>2. QueueType'  BY <1>1 DEF QueueInv, QueueType
<1>3. AwayIsEmpty'  BY <1>1 DEF QueueInv, AwayIsEmpty
<1>4. QueueFits'  BY <1>1 DEF QueueInv, QueueFits
<1>5. QueueFlows'
  <2> SUFFICES ASSUME NEW c \in Conns
               PROVE  /\ base'[c] <= nextSequence' /\ sent'[c] <= nextSequence'
                      /\ Flows(send'[c], sent'[c], Gone(c)', nextSequence')
                      /\ c \in clients' => HasAll(send'[c], sent'[c], Gone(c)', nextSequence')
                      /\ Faithful(send'[c], replay')
    BY DEF QueueFlows
  <2> QED  BY <1>1, SameQueue
<1> QED  BY <1>2, <1>3, <1>4, <1>5 DEF QueueInv, WindowGoesOn

LEMMA WindowKeptSame ==
  ASSUME WindowKept, UNCHANGED windowVars
  PROVE  WindowGoesOn
BY DEF WindowKept, WindowGoesOn, Later, windowVars

LEMMA ReleaseKeepsWindow ==
  ASSUME WindowType, WindowKept, NEW S, NEW total, replay' = Trim(Unpin(replay, S), total),
         nextSequence' = nextSequence
  PROVE  WindowGoesOn
<1> DEFINE free == Unpin(replay, S)
<1>1. DOMAIN free = DOMAIN replay
      /\ \A s \in DOMAIN replay : free[s].kind = replay[s].kind /\ free[s].id = replay[s].id
  BY DEF Unpin, WindowType, Events
<1>2. nextSequence \in Nat /\ DOMAIN replay \subseteq 1 .. nextSequence
  BY DEF WindowType
<1>6. Pinned(replay') \subseteq Pinned(replay)
  BY UnpinPins
<1> HIDE DEF free
<1>3. DOMAIN Trim(free, total) \subseteq DOMAIN free
      /\ \A s \in DOMAIN Trim(free, total) : Trim(free, total)[s] = free[s]
  BY TrimKeeps
<1>4. nextSequence > 0 => DOMAIN Trim(free, total) # {}
  BY <1>1, <1>2, TrimLeaves DEF WindowKept
<1>5. replay' = Trim(free, total)  BY DEF free
<1>7. Later(replay, replay')  BY <1>1, <1>3, <1>5 DEF Later
<1>8. \A s \in Pinned(replay') : replay'[s].kind = "request"
  BY <1>6, <1>7 DEF WindowKept, Later, Pinned
<1>9. WindowKept'  BY <1>4, <1>5, <1>7, <1>8 DEF WindowKept, Later
<1> QED  BY <1>7, <1>9 DEF WindowGoesOn

LEMMA PublishKeepsWindow ==
  ASSUME TypeOK, WindowKept, NEW e \in Events, e.kind = "request" => e.id \in ProviderRequests,
         e.pinned => e.kind = "request", Publish(e)
  PROVE  /\ WindowKept'
         /\ \A s \in DOMAIN replay' :
              \/ s = nextSequence + 1 /\ replay'[s] = e
              \/ s \in DOMAIN replay /\ replay'[s] = replay[s]
<1> DEFINE n == nextSequence + 1
           appended == [s \in DOMAIN replay \cup {n} |-> IF s = n THEN e ELSE replay[s]]
           total == replayBytes + e.bytes
<1>1. replay' = Trim(appended, total) /\ n \in Nat /\ nextSequence' = n
  BY DEF Publish, AppendReplay, TypeOK, WindowType
<1>2. DOMAIN appended \subseteq 1 .. n /\ DOMAIN appended # {}
  BY DEF TypeOK, WindowType
<1>3. \A s \in DOMAIN appended :
        \/ s = n /\ appended[s] = e
        \/ s \in DOMAIN replay /\ appended[s] = replay[s]
  OBVIOUS
<1> HIDE DEF appended, total
<1>4. DOMAIN Trim(appended, total) \subseteq DOMAIN appended
      /\ \A s \in DOMAIN Trim(appended, total) : Trim(appended, total)[s] = appended[s]
  BY TrimKeeps
<1>5. DOMAIN Trim(appended, total) # {}
  BY <1>1, <1>2, TrimLeaves
<1>6. \A s \in DOMAIN replay' :
        \/ s = n /\ replay'[s] = e
        \/ s \in DOMAIN replay /\ replay'[s] = replay[s]
  BY <1>1, <1>3, <1>4
<1>7. WindowKept'  BY <1>1, <1>5, <1>6 DEF WindowKept, Pinned
<1> QED  BY <1>6, <1>7

(* An event goes to every client that has room.                            *)
LEMMA PublishQueues ==
  ASSUME TypeOK, QueueInv, NEW e \in Events, e.kind = "request" => e.id \in ProviderRequests,
         e.pinned => e.kind = "request", Publish(e), \A c \in Conns : pc'[c] \in Away => pc[c] \in Away
  PROVE  QueueInv'
<1> DEFINE n == nextSequence + 1
           f == EventFrame(n, e)
<1>1. /\ WindowKept'
      /\ \A s \in DOMAIN replay' :
           \/ s = nextSequence + 1 /\ replay'[s] = e
           \/ s \in DOMAIN replay /\ replay'[s] = replay[s]
  BY PublishKeepsWindow DEF QueueInv
<1>2. nextSequence \in Nat /\ n \in Nat /\ n > 0 /\ clients \subseteq Conns
  BY DEF TypeOK, WindowType, LeaseType
<1>3. f \in Frames /\ IsEvent(f) /\ f.seq = n /\ f.kind = e.kind /\ f.id = e.id
  BY <1>2, EventFrameIsFrame
<1>4. /\ nextSequence' = n /\ UNCHANGED <<capacity, base, sent, disclosed>>
      /\ clients' = clients \ {c \in clients : Len(send[c]) >= capacity[c]}
      /\ send' = [c \in Conns |-> IF c \in clients' THEN Append(send[c], f) ELSE send[c]]
  BY DEF Publish, FanOut
<1> HIDE DEF n, f
<1>6. \A c \in Conns : send'[c] = IF c \in clients' THEN Append(send[c], f) ELSE send[c]
  BY <1>4
<1>7. \A c \in Conns : /\ send[c] \in Seq(Frames) /\ capacity[c] \in Nat /\ sent[c] \in Nat
                       /\ base[c] \in Nat
  BY DEF QueueInv, QueueType
<1>8. QueueType'
  <2>1. ASSUME NEW c \in Conns PROVE send'[c] \in Seq(Frames)
    <3>1. Append(send[c], f) \in Seq(Frames)  BY <1>3, <1>7, AppendProperties
    <3> QED  BY <1>6, <1>7, <3>1
  <2> QED  BY <1>4, <2>1 DEF QueueInv, QueueType
<1>9. AwayIsEmpty'
  BY <1>4, <1>6 DEF QueueInv, AwayIsEmpty
<1>10. QueueFits'
  <2> SUFFICES ASSUME NEW c \in Conns PROVE Len(send'[c]) <= capacity[c]
    BY <1>4 DEF QueueFits
  <2>1. Len(send[c]) \in Nat /\ Len(send[c]) <= capacity[c]
    BY <1>7, LenProperties DEF QueueInv, QueueFits
  <2>2. c \in clients' => ~(Len(send[c]) >= capacity[c])  BY <1>4
  <2>3. Len(Append(send[c], f)) = Len(send[c]) + 1  BY <1>3, <1>7, AppendProperties
  <2>4. CASE c \in clients'
    <3>1. Len(send'[c]) = Len(send[c]) + 1  BY <1>6, <2>3, <2>4
    <3> QED  BY <1>7, <2>1, <2>2, <2>4, <3>1
  <2>5. CASE c \notin clients'
    <3>1. send'[c] = send[c]  BY <1>6, <2>5
    <3> QED  BY <2>1, <3>1
  <2> QED  BY <2>4, <2>5
<1>11. QueueFlows'
  <2> SUFFICES ASSUME NEW c \in Conns
               PROVE  /\ base[c] <= n /\ sent[c] <= n
                      /\ Flows(send'[c], sent[c], Gone(c)', n)
                      /\ c \in clients' => HasAll(send'[c], sent[c], Gone(c)', n)
                      /\ Faithful(send'[c], replay')
    BY <1>4 DEF QueueFlows
  <2>1. /\ base[c] <= nextSequence /\ sent[c] <= nextSequence
        /\ Flows(send[c], sent[c], Gone(c), nextSequence)
        /\ c \in clients => HasAll(send[c], sent[c], Gone(c), nextSequence)
        /\ Faithful(send[c], replay)
    BY DEF QueueInv, QueueFlows
  <2>2. base[c] <= n /\ sent[c] <= n /\ nextSequence <= n /\ n = nextSequence + 1
    BY <1>2, <1>7, <2>1 DEF n
  <2>5. Gone(c) \subseteq Gone(c)'
    <3> SUFFICES ASSUME NEW s \in 1 .. base[c], s \in DOMAIN replay' PROVE s \in DOMAIN replay
      BY <1>4 DEF Gone
    <3> QED  BY <1>1, <1>2, <1>7, <2>1
  <2>6. /\ Flows(send[c], sent[c], Gone(c)', nextSequence)
        /\ Flows(send[c], sent[c], Gone(c)', n)
        /\ c \in clients => HasAll(send[c], sent[c], Gone(c)', nextSequence)
    BY <1>2, <2>1, <2>2, <2>5, FlowsOn
  <2>7. Faithful(send[c], replay')
    <3> SUFFICES ASSUME NEW i \in EventsIn(send[c]), send[c][i].seq \in DOMAIN replay'
                 PROVE  /\ send[c][i].kind = replay'[send[c][i].seq].kind
                        /\ send[c][i].id = replay'[send[c][i].seq].id
      BY DEF Faithful
    <3>1. send[c][i].seq # nextSequence + 1  BY <1>2, <2>1 DEF Flows, InOrder
    <3> QED  BY <1>1, <2>1, <3>1 DEF Faithful
  <2>3. CASE c \in clients'
    <3>1. HasAll(send[c], sent[c], Gone(c)', nextSequence)  BY <1>4, <2>3, <2>6
    <3>2. f.seq = nextSequence + 1  BY <1>3, <2>2
    <3>3. /\ Flows(Append(send[c], f), sent[c], Gone(c)', nextSequence + 1)
          /\ HasAll(Append(send[c], f), sent[c], Gone(c)', nextSequence + 1)
      BY <1>2, <1>3, <1>7, <2>1, <2>6, <3>1, <3>2, AddNext
    <3>4. send'[c] = Append(send[c], f)  BY <1>6, <2>3
    <3>5. Faithful(Append(send[c], f), replay')
      <4> DEFINE a == Append(send[c], f)
                 l == Len(send[c]) + 1
      <4>1. /\ EventsIn(a) = EventsIn(send[c]) \cup {l} /\ a[l] = f
            /\ \A i \in EventsIn(send[c]) : a[i] = send[c][i]
        BY <1>3, <1>7, AppendParts DEF EventsIn
      <4>2. f.seq \in DOMAIN replay' => replay'[f.seq] = e
        <5>1. nextSequence + 1 \notin DOMAIN replay  BY DEF TypeOK, WindowType
        <5> QED  BY <1>1, <3>2, <5>1
      <4> HIDE DEF a, l
      <4>3. Faithful(a, replay')
        BY <1>3, <2>7, <4>1, <4>2 DEF Faithful
      <4> QED  BY <4>3 DEF a
    <3> QED  BY <2>2, <3>3, <3>4, <3>5
  <2>4. CASE c \notin clients'
    <3>1. send'[c] = send[c]  BY <1>6, <2>4
    <3> QED  BY <2>2, <2>4, <2>6, <2>7, <3>1
  <2> QED  BY <2>3, <2>4
<1> QED  BY <1>1, <1>8, <1>9, <1>10, <1>11 DEF QueueInv

LEMMA PrimedAttach ==
  ASSUME TypeOK, PendingIsPinned, WindowKept, NEW c,
         NEW lastAck \in 0 .. nextSequence, NEW mode \in Offers
  PROVE  LET q    == Primed(c, lastAck, mode)
             from == IF mode = "pending" THEN nextSequence ELSE lastAck
             gap  == mode = "pending" \/ ReplayIncomplete(replay, lastAck, nextSequence)
             gone == {s \in 1 .. nextSequence : gap /\ s \notin DOMAIN replay}
         IN /\ q \in Seq(Frames)
            /\ Flows(q, from, gone, nextSequence)
            /\ HasAll(q, from, gone, nextSequence)
            /\ Faithful(q, replay)
<1> DEFINE q == Primed(c, lastAck, mode)
<1>1. CASE mode = "pending"
  <2>1. /\ q \in Seq(Frames) /\ Len(q) \in Nat /\ DOMAIN q = 1 .. Len(q)
        /\ q[1] = HelloFrame(c, "pending") /\ q[Len(q)] = [type |-> "replay_end"]
        /\ \A i \in 2 .. Len(q) - 1 : q[i] \in Pendings
    BY <1>1, PrimedPending
  <2>2. ~IsEvent(HelloFrame(c, "pending")) /\ ~IsEvent([type |-> "replay_end"])
        /\ \A p \in Pendings : ~IsEvent(p)
    BY DEF IsEvent, HelloFrame, Pendings
  <2> HIDE DEF q
  <2>3. EventsIn(q) = {}
    <3> SUFFICES ASSUME NEW i \in EventsIn(q) PROVE FALSE
      OBVIOUS
    <3>1. i \in 1 .. Len(q) /\ IsEvent(q[i])  BY <2>1 DEF EventsIn
    <3>2. PICK l \in Nat : l = Len(q)  BY <2>1
    <3>3. i \in 1 .. l  BY <3>1, <3>2
    <3>4. i = 1 \/ i = l \/ i \in 2 .. l - 1  BY <3>3
    <3> QED  BY <2>1, <2>2, <3>1, <3>2, <3>4
  <2>4. nextSequence + 1 .. nextSequence = {}  BY DEF TypeOK, WindowType
  <2> QED  BY <1>1, <2>1, <2>3, <2>4 DEF Flows, InOrder, HasAll, Faithful, q
<1>2. CASE mode \in {"plain", "direct"}
  <2>1. mode # "pending"  BY <1>2
  <2> HIDE DEF q
  <2> QED  BY <1>2, <2>1, PrimedReplay DEF q
<1> QED  BY <1>1, <1>2 DEF Offers

LEMMA OfferedModes ==
  ASSUME NEW lastAck, NEW requested \in {"plain", "pending", "adaptive"}
  PROVE  ReplayMode(replay, replayBytes, lastAck, nextSequence, requested) \in Offers
BY Zenon DEF ReplayMode, Offers

LEMMA AttachQueues ==
  ASSUME TypeOK, PendingIsPinned, QueueInv, NEW c \in Conns,
         NEW lastAck \in 0 .. nextSequence, NEW requested \in {"plain", "pending", "adaptive"},
         Attach(c, lastAck, requested)
  PROVE  QueueInv'
<1>1. WindowGoesOn
  BY WindowKeptSame DEF Attach, QueueInv
<1>2. CASE state = "stopped"
  <2>1. pc' = [pc EXCEPT ![c] = "idle"] /\ pc[c] = "accepted" /\ UNCHANGED <<windowVars, leaseVars, queueVars>>
    BY <1>2 DEF Attach
  <2> QED  BY <1>1, <2>1, SameQueues DEF TypeOK, HandlerType, Away, windowVars, leaseVars
<1>3. CASE state # "stopped"
  <2> DEFINE mode == ReplayMode(replay, replayBytes, lastAck, nextSequence, requested)
             q == Primed(c, lastAck, mode)
             from == IF mode = "pending" THEN nextSequence ELSE lastAck
             gap == mode = "pending" \/ ReplayIncomplete(replay, lastAck, nextSequence)
             gone == {s \in 1 .. nextSequence : gap /\ s \notin DOMAIN replay}
  <2>1. /\ clients' = clients \cup {c}
        /\ send' = [send EXCEPT ![c] = q]
        /\ capacity' = [capacity EXCEPT ![c] = QueueCapacityFor(Len(q))]
        /\ base' = [base EXCEPT ![c] = nextSequence]
        /\ sent' = [sent EXCEPT ![c] = from]
        /\ disclosed' = [disclosed EXCEPT ![c] = gap]
        /\ pc' = [pc EXCEPT ![c] = "serving"]
        /\ nextSequence' = nextSequence /\ replay' = replay
    BY <1>3 DEF Attach, Register, windowVars
  <2>2. mode \in Offers  BY OfferedModes
  <2>3. /\ q \in Seq(Frames)
        /\ Flows(q, from, gone, nextSequence)
        /\ HasAll(q, from, gone, nextSequence)
        /\ Faithful(q, replay)
    <3> HIDE DEF mode
    <3> QED  BY <2>2, PrimedAttach DEF QueueInv
  <2>4. nextSequence \in Nat /\ from \in Nat /\ from <= nextSequence /\ gap \in BOOLEAN
        /\ pc \in [Conns -> Idle \cup Working]
    BY DEF TypeOK, WindowType, HandlerType
  <2>5. /\ send \in [Conns -> Seq(Frames)] /\ capacity \in [Conns -> Nat]
        /\ base \in [Conns -> Nat] /\ sent \in [Conns -> Nat] /\ disclosed \in [Conns -> BOOLEAN]
    BY DEF QueueInv, QueueType
  <2>6. gone = {s \in 1 .. nextSequence : gap /\ s \notin DOMAIN replay}  OBVIOUS
  <2> HIDE DEF mode, q, from, gap, gone
  <2>7. Len(q) \in Nat /\ QueueCapacityFor(Len(q)) \in Nat /\ Len(q) <= QueueCapacityFor(Len(q))
    <3>1. Len(q) \in Nat  BY <2>3, LenProperties
    <3> QED  BY <3>1, BridgeAssumption DEF QueueCapacityFor
  <2>8. QueueType'  BY <2>1, <2>3, <2>4, <2>5, <2>7 DEF QueueType
  <2>9. /\ send'[c] = q /\ capacity'[c] = QueueCapacityFor(Len(q)) /\ base'[c] = nextSequence
        /\ sent'[c] = from /\ pc'[c] = "serving" /\ disclosed'[c] = gap
        /\ \A d \in Conns : d # c => /\ send'[d] = send[d] /\ capacity'[d] = capacity[d]
                                     /\ base'[d] = base[d] /\ sent'[d] = sent[d]
                                     /\ disclosed'[d] = disclosed[d] /\ pc'[d] = pc[d]
                                     /\ (d \in clients' <=> d \in clients)
    BY <2>1, <2>4, <2>5
  <2>10. AwayIsEmpty'
    <3>1. "serving" \notin Away  BY DEF Away
    <3> QED  BY <2>9, <3>1 DEF AwayIsEmpty, QueueInv
  <2>11. QueueFits'
    <3> SUFFICES ASSUME NEW d \in Conns PROVE Len(send'[d]) <= capacity'[d]
      BY DEF QueueFits
    <3>1. CASE d = c
      BY <2>7, <2>9, <3>1
    <3>2. CASE d # c
      <4>1. Len(send[d]) <= capacity[d]  BY DEF QueueInv, QueueFits
      <4> QED  BY <2>9, <3>2, <4>1
    <3> QED  BY <3>1, <3>2
  <2>12. Gone(c)' = gone
    BY <2>1, <2>6, <2>9 DEF Gone
  <2>13. QueueFlows'
    <3> SUFFICES ASSUME NEW d \in Conns
                 PROVE  /\ base'[d] <= nextSequence' /\ sent'[d] <= nextSequence'
                        /\ Flows(send'[d], sent'[d], Gone(d)', nextSequence')
                        /\ d \in clients' => HasAll(send'[d], sent'[d], Gone(d)', nextSequence')
                        /\ Faithful(send'[d], replay')
      BY DEF QueueFlows
    <3>1. CASE d = c
      BY <2>1, <2>3, <2>4, <2>9, <2>12, <3>1
    <3>2. CASE d # c
      BY <1>1, <2>1, <2>9, <3>2, SameQueue
    <3> QED  BY <3>1, <3>2
  <2> QED  BY <1>1, <2>8, <2>10, <2>11, <2>13 DEF QueueInv, WindowGoesOn
<1> QED  BY <1>2, <1>3

(* One queue changes: a frame is added or taken, or the connection closes. *)
LEMMA OneQueue ==
  ASSUME TypeOK, QueueInv, NEW c \in Conns, NEW q \in Seq(Frames),
         nextSequence' = nextSequence, WindowGoesOn, clients' \subseteq clients,
         send' = [send EXCEPT ![c] = q], QueueType',
         \A d \in Conns : d # c => /\ capacity'[d] = capacity[d] /\ base'[d] = base[d]
                                   /\ sent'[d] = sent[d] /\ disclosed'[d] = disclosed[d]
                                   /\ pc'[d] = pc[d],
         Len(q) <= capacity'[c], pc'[c] \in Away => c \notin clients' /\ q = <<>>,
         base'[c] <= nextSequence, sent'[c] <= nextSequence,
         Flows(q, sent'[c], Gone(c)', nextSequence),
         c \in clients' => HasAll(q, sent'[c], Gone(c)', nextSequence),
         Faithful(q, replay')
  PROVE  QueueInv'
<1>1. send \in [Conns -> Seq(Frames)]  BY DEF QueueInv, QueueType
<1>2. send'[c] = q /\ \A d \in Conns : d # c => send'[d] = send[d]
  BY <1>1
<1>3. AwayIsEmpty'
  BY <1>2 DEF QueueInv, AwayIsEmpty
<1>4. QueueFits'
  BY <1>2 DEF QueueInv, QueueFits
<1>5. QueueFlows'
  <2> SUFFICES ASSUME NEW d \in Conns
               PROVE  /\ base'[d] <= nextSequence' /\ sent'[d] <= nextSequence'
                      /\ Flows(send'[d], sent'[d], Gone(d)', nextSequence')
                      /\ d \in clients' => HasAll(send'[d], sent'[d], Gone(d)', nextSequence')
                      /\ Faithful(send'[d], replay')
    BY DEF QueueFlows
  <2>1. CASE d = c
    BY <1>2, <2>1
  <2>2. CASE d # c
    BY <1>2, <2>2, SameQueue
  <2> QED  BY <2>1, <2>2
<1> QED  BY <1>3, <1>4, <1>5 DEF QueueInv, WindowGoesOn

LEMMA CloseQueues ==
  ASSUME TypeOK, QueueInv, NEW c \in Conns, CloseConnection(c)
  PROVE  QueueInv'
<1>1. /\ c \notin clients /\ clients' = clients /\ nextSequence' = nextSequence
      /\ pc' = [pc EXCEPT ![c] = "idle"]
      /\ send' = [send EXCEPT ![c] = <<>>]
      /\ capacity' = [capacity EXCEPT ![c] = 0]
      /\ base' = [base EXCEPT ![c] = 0]
      /\ sent' = [sent EXCEPT ![c] = 0]
      /\ disclosed' = [disclosed EXCEPT ![c] = FALSE]
      /\ UNCHANGED windowVars
  BY DEF CloseConnection, leaseVars, windowVars
<1>2. WindowGoesOn  BY <1>1, WindowKeptSame DEF QueueInv
<1>3. <<>> \in Seq(Frames) /\ Len(<<>>) = 0  BY EmptySeq
<1>4. QueueType'  BY <1>1, <1>3 DEF QueueInv, QueueType
<1>5. \A d \in Conns : d # c => /\ capacity'[d] = capacity[d] /\ base'[d] = base[d]
                                /\ sent'[d] = sent[d] /\ disclosed'[d] = disclosed[d]
                                /\ pc'[d] = pc[d]
  BY <1>1 DEF QueueInv, QueueType, TypeOK, HandlerType
<1>6. capacity'[c] = 0 /\ base'[c] = 0 /\ sent'[c] = 0 /\ nextSequence \in Nat
  BY <1>1 DEF QueueInv, QueueType, TypeOK, WindowType
<1>7. Flows(<<>>, sent'[c], Gone(c)', nextSequence) /\ Faithful(<<>>, replay')  BY NothingFlows
<1> DEFINE q == <<>>
<1>8. q \in Seq(Frames) /\ Len(q) <= capacity'[c] /\ base'[c] <= nextSequence /\ sent'[c] <= nextSequence
  BY <1>3, <1>6
<1>9. c \notin clients' /\ clients' \subseteq clients  BY <1>1
<1> QED  BY <1>1, <1>2, <1>4, <1>5, <1>7, <1>8, <1>9, OneQueue

LEMMA AnswerQueues ==
  ASSUME TypeOK, QueueInv, NEW c \in Conns, Answer(c)
  PROVE  QueueInv'
<1>1. /\ pc' = [pc EXCEPT ![c] = "serving"]
      /\ UNCHANGED <<windowVars, nextSequence, capacity, base, sent, disclosed>>
  BY DEF Answer, windowVars
<1>2. \/ UNCHANGED send /\ clients' \subseteq clients
      \/ /\ c \in clients /\ Len(send[c]) < capacity[c] /\ clients' = clients
         /\ send' = [send EXCEPT ![c] = Append(@, [type |-> "answer"])]
  BY DEF Answer, leaseVars, Drop
<1>3. WindowGoesOn  BY <1>1, WindowKeptSame DEF QueueInv
<1>4. pc'[c] = "serving" /\ "serving" \notin Away /\ \A d \in Conns : d # c => pc'[d] = pc[d]
  BY <1>1 DEF TypeOK, HandlerType, Away
<1>5. CASE UNCHANGED send /\ clients' \subseteq clients
  BY <1>1, <1>3, <1>4, <1>5, SameQueues DEF queueVars
<1>6. CASE /\ c \in clients /\ Len(send[c]) < capacity[c] /\ clients' = clients
           /\ send' = [send EXCEPT ![c] = Append(@, [type |-> "answer"])]
  <2> DEFINE f == [type |-> "answer"]
             q == Append(send[c], f)
  <2>1. send \in [Conns -> Seq(Frames)] /\ capacity \in [Conns -> Nat]
    BY DEF QueueInv, QueueType
  <2>2. f \in Frames /\ ~IsEvent(f)  BY DEF Frames, Marks, IsEvent
  <2>3. send' = [send EXCEPT ![c] = q]  BY <1>6
  <2>4. Gone(c)' = Gone(c) /\ replay' = replay  BY <1>1 DEF Gone, windowVars
  <2>5. /\ base[c] <= nextSequence /\ sent[c] <= nextSequence
        /\ Flows(send[c], sent[c], Gone(c), nextSequence)
        /\ HasAll(send[c], sent[c], Gone(c), nextSequence)
        /\ Faithful(send[c], replay)
    BY <1>6 DEF QueueInv, QueueFlows
  <2> HIDE DEF f
  <2>6. q \in Seq(Frames) /\ Len(q) = Len(send[c]) + 1 /\ Len(send[c]) \in Nat
    BY <2>1, <2>2, AppendProperties, LenProperties
  <2>7. Flows(q, sent[c], Gone(c), nextSequence) /\ HasAll(q, sent[c], Gone(c), nextSequence)
    BY <2>1, <2>2, <2>5, AddOther
  <2>10. EventsIn(q) = EventsIn(send[c]) /\ \A i \in EventsIn(send[c]) : q[i] = send[c][i]
    BY <2>1, <2>2, AppendParts DEF EventsIn
  <2> HIDE DEF q
  <2>11. Faithful(q, replay')  BY <2>4, <2>5, <2>10 DEF Faithful
  <2>8. QueueType'  BY <1>1, <2>1, <2>3, <2>6 DEF QueueInv, QueueType
  <2>9. Len(q) <= capacity'[c]  BY <1>1, <1>6, <2>1, <2>6
  <2> QED  BY <1>1, <1>3, <1>4, <1>6, <2>3, <2>4, <2>5, <2>6, <2>7, <2>8, <2>9, <2>11, OneQueue
<1> QED  BY <1>2, <1>5, <1>6

LEMMA WriteQueues ==
  ASSUME TypeOK, QueueInv, NEW c \in Conns, WriteFrame(c)
  PROVE  QueueInv'
<1> DEFINE q == Tail(send[c])
           upTo == IF IsEvent(Head(send[c])) THEN Head(send[c]).seq ELSE sent[c]
<1>1. /\ send[c] # <<>> /\ clients' = clients /\ nextSequence' = nextSequence
      /\ send' = [send EXCEPT ![c] = q]
      /\ sent' = [sent EXCEPT ![c] = upTo]
      /\ UNCHANGED <<windowVars, pc, capacity, base, disclosed>>
  BY DEF WriteFrame, leaseVars, windowVars, handlerVars, IsEvent
<1>2. WindowGoesOn  BY <1>1, WindowKeptSame DEF QueueInv
<1>3. /\ send \in [Conns -> Seq(Frames)] /\ capacity \in [Conns -> Nat] /\ sent \in [Conns -> Nat]
      /\ disclosed \in [Conns -> BOOLEAN] /\ base \in [Conns -> Nat] /\ nextSequence \in Nat
  BY DEF QueueInv, QueueType, TypeOK, WindowType
<1>4. Gone(c)' = Gone(c) /\ replay' = replay  BY <1>1 DEF Gone, windowVars
<1>5. /\ base[c] <= nextSequence /\ sent[c] <= nextSequence /\ Len(send[c]) <= capacity[c]
      /\ Flows(send[c], sent[c], Gone(c), nextSequence)
      /\ c \in clients => HasAll(send[c], sent[c], Gone(c), nextSequence)
      /\ Faithful(send[c], replay)
      /\ pc[c] \notin Away
  BY <1>1 DEF QueueInv, QueueFlows, QueueFits, AwayIsEmpty
<1>6. q \in Seq(Frames) /\ Len(q) = Len(send[c]) - 1 /\ Len(send[c]) \in Nat
  BY <1>1, <1>3, TailParts
<1>7. /\ upTo \in Nat /\ upTo <= nextSequence
      /\ Flows(q, upTo, Gone(c), nextSequence)
      /\ c \in clients => HasAll(q, upTo, Gone(c), nextSequence)
  BY <1>1, <1>3, <1>4, <1>5, TakeFirst
<1>10. \A i \in EventsIn(q) : i + 1 \in EventsIn(send[c]) /\ q[i] = send[c][i + 1]
  BY <1>1, <1>3, TailParts DEF EventsIn
<1> HIDE DEF q, upTo
<1>8. QueueType'  BY <1>1, <1>3, <1>6, <1>7 DEF QueueType
<1>9. /\ Len(q) <= capacity'[c] /\ sent'[c] = upTo /\ base'[c] = base[c]
      /\ \A d \in Conns : d # c => sent'[d] = sent[d]
  BY <1>1, <1>3, <1>5, <1>6
<1>11. Faithful(q, replay')  BY <1>4, <1>5, <1>10 DEF Faithful
<1> QED  BY <1>1, <1>2, <1>4, <1>5, <1>6, <1>7, <1>8, <1>9, <1>11, OneQueue

(***************************************************************************)
(* What a step does to the window and the queues                           *)
(***************************************************************************)
(* No connection is attached or given up.                                  *)
SameAway == \A c \in Conns : pc'[c] \in Away <=> pc[c] \in Away

QuietStep == UNCHANGED <<windowVars, queueVars>> /\ clients' \subseteq clients /\ SameAway

PublishStep ==
  \E e \in Events :
    /\ e.kind = "request" => e.id \in ProviderRequests
    /\ e.pinned => e.kind = "request"
    /\ Publish(e) /\ SameAway

ReleaseStep ==
  /\ \E S : \E total : replay' = Trim(Unpin(replay, S), total)
  /\ UNCHANGED <<nextSequence, queueVars>> /\ clients' \subseteq clients /\ SameAway

AttachStep(c) ==
  \E lastAck \in 0 .. nextSequence, requested \in {"plain", "pending", "adaptive"} :
    Attach(c, lastAck, requested)

(* All steps but an attach and the writing of a frame.                     *)
InnerStep ==
  \/ ReaderStep \/ WaiterStep \/ StopperStep \/ ProviderDies \/ Age
  \/ \E c \in Conns :
       \/ Accept(c) \/ Hangup(c) \/ StopCommand(c) \/ GcCommand(c) \/ GcStop(c)
       \/ DetachClient(c) \/ CloseConnection(c) \/ OtherFrame(c) \/ Answer(c)
       \/ \E n \in 0 .. nextSequence : Ack(c, n)
       \/ \E m \in ClientMessages : ReceiveInput(c, m)
       \/ AnswerFromCache(c) \/ PassCache(c) \/ TrackRequest(c) \/ WriteProvider(c)
       \/ WriteFails(c) \/ UntrackRequest(c) \/ ObserveMessage(c)

LEMMA OpenKinds ==
  [OpenNext]_vars => [InnerStep]_vars \/ \E c \in Conns : AttachStep(c) \/ WriteFrame(c)
<1>1. ASSUME NEW c \in Conns, ConnectionStep(c) PROVE InnerStep \/ AttachStep(c)
  BY <1>1, BridgeAssumption DEF ConnectionStep, InnerStep, AttachStep
<1>2. ASSUME NEW c \in Conns, ClientStep(c) PROVE InnerStep \/ WriteFrame(c)
  BY <1>2 DEF ClientStep, InnerStep, FreshInputs
<1>3. ASSUME NEW c \in Conns, OpenStep(c) PROVE InnerStep \/ AttachStep(c)
  BY <1>3 DEF OpenStep, InnerStep, AttachStep
<1> QED  BY <1>1, <1>2, <1>3 DEF OpenNext, Next, InnerStep

LEMMA StepKinds ==
  ASSUME TypeOK, [InnerStep]_vars
  PROVE  \/ QuietStep \/ PublishStep \/ ReleaseStep
         \/ \E c \in Conns : CloseConnection(c) \/ Answer(c)
<1> DEFINE Goal == \/ QuietStep \/ PublishStep \/ ReleaseStep
                   \/ \E c \in Conns : CloseConnection(c) \/ Answer(c)
<1>0. pc \in [Conns -> Idle \cup Working]
  BY DEF TypeOK, HandlerType
<1> HIDE DEF Goal
<1>100.
      /\ QuietStep => Goal
      /\ PublishStep => Goal
      /\ ReleaseStep => Goal
      /\ \A c \in Conns : CloseConnection(c) \/ Answer(c) => Goal
  BY DEF Goal
<1>1. CASE ProviderGarbage
  BY <1>1, <1>100 DEF ProviderGarbage, QuietStep, SameAway, handlerVars, leaseVars
<1>2. CASE ProviderEOF
  BY <1>2, <1>100 DEF ProviderEOF, QuietStep, SameAway, handlerVars, leaseVars
<1>3. CASE FailState
  BY <1>3, <1>100 DEF FailState, QuietStep, SameAway, handlerVars, leaseVars
<1>4. CASE FailClose
  BY <1>4, <1>100 DEF FailClose, QuietStep, SameAway, handlerVars, leaseVars
<1>5. CASE FailStop
  BY <1>5, <1>100 DEF FailStop, QuietStep, SameAway, handlerVars, leaseVars
<1>6. CASE ReapProvider
  BY <1>6, <1>100 DEF ReapProvider, QuietStep, SameAway, handlerVars, leaseVars
<1>7. CASE DrainTimeout
  BY <1>7, <1>100 DEF DrainTimeout, QuietStep, SameAway, handlerVars, leaseVars
<1>8. CASE StopSignal
  BY <1>8, <1>100 DEF StopSignal, BeginStop, QuietStep, SameAway, handlerVars, leaseVars
<1>9. CASE StopClose
  BY <1>9, <1>100 DEF StopClose, QuietStep, SameAway, handlerVars, leaseVars
<1>10. CASE StopKill
  BY <1>10, <1>100 DEF StopKill, QuietStep, SameAway, handlerVars, leaseVars
<1>11. CASE ProviderDies
  BY <1>11, <1>100 DEF ProviderDies, QuietStep, SameAway, handlerVars, leaseVars
<1>12. CASE Age
  BY <1>12, <1>100 DEF Age, QuietStep, SameAway, handlerVars, leaseVars
<1>13. ASSUME NEW c \in Conns, Accept(c) PROVE Goal
  BY <1>0, <1>13, <1>100 DEF Accept, QuietStep, SameAway, leaseVars, Away
<1>14. ASSUME NEW c \in Conns, Hangup(c) PROVE Goal
  BY <1>0, <1>14, <1>100 DEF Hangup, QuietStep, SameAway, leaseVars, Away
<1>15. ASSUME NEW c \in Conns, StopCommand(c) PROVE Goal
  BY <1>0, <1>15, <1>100 DEF StopCommand, BeginStop, QuietStep, SameAway, leaseVars, Away
<1>16. ASSUME NEW c \in Conns, GcCommand(c) PROVE Goal
  BY <1>0, <1>16, <1>100 DEF GcCommand, QuietStep, SameAway, leaseVars, Away
<1>18. ASSUME NEW c \in Conns, DetachClient(c) PROVE Goal
  BY <1>0, <1>18, <1>100 DEF DetachClient, Drop, handlerVars, QuietStep, SameAway, leaseVars, Away
<1>20. ASSUME NEW c \in Conns, OtherFrame(c) PROVE Goal
  BY <1>0, <1>20, <1>100 DEF OtherFrame, QuietStep, SameAway, leaseVars, Away
<1>22. ASSUME NEW c \in Conns, PassCache(c) PROVE Goal
  BY <1>0, <1>22, <1>100 DEF PassCache, QuietStep, SameAway, leaseVars, Away
<1>23. ASSUME NEW c \in Conns, TrackRequest(c) PROVE Goal
  BY <1>0, <1>23, <1>100 DEF TrackRequest, QuietStep, SameAway, leaseVars, Away
<1>24. ASSUME NEW c \in Conns, WriteProvider(c) PROVE Goal
  BY <1>0, <1>24, <1>100 DEF WriteProvider, QuietStep, SameAway, leaseVars, Away
<1>25. ASSUME NEW c \in Conns, WriteFails(c) PROVE Goal
  BY <1>0, <1>25, <1>100 DEF WriteFails, QuietStep, SameAway, leaseVars, Away
<1>26. ASSUME NEW c \in Conns, UntrackRequest(c) PROVE Goal
  BY <1>0, <1>26, <1>100 DEF UntrackRequest, QuietStep, SameAway, leaseVars, Away
<1>17. ASSUME NEW c \in Conns, GcStop(c) PROVE Goal
  <2>1. pc[c] = "collecting" /\ pc' = [pc EXCEPT ![c] = "idle"]
    BY <1>17 DEF GcStop
  <2>2. UNCHANGED <<windowVars, queueVars>> /\ clients' \subseteq clients
    BY <1>17, Zenon DEF GcStop, BeginStop, leaseVars
  <2>3. SameAway  BY <1>0, <2>1 DEF SameAway, Away
  <2> QED  BY <1>100, <2>2, <2>3 DEF QuietStep
<1>19. ASSUME NEW c \in Conns, CloseConnection(c) PROVE Goal
  BY <1>19, <1>100
<1>21. ASSUME NEW c \in Conns, Answer(c) PROVE Goal
  BY <1>21, <1>100
<1>28. CASE ProviderOutput
  <2> PICK e \in ProviderOutputs :
        IF PendingLimitReached(e)
        THEN /\ reader' = "failed"
             /\ UNCHANGED <<windowVars, bookVars, leaseVars, queueVars, peerVars, idle>>
        ELSE /\ Publish(e)
             /\ asked' = IF e.kind = "request" THEN asked \cup {e.id} ELSE asked
             /\ owed' = owed \ {e.id}
             /\ UNCHANGED reader
    BY <1>28 DEF ProviderOutput
  <2>1. e \in Events /\ (e.kind = "request" => e.id \in ProviderRequests)
        /\ (e.pinned => e.kind = "request")
    BY OutputIsEvent
  <2>2. SameAway  BY <1>28 DEF ProviderOutput, handlerVars, SameAway
  <2>3. CASE PendingLimitReached(e)
    BY <1>100, <2>2, <2>3 DEF QuietStep, leaseVars
  <2>4. CASE ~PendingLimitReached(e)
    BY <1>100, <2>1, <2>2, <2>4 DEF PublishStep
  <2> QED  BY <2>3, <2>4
<1>29. CASE FailPublish
  <2> DEFINE e == StateEvent("protocol_error")
  <2>1. e \in Events /\ e.kind = "state" /\ e.pinned = FALSE
    BY StateIsEvent DEF StateEvent, Event
  <2>2. Publish(e) /\ SameAway  BY <1>29 DEF FailPublish, handlerVars, SameAway
  <2> HIDE DEF e
  <2> QED  BY <1>100, <2>1, <2>2 DEF PublishStep
<1>30. CASE ProviderExited
  <2>1. replay' = Trim(Unpin(replay, DOMAIN replay), replayBytes)
    BY <1>30 DEF ProviderExited, ReleaseAllPendingReplay
  <2>2. UNCHANGED <<nextSequence, queueVars>> /\ clients' \subseteq clients /\ SameAway
    BY <1>30 DEF ProviderExited, leaseVars, handlerVars, SameAway
  <2> QED  BY <1>100, <2>1, <2>2 DEF ReleaseStep
<1>31. CASE PublishExit
  <2> DEFINE e == StateEvent("exited")
  <2>1. e \in Events /\ e.kind = "state" /\ e.pinned = FALSE
    BY StateIsEvent DEF StateEvent, Event
  <2>2. Publish(e) /\ SameAway  BY <1>31 DEF PublishExit, handlerVars, SameAway
  <2> HIDE DEF e
  <2> QED  BY <1>100, <2>1, <2>2 DEF PublishStep
<1>33. ASSUME NEW c \in Conns, NEW n, Ack(c, n) PROVE Goal
  BY <1>33, <1>100 DEF Ack, QuietStep, SameAway, leaseVars, handlerVars
<1>34. ASSUME NEW c \in Conns, NEW m, ReceiveInput(c, m) PROVE Goal
  <2>1. UNCHANGED <<windowVars, clients, queueVars>>
    BY <1>34 DEF ReceiveInput
  <2>2. pc[c] = "serving" /\ \E p \in {"answering", "leased"} : pc' = [pc EXCEPT ![c] = p]
    BY <1>34, Zenon DEF ReceiveInput
  <2>3. SameAway  BY <1>0, <2>2 DEF SameAway, Away
  <2> QED  BY <1>100, <2>1, <2>3 DEF QuietStep
<1>35. ASSUME NEW c \in Conns, AnswerFromCache(c) PROVE Goal
  <2> DEFINE e == Event("result", msg[c].id, 1)
  <2>1. msg[c].kind = "request" /\ msg[c].id \in ClientRequests
    BY <1>35, BridgeAssumption DEF AnswerFromCache, IsCachedInitialize
  <2>2. e \in Events /\ e.kind = "result" /\ e.pinned = FALSE
    BY <2>1 DEF Event, Events
  <2>3. SameAway
    BY <1>0, <1>35 DEF AnswerFromCache, SameAway, Away
  <2>4. Publish(e)  BY <1>35 DEF AnswerFromCache
  <2> HIDE DEF e
  <2> QED  BY <1>100, <2>2, <2>3, <2>4 DEF PublishStep
<1>36. ASSUME NEW c \in Conns, ObserveMessage(c) PROVE Goal
  <2>1. /\ UNCHANGED <<nextSequence, queueVars>> /\ clients' \subseteq clients
        /\ pc[c] = "written" /\ pc' = [pc EXCEPT ![c] = "serving"]
    BY <1>36 DEF ObserveMessage, leaseVars
  <2>2. \/ UNCHANGED windowVars
        \/ replay' = Trim(Unpin(replay, {s \in Pinned(replay) : replay[s].id = msg[c].id}), replayBytes)
    BY <1>36 DEF ObserveMessage, ReleasePendingReplay, windowVars
  <2>3. SameAway  BY <1>0, <2>1 DEF SameAway, Away
  <2> QED  BY <1>100, <2>1, <2>2, <2>3 DEF QuietStep, ReleaseStep
<1>37. CASE UNCHANGED vars
  BY <1>37, <1>100 DEF vars, QuietStep, SameAway, leaseVars, handlerVars
<1>41. CASE ReaderStep
  BY <1>1, <1>2, <1>3, <1>4, <1>5, <1>28, <1>29, <1>41 DEF ReaderStep
<1>42. CASE WaiterStep
  BY <1>6, <1>7, <1>30, <1>31, <1>42 DEF WaiterStep
<1>43. CASE StopperStep
  BY <1>8, <1>9, <1>10, <1>43 DEF StopperStep
<1> QED
  BY <1>11, <1>12, <1>13, <1>14, <1>15, <1>16, <1>17, <1>18, <1>19, <1>20, <1>21, <1>22,
     <1>23, <1>24, <1>25, <1>26, <1>33, <1>34, <1>35, <1>36, <1>37, <1>41, <1>42, <1>43
  DEF InnerStep, Goal

LEMMA QueueStep ==
  TypeOK /\ PendingIsPinned /\ QueueInv /\ [OpenNext]_vars => QueueInv'
<1> SUFFICES ASSUME TypeOK, PendingIsPinned, QueueInv, [OpenNext]_vars PROVE QueueInv'
  OBVIOUS
<1>1. CASE QuietStep
  <2>1. nextSequence' = nextSequence  BY <1>1 DEF QuietStep, windowVars
  <2> QED  BY <1>1, <2>1, SameQueues, WindowKeptSame DEF QueueInv, QuietStep, SameAway
<1>2. CASE PublishStep
  BY <1>2, PublishQueues DEF PublishStep, SameAway
<1>3. CASE ReleaseStep
  <2>1. WindowGoesOn
    BY <1>3, ReleaseKeepsWindow DEF ReleaseStep, QueueInv, TypeOK
  <2> QED  BY <1>3, <2>1, SameQueues DEF ReleaseStep, SameAway
<1>4. ASSUME NEW c \in Conns, AttachStep(c) \/ CloseConnection(c) \/ Answer(c) \/ WriteFrame(c)
      PROVE  QueueInv'
  BY <1>4, AttachQueues, CloseQueues, AnswerQueues, WriteQueues DEF AttachStep
<1>5. CASE [InnerStep]_vars
  BY <1>1, <1>2, <1>3, <1>4, <1>5, StepKinds
<1> QED  BY <1>4, <1>5, OpenKinds

LEMMA QueueInit == Init => QueueInv
<1> SUFFICES ASSUME Init PROVE QueueInv
  OBVIOUS
<1>1. <<>> \in Seq(Frames) /\ Len(<<>>) = 0  BY EmptySeq
<1>2. QueueType  BY <1>1 DEF Init, QueueType
<1>3. WindowKept  BY DEF Init, WindowKept, Pinned
<1>4. AwayIsEmpty  BY DEF Init, AwayIsEmpty
<1>5. QueueFits  BY <1>1 DEF Init, QueueFits
<1>6. QueueFlows  BY NothingFlows DEF Init, QueueFlows
<1> QED  BY <1>2, <1>3, <1>4, <1>5, <1>6 DEF QueueInv

(* Types, pins and queues together: the invariant the theorems rest on.    *)
BridgeInv == TypeOK /\ PendingIsPinned /\ QueueInv

LEMMA BridgeInvStep == BridgeInv /\ [OpenNext]_vars => BridgeInv'
BY TypeStep, PinnedStep, QueueStep DEF BridgeInv

LEMMA BridgeInit == Init => BridgeInv
<1>1. Init => PendingIsPinned
  BY DEF Init, PendingIsPinned, Pinned
<1> QED  BY <1>1, TypeInit, QueueInit DEF BridgeInv

LEMMA BridgeInvariant == Spec => []BridgeInv
<1>1. [Next]_vars => [OpenNext]_vars
  BY DEF OpenNext
<1> QED  BY <1>1, BridgeInit, BridgeInvStep, PTL DEF Spec

(* No queue is ever asked to hold more than it has room for: priming the   *)
(* frames of handleAttach under bridge.mu, and the sends of publish and    *)
(* enqueue that check the room first, never block on a full channel.       *)
THEOREM QueuesFit == Spec => []QueueFits
BY BridgeInvariant, PTL DEF BridgeInv, QueueInv

(* What an attached client is still to be sent continues what it was sent: *)
(* handleAttach's replay and publish's fan-out leave out, repeat and       *)
(* reorder nothing, save what an announced gap says is gone.               *)
THEOREM GapsAreTold == Spec => []NoSilentGap
<1>1. BridgeInv => NoSilentGap
  <2> SUFFICES ASSUME BridgeInv, NEW c \in clients
               PROVE  /\ \A i \in EventFrames(c) :
                           /\ sent[c] < send[c][i].seq
                           /\ \A j \in EventFrames(c) : i < j => send[c][i].seq < send[c][j].seq
                      /\ \A s \in sent[c] + 1 .. nextSequence :
                           \/ \E i \in EventFrames(c) : send[c][i].seq = s
                           \/ disclosed[c] /\ s <= base[c] /\ s \notin DOMAIN replay
    BY DEF NoSilentGap
  <2>1. c \in Conns  BY DEF BridgeInv, TypeOK, LeaseType
  <2>2. /\ Flows(send[c], sent[c], Gone(c), nextSequence)
        /\ HasAll(send[c], sent[c], Gone(c), nextSequence)
    BY <2>1 DEF BridgeInv, QueueInv, QueueFlows
  <2>3. EventFrames(c) = EventsIn(send[c])
    BY DEF EventFrames, EventsIn, IsEvent
  <2>4. \A s \in Gone(c) : disclosed[c] /\ s <= base[c] /\ s \notin DOMAIN replay
    BY <2>1 DEF Gone, BridgeInv, QueueInv, QueueType
  <2> QED  BY <2>2, <2>3, <2>4 DEF Flows, InOrder, HasAll
<1> QED  BY <1>1, BridgeInvariant, PTL

(* Clients come by an attach, and in no other step.                        *)
LEMMA NewClients ==
  ASSUME TypeOK, [OpenNext]_vars
  PROVE  clients' \subseteq clients \/ \E c \in Conns : AttachStep(c)
<1>1. CASE PublishStep
  BY <1>1 DEF PublishStep, Publish, FanOut
<1>2. ASSUME NEW c \in Conns, CloseConnection(c) \/ Answer(c) \/ WriteFrame(c)
      PROVE  clients' \subseteq clients
  BY <1>2 DEF CloseConnection, Answer, WriteFrame, Drop, leaseVars
<1>3. CASE [InnerStep]_vars
  BY <1>1, <1>2, <1>3, StepKinds DEF QuietStep, ReleaseStep
<1> QED  BY <1>2, <1>3, OpenKinds

LEMMA FreshAttachStep ==
  ASSUME BridgeInv, [OpenNext]_vars, NEW c \in clients' \ clients, send'[c][1].mode = "pending"
  PROVE  {send'[c][i].id : i \in {j \in DOMAIN send'[c] : send'[c][j].type = "pending"}}
           = pendingRequests
<1>1. PICK d \in Conns : AttachStep(d)
  BY NewClients DEF BridgeInv
<1>2. PICK lastAck \in 0 .. nextSequence :
        \E requested \in {"plain", "pending", "adaptive"} : Attach(d, lastAck, requested)
  BY <1>1 DEF AttachStep
<1>3. PICK requested \in {"plain", "pending", "adaptive"} : Attach(d, lastAck, requested)
  BY <1>2
<1> DEFINE mode == ReplayMode(replay, replayBytes, lastAck, nextSequence, requested)
           q == Primed(d, lastAck, mode)
<1>4. state # "stopped"  BY <1>3 DEF Attach, leaseVars
<1>5. clients' = clients \cup {d} /\ send' = [send EXCEPT ![d] = q]
  BY <1>3, <1>4 DEF Attach, Register
<1>6. mode \in Offers  BY OfferedModes
<1>7. d = c /\ send'[d] = q
  BY <1>5 DEF BridgeInv, QueueInv, QueueType
<1> HIDE DEF mode
<1>8. q[1] = HelloFrame(d, mode)
  <2>1. CASE mode = "pending"
    BY <2>1, PrimedPending DEF BridgeInv
  <2>2. CASE mode \in {"plain", "direct"}
    BY <2>2, PrimedReplay DEF BridgeInv, QueueInv
  <2> QED  BY <1>6, <2>1, <2>2 DEF Offers
<1>9. mode = "pending"
  BY <1>7, <1>8 DEF HelloFrame
<1>10. PICK l : l = Len(q)  OBVIOUS
<1>11. /\ l \in Nat /\ l >= 2 /\ DOMAIN q = 1 .. l
       /\ q[l] = [type |-> "replay_end"]
       /\ \A i \in 2 .. l - 1 : q[i] \in Pendings /\ q[i].id \in pendingRequests
       /\ \A x \in pendingRequests : \E i \in 2 .. l - 1 : q[i].id = x
  BY <1>9, <1>10, PrimedPending DEF BridgeInv
<1>12. q[1].type = "hello"  BY <1>8 DEF HelloFrame
<1> HIDE DEF q
<1>13. ASSUME NEW i \in DOMAIN q
       PROVE  q[i].type = "pending" <=> i \in 2 .. l - 1
  <2>1. i = 1 \/ i = l \/ i \in 2 .. l - 1  BY <1>11
  <2>2. 1 \notin 2 .. l - 1 /\ l \notin 2 .. l - 1  BY <1>11
  <2>3. \A p \in Pendings : p.type = "pending"  BY DEF Pendings
  <2> QED  BY <1>11, <1>12, <2>1, <2>2, <2>3
<1>14. \A i \in 2 .. l - 1 : i \in DOMAIN q  BY <1>11
<1>15. \A x : x \in pendingRequests <=> \E i \in DOMAIN q : q[i].type = "pending" /\ x = q[i].id
  BY <1>11, <1>13, <1>14
<1>16. {q[i].id : i \in {j \in DOMAIN q : q[j].type = "pending"}} = pendingRequests
  <2> DEFINE T == {q[i].id : i \in {j \in DOMAIN q : q[j].type = "pending"}}
  <2>1. \A x : x \in T <=> \E i \in DOMAIN q : q[i].type = "pending" /\ x = q[i].id
    OBVIOUS
  <2> HIDE DEF T
  <2>2. T = pendingRequests  BY <1>15, <2>1
  <2> QED  BY <2>2 DEF T
<1> QED  BY <1>7, <1>16

(* A client that starts over is handed, in the critical section of         *)
(* handleAttach that moves its baseline, every request the provider still  *)
(* waits for and nothing that was answered.                                *)
THEOREM FreshAttachIsTold == Spec => FreshAttachSeesPending
<1> DEFINE A ==
      \A c \in clients' \ clients :
        send'[c][1].mode = "pending" =>
          {send'[c][i].id : i \in {j \in DOMAIN send'[c] : send'[c][j].type = "pending"}}
            = pendingRequests
<1>1. BridgeInv /\ [Next]_vars => [A]_vars
  BY FreshAttachStep DEF OpenNext
<1> QED  BY <1>1, BridgeInvariant, PTL DEF Spec, FreshAttachSeesPending
===============================================================================
