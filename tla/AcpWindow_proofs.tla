---------------------------- MODULE AcpWindow_proofs ----------------------------
(***************************************************************************)
(* The books of the replay window of module AcpBridge: the counters that   *)
(* limit it are exact and the limits hold, for every choice of them.       *)
(***************************************************************************)
EXTENDS AcpQueues_proofs

(***************************************************************************)
(* The bytes of a window                                                   *)
(***************************************************************************)
Weighed(r) == IsFiniteSet(DOMAIN r) /\ DOMAIN r \subseteq Nat /\ \A s \in DOMAIN r : r[s].bytes \in Nat

LEMMA BytesIs ==
  ASSUME NEW r, NEW f, NEW S, IsFiniteSet(S), \A s \in S : f[s] = r[s].bytes
  PROVE  Bytes(r, S) = Total(f, S)
<1> DEFINE g == [s \in S |-> r[s].bytes]
<1>1. SumFunctionOnSet(g, S) = Total(g, S)
  <2> HIDE DEF g
  <2> QED  BY DEF SumFunctionOnSet, FoldFunctionOnSet, MapThenFoldSet, Total, Sums, SumsUp, First
<1>2. \A s \in S : g[s] = f[s]  OBVIOUS
<1>3. Bytes(r, S) = SumFunctionOnSet(g, S)  BY DEF Bytes
<1> HIDE DEF g
<1> QED  BY <1>1, <1>2, <1>3, TotalSame

LEMMA BytesSame ==
  ASSUME NEW r, NEW w, NEW S, IsFiniteSet(S), \A s \in S : r[s].bytes = w[s].bytes
  PROVE  Bytes(r, S) = Bytes(w, S)
<1> DEFINE f == [s \in S |-> w[s].bytes]
<1>1. \A s \in S : f[s] = w[s].bytes /\ f[s] = r[s].bytes  OBVIOUS
<1> HIDE DEF f
<1> QED  BY <1>1, BytesIs

(* The bytes of S are those of its part A and of the rest.                 *)
Splits(r, S, A) ==
  /\ Bytes(r, S) \in Nat /\ Bytes(r, A) \in Nat /\ Bytes(r, S \ A) \in Nat
  /\ Bytes(r, S) = Bytes(r, A) + Bytes(r, S \ A)

LEMMA BytesSplit ==
  ASSUME NEW r, Weighed(r), NEW S \in SUBSET DOMAIN r, NEW A \in SUBSET S
  PROVE  Splits(r, S, A)
<1> DEFINE f == [s \in DOMAIN r |-> r[s].bytes]
<1>1. \A s \in DOMAIN r : f[s] = r[s].bytes /\ f[s] \in Nat  BY DEF Weighed
<1>2. IsFiniteSet(S) /\ IsFiniteSet(A) /\ IsFiniteSet(S \ A)  BY FS_Subset DEF Weighed
<1> HIDE DEF f
<1>3. Bytes(r, S) = Total(f, S) /\ Bytes(r, A) = Total(f, A) /\ Bytes(r, S \ A) = Total(f, S \ A)
  BY <1>1, <1>2, BytesIs
<1>4. Total(f, S) = Total(f, A) + Total(f, S \ A)  BY <1>1, <1>2, TotalSplit
<1>5. Total(f, S) \in Nat /\ Total(f, A) \in Nat /\ Total(f, S \ A) \in Nat
  BY <1>1, <1>2, TotalIsNat
<1> QED  BY <1>3, <1>4, <1>5 DEF Splits

LEMMA BytesNone ==
  ASSUME NEW r
  PROVE  Bytes(r, {}) = 0
<1> DEFINE f == [s \in {} |-> r[s].bytes]
<1>1. \A s \in {} : f[s] = r[s].bytes  OBVIOUS
<1> HIDE DEF f
<1> QED  BY <1>1, BytesIs, TotalEmpty, FS_EmptySet

LEMMA BytesOne ==
  ASSUME NEW r, NEW s, r[s].bytes \in Nat
  PROVE  Bytes(r, {s}) = r[s].bytes
<1> DEFINE f == [t \in {s} |-> r[t].bytes]
<1>1. \A t \in {s} : f[t] = r[t].bytes /\ f[t] \in Nat  OBVIOUS
<1> HIDE DEF f
<1>2. IsFiniteSet({s})  BY FS_Singleton
<1>3. Bytes(r, {s}) = Total(f, {s})  BY <1>1, <1>2, BytesIs
<1>4. Total(f, {s}) = f[s] + Total(f, {s} \ {s})  BY <1>1, <1>2, TotalTake
<1>5. {s} \ {s} = {}  OBVIOUS
<1>6. Total(f, {}) = 0  BY TotalEmpty
<1> QED  BY <1>1, <1>3, <1>4, <1>5, <1>6

(***************************************************************************)
(* What trimming leaves                                                    *)
(***************************************************************************)
(* The more has left a window, the less it exceeds a limit.                *)
LEMMA LessIsLess ==
  ASSUME NEW r, Weighed(r), NEW total \in Int, NEW B \in SUBSET DOMAIN r, NEW A \in SUBSET B,
         NEW events \in Nat, NEW bytes \in Nat, OverWithout(r, total, B, events, bytes)
  PROVE  OverWithout(r, total, A, events, bytes)
<1>1. Bytes(r, A) \in Nat /\ Bytes(r, B) \in Nat /\ Bytes(r, A) <= Bytes(r, B)
  <2>1. Splits(r, B, A)  BY BytesSplit
  <2> QED  BY <2>1 DEF Splits
<1> DEFINE D == DOMAIN r \ A
           E == DOMAIN r \ B
<1>2. IsFiniteSet(D) /\ E \in SUBSET D
  BY FS_Subset DEF Weighed
<1> HIDE DEF D, E
<1>3. Cardinality(D) \in Nat /\ Cardinality(E) \in Nat /\ Cardinality(E) <= Cardinality(D)
  BY <1>2, FS_Subset, FS_CardinalityType
<1> QED  BY <1>1, <1>3 DEF OverWithout, OverLimit, D, E

(* w is what is left of a window of total bytes once E has left it.        *)
RestOf(r, total, E, w) ==
  /\ Weighed(w) /\ DOMAIN w = DOMAIN r \ E /\ \A s \in DOMAIN w : w[s] = r[s]
  /\ total - Bytes(r, E) = Bytes(w, DOMAIN w)
  /\ \A A \in SUBSET DOMAIN w : Bytes(w, A) = Bytes(r, A)

LEMMA RestExceeds ==
  ASSUME NEW r, Weighed(r), NEW E \in SUBSET DOMAIN r, NEW w, w = Restrict(r, DOMAIN r \ E),
         NEW total, total = Bytes(r, DOMAIN r)
  PROVE  RestOf(r, total, E, w)
<1>1. DOMAIN w = DOMAIN r \ E /\ \A s \in DOMAIN w : w[s] = r[s]
  BY DEF Restrict
<1>2. Weighed(w)  BY <1>1, FS_Subset DEF Weighed
<1>3. \A A \in SUBSET DOMAIN w : Bytes(w, A) = Bytes(r, A)
  <2> SUFFICES ASSUME NEW A \in SUBSET DOMAIN w PROVE Bytes(w, A) = Bytes(r, A)
    OBVIOUS
  <2>1. IsFiniteSet(A)  BY <1>2, FS_Subset DEF Weighed
  <2> QED  BY <1>1, <2>1, BytesSame
<1>4. /\ Bytes(r, DOMAIN r) \in Nat /\ Bytes(r, E) \in Nat /\ Bytes(r, DOMAIN r \ E) \in Nat
      /\ Bytes(r, DOMAIN r) = Bytes(r, E) + Bytes(r, DOMAIN r \ E)
  <2>1. DOMAIN r \in SUBSET DOMAIN r  OBVIOUS
  <2> QED  BY <2>1, BytesSplit DEF Splits
<1>5. Bytes(w, DOMAIN w) = Bytes(r, DOMAIN r \ E)
  <2>1. DOMAIN w \in SUBSET DOMAIN w  OBVIOUS
  <2>2. Bytes(w, DOMAIN w) = Bytes(r, DOMAIN w)  BY <1>3, <2>1
  <2> QED  BY <1>1, <2>2
<1>6. total - Bytes(r, E) = Bytes(w, DOMAIN w)
  <2>1. \A x, y, z \in Nat : x = y + z => x - y = z  OBVIOUS
  <2> QED  BY <1>4, <1>5, <2>1
<1> QED  BY <1>1, <1>2, <1>3, <1>6 DEF RestOf

(* What the rest of a window exceeds is what the window exceeds without    *)
(* the part that left.                                                     *)
LEMMA RestOver ==
  ASSUME NEW r, Weighed(r), NEW E \in SUBSET DOMAIN r, NEW w, w = Restrict(r, DOMAIN r \ E),
         NEW total, total = Bytes(r, DOMAIN r), NEW events, NEW bytes
  PROVE  OverWithout(w, Bytes(w, DOMAIN w), {}, events, bytes)
           <=> OverWithout(r, total, E, events, bytes)
<1>1. DOMAIN w = DOMAIN r \ E /\ total - Bytes(r, E) = Bytes(w, DOMAIN w) /\ Weighed(w)
  <2>1. RestOf(r, total, E, w)  BY RestExceeds
  <2> QED  BY <2>1 DEF RestOf
<1>2. Bytes(w, {}) = 0 /\ DOMAIN w \ {} = DOMAIN r \ E  BY <1>1, BytesNone
<1>3. Bytes(w, DOMAIN w) \in Nat
  <2>1. DOMAIN w \in SUBSET DOMAIN w  OBVIOUS
  <2> QED  BY <1>1, <2>1, BytesSplit DEF Splits
<1>4. Bytes(w, DOMAIN w) - Bytes(w, {}) = total - Bytes(r, E)  BY <1>1, <1>2, <1>3
<1> QED  BY <1>2, <1>4, Zenon DEF OverWithout

(* If the second pass leaves an unpinned event, the window fits.           *)
LEMMA CompactFits ==
  ASSUME NEW r, Weighed(r), NEW total \in Int, NEW s \in DOMAIN r, ~r[s].pinned,
         s \notin CompactEvicted(r, total)
  PROVE  ~OverWithout(r, total, CompactEvicted(r, total), ReplayMaxEvents, ReplayMaxBytes)
<1> DEFINE E == CompactEvicted(r, total)
           Left == {t \in DOMAIN r : ~r[t].pinned /\ t \notin E}
           events == (ReplayMaxEvents * 7) \div 8
           bytes == (ReplayMaxBytes * 7) \div 8
           Before(t) == {u \in DOMAIN r : u < t /\ ~r[u].pinned}
<1>1. /\ ReplayMaxEvents \in Nat /\ ReplayMaxBytes \in Nat /\ events \in Nat /\ bytes \in Nat
      /\ events <= ReplayMaxEvents /\ bytes <= ReplayMaxBytes
  BY LimitsAssumption
<1>2. E = {t \in DOMAIN r : ~r[t].pinned /\ OverWithout(r, total, Before(t), events, bytes)}
  BY DEF CompactEvicted
<1>3. DOMAIN r \subseteq Nat  BY DEF Weighed
<1> HIDE DEF E, events, bytes
<1>4. PICK m \in Left : \A t \in Left : m <= t
  <2>1. s \in Left /\ Left \subseteq Nat  BY <1>3 DEF E
  <2> HIDE DEF Left
  <2> QED  BY <2>1, LeastNumber
<1>5. m \in DOMAIN r /\ ~r[m].pinned /\ m \notin E /\ m \in Nat  BY <1>3, <1>4
<1>6. ~OverWithout(r, total, Before(m), events, bytes)  BY <1>2, <1>5
<1>7. E = Before(m)
  <2>1. ASSUME NEW t \in Before(m) PROVE t \in E
    BY <1>3, <1>4, <1>5, <2>1
  <2>2. ASSUME NEW t \in E, t \notin Before(m) PROVE FALSE
    <3>1. t \in DOMAIN r /\ ~r[t].pinned /\ OverWithout(r, total, Before(t), events, bytes)
      BY <1>2, <2>2
    <3>2. m <= t  BY <1>3, <1>5, <2>2, <3>1
    <3>3. Before(m) \in SUBSET Before(t) /\ Before(t) \in SUBSET DOMAIN r
      BY <1>3, <1>5, <3>1, <3>2
    <3> HIDE DEF Before
    <3>4. OverWithout(r, total, Before(m), events, bytes)
      BY <1>1, <3>1, <3>3, LessIsLess
    <3> QED  BY <1>6, <3>4
  <2>3. E \subseteq DOMAIN r  BY <1>2
  <2> HIDE DEF Before
  <2> QED  BY <2>1, <2>2, <2>3
<1>8. ~OverWithout(r, total, E, events, bytes)  BY <1>6, <1>7
<1>9. Cardinality(DOMAIN r \ E) \in Nat /\ total - Bytes(r, E) \in Int
  <2>1. E \in SUBSET DOMAIN r  BY <1>2
  <2>2. Bytes(r, E) \in Nat  BY <2>1, BytesSplit DEF Splits
  <2>3. IsFiniteSet(DOMAIN r \ E)  BY FS_Subset DEF Weighed
  <2> QED  BY <2>2, <2>3, FS_CardinalityType
<1> QED  BY <1>1, <1>8, <1>9 DEF OverWithout, OverLimit, E

(* A trimmed window within exact books: the counter is exact again, no pin *)
(* is lost, and above its limits there is nothing but pins.                *)
LEMMA TrimBooks ==
  ASSUME NEW r, Weighed(r), NEW total, total = Bytes(r, DOMAIN r), NEW w, w = Trim(r, total)
  PROVE  /\ total - Bytes(r, Evicted(r, total)) = Bytes(w, DOMAIN w)
         /\ Pinned(w) = Pinned(r) /\ Bytes(w, Pinned(w)) = Bytes(r, Pinned(r))
         /\ OverWithout(w, Bytes(w, DOMAIN w), {}, ReplayMaxEvents, ReplayMaxBytes) => Pinned(w) = DOMAIN w
<1> DEFINE head == HeadEvicted(r, total)
           rest == Restrict(r, DOMAIN r \ head)
           left == total - Bytes(r, head)
           compact == CompactEvicted(rest, left)
           gone == Evicted(r, total)
<1>1. DOMAIN r \subseteq Int  BY DEF Weighed
<1>2. \A s \in gone : s \in DOMAIN r /\ ~r[s].pinned
  BY <1>1, EvictedUnpinned
<1>3. head \in SUBSET DOMAIN r  BY DEF HeadEvicted
<1>4. compact \in SUBSET DOMAIN rest  BY DEF CompactEvicted
<1>5. gone = IF OverWithout(rest, left, {}, ReplayMaxEvents, ReplayMaxBytes)
             THEN head \cup compact ELSE head
  BY DEF Evicted
<1>6. w = Restrict(r, DOMAIN r \ gone)  BY DEF Trim
<1>7. Pinned(w) = Pinned(r)  BY <1>1, TrimPinned
<1> HIDE DEF head, rest, left, compact, gone
<1>8. /\ Weighed(w) /\ DOMAIN w = DOMAIN r \ gone /\ \A s \in DOMAIN w : w[s] = r[s]
      /\ total - Bytes(r, gone) = Bytes(w, DOMAIN w)
      /\ \A A \in SUBSET DOMAIN w : Bytes(w, A) = Bytes(r, A)
  <2>1. gone \in SUBSET DOMAIN r  BY <1>2
  <2>2. RestOf(r, total, gone, w)  BY <1>6, <2>1, RestExceeds
  <2> QED  BY <2>2 DEF RestOf
<1>9. Bytes(w, Pinned(w)) = Bytes(r, Pinned(r))
  <2>1. Pinned(w) \in SUBSET DOMAIN w  BY DEF Pinned
  <2> QED  BY <1>7, <1>8, <2>1
<1>10. /\ Weighed(rest) /\ DOMAIN rest = DOMAIN r \ head /\ \A s \in DOMAIN rest : rest[s] = r[s]
       /\ left = Bytes(rest, DOMAIN rest)
  <2>1. rest = Restrict(r, DOMAIN r \ head) /\ left = total - Bytes(r, head)  BY DEF rest, left
  <2>2. RestOf(r, total, head, rest)  BY <1>3, <2>1, RestExceeds
  <2> QED  BY <2>1, <2>2 DEF RestOf
<1>11. ASSUME OverWithout(w, Bytes(w, DOMAIN w), {}, ReplayMaxEvents, ReplayMaxBytes)
       PROVE  Pinned(w) = DOMAIN w
  <2>1. CASE ~OverWithout(rest, left, {}, ReplayMaxEvents, ReplayMaxBytes)
    <3>1. w = rest  BY <1>5, <1>6, <2>1 DEF rest
    <3> QED  BY <1>10, <1>11, <2>1, <3>1
  <2>2. CASE OverWithout(rest, left, {}, ReplayMaxEvents, ReplayMaxBytes)
    <3>1. DOMAIN w = DOMAIN rest \ compact  BY <1>5, <1>8, <1>10, <2>2
    <3> DEFINE v == Restrict(rest, DOMAIN rest \ compact)
    <3>2. w = v
      <4>1. DOMAIN rest \ compact = DOMAIN r \ gone  BY <1>8, <3>1
      <4>2. \A s \in DOMAIN r \ gone : rest[s] = r[s]  BY <1>10, <4>1
      <4> QED  BY <1>6, <4>1, <4>2 DEF Restrict
    <3>3. OverWithout(rest, left, compact, ReplayMaxEvents, ReplayMaxBytes)
      <4> HIDE DEF v
      <4>1. OverWithout(v, Bytes(v, DOMAIN v), {}, ReplayMaxEvents, ReplayMaxBytes)
        BY <1>11, <3>2
      <4>2. v = Restrict(rest, DOMAIN rest \ compact)  BY DEF v
      <4>3. /\ Weighed(rest) /\ compact \in SUBSET DOMAIN rest
            /\ left = Bytes(rest, DOMAIN rest)
        BY <1>4, <1>10
      <4> QED  BY <4>1, <4>2, <4>3, RestOver
    <3>4. left \in Int
      <4>1. DOMAIN rest \in SUBSET DOMAIN rest /\ Weighed(rest)  BY <1>10
      <4>2. Bytes(rest, DOMAIN rest) \in Nat  BY <4>1, BytesSplit DEF Splits
      <4> QED  BY <1>10, <4>2
    <3>5. \A s \in DOMAIN rest : ~rest[s].pinned => s \in compact
      BY <1>10, <3>3, <3>4, CompactFits DEF compact
    <3>6. \A s \in DOMAIN w : w[s].pinned
      BY <1>8, <1>10, <3>1, <3>5
    <3> QED  BY <3>6 DEF Pinned
  <2> QED  BY <2>1, <2>2
<1> QED  BY <1>7, <1>8, <1>9, <1>11 DEF gone

(***************************************************************************)
(* The steps of the bridge                                                 *)
(***************************************************************************)
LEMMA WindowWeighed ==
  ASSUME WindowType
  PROVE  Weighed(replay)
<1>1. IsFiniteSet(DOMAIN replay)
  <2>1. DOMAIN replay \in SUBSET DOMAIN replay  OBVIOUS
  <2> QED  BY <2>1, WindowFinite
<1>2. DOMAIN replay \subseteq Nat  BY DEF WindowType
<1>3. \A s \in DOMAIN replay : replay[s].bytes \in Nat  BY DEF WindowType, Events
<1> QED  BY <1>1, <1>2, <1>3 DEF Weighed

(* A window r whose pins are counted and within their limits, trimmed.     *)
LEMMA TrimmedBooks ==
  ASSUME NEW r, Weighed(r), NEW total, total = Bytes(r, DOMAIN r),
         replay' = Trim(r, total), replayBytes' = total - Bytes(r, Evicted(r, total)),
         pendingReplayEvents' = Cardinality(Pinned(r)), pendingReplayBytes' = Bytes(r, Pinned(r)),
         Cardinality(Pinned(r)) <= PendingMaxEvents, Bytes(r, Pinned(r)) <= PendingMaxBytes
  PROVE  CountersExact' /\ WindowBounded'
<1> DEFINE w == Trim(r, total)
<1>1. w = Trim(r, total) /\ replay' = w  OBVIOUS
<1> HIDE DEF w
<1>2. /\ total - Bytes(r, Evicted(r, total)) = Bytes(w, DOMAIN w)
      /\ Pinned(w) = Pinned(r) /\ Bytes(w, Pinned(w)) = Bytes(r, Pinned(r))
      /\ OverWithout(w, Bytes(w, DOMAIN w), {}, ReplayMaxEvents, ReplayMaxBytes) => Pinned(w) = DOMAIN w
  BY <1>1, TrimBooks
<1>3. replayBytes' = Bytes(w, DOMAIN w)  BY <1>2
<1>4. CountersExact'  BY <1>1, <1>2, <1>3 DEF CountersExact
<1>5. WindowBounded'  BY <1>1, <1>2, <1>3 DEF WindowBounded
<1> QED  BY <1>4, <1>5

(* An appended event; a pinned one only while there is room for it.        *)
LEMMA AppendBooks ==
  ASSUME WindowType, CountersExact, WindowBounded, NEW e \in Events, Publish(e),
         e.pinned => /\ pendingReplayEvents < PendingMaxEvents
                     /\ pendingReplayBytes + e.bytes <= PendingMaxBytes
  PROVE  CountersExact' /\ WindowBounded'
<1> DEFINE n == nextSequence + 1
           r == [s \in DOMAIN replay \cup {n} |-> IF s = n THEN e ELSE replay[s]]
           total == replayBytes + e.bytes
           old == DOMAIN replay
           pins == Pinned(replay)
<1>1. /\ replay' = Trim(r, total) /\ replayBytes' = total - Bytes(r, Evicted(r, total))
      /\ pendingReplayEvents' = pendingReplayEvents + (IF e.pinned THEN 1 ELSE 0)
      /\ pendingReplayBytes' = pendingReplayBytes + (IF e.pinned THEN e.bytes ELSE 0)
  BY DEF Publish, AppendReplay
<1>2. n \in Nat /\ n \notin old /\ e.bytes \in Nat /\ e.pinned \in BOOLEAN
  BY DEF WindowType, Events
<1>3. DOMAIN r = old \cup {n} /\ r[n] = e /\ \A s \in old : r[s] = replay[s]
  BY <1>2
<1>4. pins \in SUBSET old  BY DEF Pinned
<1>5. Pinned(r) = IF e.pinned THEN pins \cup {n} ELSE pins
  <2> HIDE DEF r, n
  <2>1. ASSUME NEW s PROVE s \in Pinned(r) <=> s \in IF e.pinned THEN pins \cup {n} ELSE pins
    BY <1>2, <1>3, Zenon DEF Pinned
  <2> QED  BY <2>1
<1> HIDE DEF n, r
<1>6. Weighed(replay) /\ IsFiniteSet(old) /\ IsFiniteSet(pins)
  <2>1. Weighed(replay)  BY WindowWeighed
  <2> QED  BY <1>4, <2>1, FS_Subset DEF Weighed
<1>7. Weighed(r)
  <2>1. IsFiniteSet(old \cup {n})  BY <1>6, FS_AddElement
  <2> QED  BY <1>2, <1>3, <1>6, <2>1 DEF Weighed
<1>8. ASSUME NEW A \in SUBSET old
      PROVE  Bytes(r, A \cup {n}) = Bytes(replay, A) + e.bytes /\ Bytes(r, A) = Bytes(replay, A)
  <2> DEFINE B == A \cup {n}
  <2>1. IsFiniteSet(A)  BY <1>6, FS_Subset
  <2>2. \A s \in A : r[s].bytes = replay[s].bytes  BY <1>3
  <2>3. Bytes(r, A) = Bytes(replay, A)  BY <2>1, <2>2, BytesSame
  <2>4. B \in SUBSET DOMAIN r /\ {n} \in SUBSET B /\ B \ {n} = A  BY <1>2, <1>3
  <2>5. Splits(r, B, {n})
    <3> HIDE DEF B
    <3> QED  BY <1>7, <2>4, BytesSplit
  <2>6. Bytes(r, {n}) = e.bytes  BY <1>2, <1>3, BytesOne
  <2>7. Bytes(r, A) \in Nat /\ Bytes(r, B) = Bytes(r, {n}) + Bytes(r, A)
    <3> HIDE DEF B
    <3> QED  BY <2>4, <2>5 DEF Splits
  <2> HIDE DEF B
  <2>8. Bytes(r, B) = Bytes(replay, A) + e.bytes  BY <1>2, <2>3, <2>6, <2>7
  <2> QED  BY <2>3, <2>8 DEF B
<1>9. total = Bytes(r, DOMAIN r)
  <2>1. old \in SUBSET old  OBVIOUS
  <2>2. Bytes(r, old \cup {n}) = Bytes(replay, old) + e.bytes  BY <1>8, <2>1
  <2> QED  BY <1>3, <2>2 DEF CountersExact
<1>10. Cardinality(pins) \in Nat /\ n \notin pins /\ Cardinality(pins \cup {n}) = Cardinality(pins) + 1
  BY <1>2, <1>4, <1>6, FS_CardinalityType, FS_AddElement
<1>11. /\ pendingReplayEvents' = Cardinality(Pinned(r)) /\ pendingReplayBytes' = Bytes(r, Pinned(r))
       /\ Cardinality(Pinned(r)) <= PendingMaxEvents /\ Bytes(r, Pinned(r)) <= PendingMaxBytes
  <2>1. /\ pendingReplayEvents = Cardinality(pins) /\ pendingReplayBytes = Bytes(replay, pins)
        /\ Cardinality(pins) <= PendingMaxEvents /\ Bytes(replay, pins) <= PendingMaxBytes
    BY DEF CountersExact, WindowBounded
  <2>2. Bytes(r, pins \cup {n}) = Bytes(replay, pins) + e.bytes /\ Bytes(r, pins) = Bytes(replay, pins)
    BY <1>4, <1>8
  <2>3. Bytes(replay, pins) \in Nat
    <3>1. Splits(replay, old, pins)
      <4>1. old \in SUBSET DOMAIN replay  OBVIOUS
      <4> QED  BY <1>4, <1>6, <4>1, BytesSplit
    <3> QED  BY <3>1 DEF Splits
  <2>4. PendingMaxEvents \in Nat /\ PendingMaxBytes \in Nat  BY LimitsAssumption
  <2> HIDE DEF old, pins
  <2>5. CASE e.pinned
    BY <1>1, <1>2, <1>5, <1>10, <2>1, <2>2, <2>3, <2>4, <2>5
  <2>6. CASE ~e.pinned
    BY <1>1, <1>2, <1>5, <1>10, <2>1, <2>2, <2>3, <2>4, <2>6
  <2> QED  BY <2>5, <2>6
<1> HIDE DEF total
<1> QED  BY <1>1, <1>7, <1>9, <1>11, TrimmedBooks

(* The pins of S are released and the window is trimmed again, its byte    *)
(* counter with it; the counters of the pins are left to those that stay.  *)
Released(S) ==
  LET free == Unpin(replay, S)
  IN /\ replay' = Trim(free, replayBytes)
     /\ replayBytes' = replayBytes - Bytes(free, Evicted(free, replayBytes))
     /\ pendingReplayEvents' = Cardinality(Pinned(replay) \ S)
     /\ pendingReplayBytes' = Bytes(replay, Pinned(replay) \ S)

(* Neither counter of the pins grows when some of them go.                 *)
LEMMA FewerPins ==
  ASSUME WindowType, NEW S
  PROVE  /\ Cardinality(Pinned(replay) \ S) <= Cardinality(Pinned(replay))
         /\ Bytes(replay, Pinned(replay) \ S) <= Bytes(replay, Pinned(replay))
         /\ Cardinality(Pinned(replay)) \in Nat /\ Cardinality(Pinned(replay) \ S) \in Nat
         /\ Bytes(replay, Pinned(replay)) \in Nat /\ Bytes(replay, Pinned(replay) \ S) \in Nat
<1> DEFINE pins == Pinned(replay)
           left == pins \ S
<1>1. Weighed(replay)  BY WindowWeighed
<1>2. pins \in SUBSET DOMAIN replay /\ left \in SUBSET pins  BY DEF Pinned
<1> HIDE DEF pins, left
<1>3. IsFiniteSet(pins)  BY <1>2, WindowFinite
<1>4. Cardinality(left) <= Cardinality(pins) /\ Cardinality(pins) \in Nat /\ Cardinality(left) \in Nat
  BY <1>2, <1>3, FS_Subset, FS_CardinalityType
<1>5. Splits(replay, pins, left)  BY <1>1, <1>2, BytesSplit
<1>6. /\ Bytes(replay, left) <= Bytes(replay, pins)
      /\ Bytes(replay, pins) \in Nat /\ Bytes(replay, left) \in Nat
  BY <1>5 DEF Splits
<1> QED  BY <1>4, <1>6 DEF pins, left

LEMMA ReleaseBooks ==
  ASSUME WindowType, CountersExact, WindowBounded, NEW S, Released(S)
  PROVE  CountersExact' /\ WindowBounded'
<1> DEFINE r == Unpin(replay, S)
           left == Pinned(replay) \ S
           old == DOMAIN replay
<1>1. /\ replay' = Trim(r, replayBytes) /\ replayBytes' = replayBytes - Bytes(r, Evicted(r, replayBytes))
      /\ pendingReplayEvents' = Cardinality(left) /\ pendingReplayBytes' = Bytes(replay, left)
  BY DEF Released
<1>2. /\ DOMAIN r = old
      /\ \A s \in old : r[s] = IF s \in S THEN [replay[s] EXCEPT !.pinned = FALSE] ELSE replay[s]
  BY DEF Unpin
<1>3. \A s \in old : /\ r[s].bytes = replay[s].bytes
                     /\ r[s].pinned <=> replay[s].pinned /\ s \notin S
  <2> HIDE DEF r
  <2> SUFFICES ASSUME NEW s \in old
               PROVE  r[s].bytes = replay[s].bytes /\ (r[s].pinned <=> replay[s].pinned /\ s \notin S)
    OBVIOUS
  <2>1. replay[s] \in Events  BY DEF WindowType
  <2>2. CASE s \in S
    <3>1. r[s] = [replay[s] EXCEPT !.pinned = FALSE]  BY <1>2, <2>2
    <3> QED  BY <2>1, <2>2, <3>1 DEF Events
  <2>3. CASE s \notin S
    <3>1. r[s] = replay[s]  BY <1>2, <2>3
    <3> QED  BY <2>3, <3>1
  <2> QED  BY <2>2, <2>3
<1> HIDE DEF r
<1>4. Pinned(r) = left
  <2>1. ASSUME NEW s PROVE s \in Pinned(r) <=> s \in left  BY <1>2, <1>3, Zenon DEF Pinned
  <2> QED  BY <2>1
<1>5. Weighed(replay) /\ Weighed(r)
  <2>1. Weighed(replay)  BY WindowWeighed
  <2> QED  BY <1>2, <1>3, <2>1 DEF Weighed
<1>6. \A A \in SUBSET old : Bytes(r, A) = Bytes(replay, A)
  <2> SUFFICES ASSUME NEW A \in SUBSET old PROVE Bytes(r, A) = Bytes(replay, A)
    OBVIOUS
  <2>1. IsFiniteSet(A)  BY WindowFinite
  <2>2. \A s \in A : r[s].bytes = replay[s].bytes  BY <1>3
  <2> QED  BY <2>1, <2>2, BytesSame
<1>7. old \in SUBSET old /\ left \in SUBSET old  BY DEF Pinned
<1>8. Bytes(r, DOMAIN r) = Bytes(replay, old) /\ Bytes(r, Pinned(r)) = Bytes(replay, left)
  BY <1>2, <1>4, <1>6, <1>7
<1>9. replayBytes = Bytes(r, DOMAIN r)  BY <1>8 DEF CountersExact
<1>10. Cardinality(left) <= PendingMaxEvents /\ Bytes(replay, left) <= PendingMaxBytes
  <2> DEFINE pins == Pinned(replay)
  <2>1. Cardinality(pins) <= PendingMaxEvents /\ Bytes(replay, pins) <= PendingMaxBytes
    BY DEF WindowBounded
  <2>2. /\ Cardinality(left) <= Cardinality(pins) /\ Bytes(replay, left) <= Bytes(replay, pins)
        /\ Cardinality(pins) \in Nat /\ Cardinality(left) \in Nat
        /\ Bytes(replay, pins) \in Nat /\ Bytes(replay, left) \in Nat
    BY FewerPins
  <2>3. PendingMaxEvents \in Nat /\ PendingMaxBytes \in Nat  BY LimitsAssumption
  <2> HIDE DEF left, pins
  <2> QED  BY <2>1, <2>2, <2>3
<1> HIDE DEF left
<1>11. /\ pendingReplayEvents' = Cardinality(Pinned(r)) /\ pendingReplayBytes' = Bytes(r, Pinned(r))
       /\ Cardinality(Pinned(r)) <= PendingMaxEvents /\ Bytes(r, Pinned(r)) <= PendingMaxBytes
  BY <1>1, <1>4, <1>8, <1>10
<1> QED  BY <1>1, <1>5, <1>9, <1>11, TrimmedBooks

(* A published event: a pinned one found room among the pins.              *)
RoomFor(e) ==
  e.pinned => /\ pendingReplayEvents < PendingMaxEvents
              /\ pendingReplayBytes + e.bytes <= PendingMaxBytes

LEMMA OutputBooks ==
  ASSUME TypeOK, CountersExact, ProviderOutput
  PROVE  UNCHANGED windowVars \/ \E e \in Events : Publish(e) /\ RoomFor(e)
<1> PICK e \in ProviderOutputs :
      IF PendingLimitReached(e) THEN UNCHANGED windowVars ELSE Publish(e)
  BY DEF ProviderOutput
<1>1. CASE PendingLimitReached(e)
  BY <1>1
<1>2. CASE ~PendingLimitReached(e)
  <2>1. e \in Events /\ (e.pinned => e.kind = "request")  BY OutputIsEvent
  <2>2. e.bytes \in Nat  BY <2>1 DEF Events
  <2>3. pendingReplayEvents \in Nat /\ pendingReplayBytes \in Nat
    <3>1. Cardinality(Pinned(replay)) \in Nat /\ Bytes(replay, Pinned(replay)) \in Nat
      BY FewerPins DEF TypeOK
    <3> QED  BY <3>1 DEF CountersExact
  <2>4. PendingMaxEvents \in Nat /\ PendingMaxBytes \in Nat  BY LimitsAssumption
  <2>5. RoomFor(e)
    BY <1>2, <2>1, <2>2, <2>3, <2>4 DEF PendingLimitReached, RoomFor
  <2> QED  BY <1>2, <2>1, <2>5
<1> QED  BY <1>1, <1>2

(* Events the bridge publishes of its own are never pinned.                *)
LEMMA OwnEvents ==
  ASSUME NEW k \in {"result", "state"}, NEW i, Event(k, i, 1) \in Events
  PROVE  RoomFor(Event(k, i, 1))
BY DEF Event, RoomFor

LEMMA ReplyReleases ==
  ASSUME TypeOK, CountersExact, NEW c \in Conns, ObserveMessage(c)
  PROVE  UNCHANGED windowVars \/ \E S : Released(S)
<1>1. CASE msg[c].kind # "reply"
  BY <1>1 DEF ObserveMessage, windowVars
<1>2. CASE msg[c].kind = "reply"
  <2> DEFINE pins == Pinned(replay)
             freed == {s \in pins : replay[s].id = msg[c].id}
             free == Unpin(replay, freed)
  <2>1. /\ replay' = Trim(free, replayBytes)
        /\ replayBytes' = replayBytes - Bytes(free, Evicted(free, replayBytes))
        /\ pendingReplayEvents' = pendingReplayEvents - Cardinality(freed)
        /\ pendingReplayBytes' = pendingReplayBytes - Bytes(replay, freed)
    BY <1>2 DEF ObserveMessage, ReleasePendingReplay
  <2>2. pins \in SUBSET DOMAIN replay /\ freed \in SUBSET pins  BY DEF Pinned
  <2>3. pendingReplayEvents = Cardinality(pins) /\ pendingReplayBytes = Bytes(replay, pins)
    BY DEF CountersExact
  <2>4. Weighed(replay)  BY WindowWeighed DEF TypeOK
  <2>5. free = Unpin(replay, freed)  OBVIOUS
  <2> HIDE DEF free, freed, pins
  <2>6. Splits(replay, pins, freed)  BY <2>2, <2>4, BytesSplit
  <2>7. pendingReplayBytes' = Bytes(replay, pins \ freed)
    <3>1. /\ Bytes(replay, pins) = Bytes(replay, freed) + Bytes(replay, pins \ freed)
          /\ Bytes(replay, freed) \in Nat /\ Bytes(replay, pins \ freed) \in Nat
      BY <2>6 DEF Splits
    <3>2. \A x, y \in Nat : x + y - x = y  OBVIOUS
    <3> QED  BY <2>1, <2>3, <3>1, <3>2
  <2>8. pendingReplayEvents' = Cardinality(pins \ freed)
    <3>1. IsFiniteSet(pins) /\ IsFiniteSet(freed)  BY <2>2, WindowFinite, FS_Subset DEF TypeOK
    <3>2. Cardinality(pins \ freed) = Cardinality(pins) - Cardinality(pins \cap freed)
      BY <3>1, FS_Difference
    <3>3. pins \cap freed = freed  BY <2>2
    <3> QED  BY <2>1, <2>3, <3>2, <3>3
  <2>9. Released(freed)  BY <2>1, <2>5, <2>7, <2>8 DEF Released, pins
  <2> QED  BY <2>9
<1> QED  BY <1>1, <1>2

LEMMA ExitReleases ==
  ASSUME WindowType, ProviderExited
  PROVE  \E S : Released(S)
<1> DEFINE S == DOMAIN replay
           free == Unpin(replay, S)
<1>1. /\ replay' = Trim(free, replayBytes)
      /\ replayBytes' = replayBytes - Bytes(free, Evicted(free, replayBytes))
      /\ pendingReplayEvents' = 0 /\ pendingReplayBytes' = 0
  BY DEF ProviderExited, ReleaseAllPendingReplay
<1>2. Pinned(replay) \ S = {}  BY DEF Pinned
<1>3. Cardinality(Pinned(replay) \ S) = 0 /\ Bytes(replay, Pinned(replay) \ S) = 0
  BY <1>2, FS_EmptySet, BytesNone
<1>4. Released(S)  BY <1>1, <1>3 DEF Released
<1> QED  BY <1>4

BookKeeping ==
  \/ UNCHANGED windowVars
  \/ \E e \in Events : Publish(e) /\ RoomFor(e)
  \/ \E S : Released(S)

LEMMA BookSteps ==
  ASSUME TypeOK, CountersExact, [OpenNext]_vars
  PROVE  BookKeeping
<1>1. CASE ProviderOutput
  BY <1>1, OutputBooks DEF BookKeeping
<1>2. CASE FailPublish \/ PublishExit
  <2>1. PICK s \in {"protocol_error", "exited"} : Publish(StateEvent(s))
    BY <1>2 DEF FailPublish, PublishExit
  <2>2. StateEvent(s) \in Events  BY StateIsEvent
  <2>3. RoomFor(StateEvent(s))  BY <2>2, OwnEvents DEF StateEvent
  <2> QED  BY <2>1, <2>2, <2>3 DEF BookKeeping
<1>3. ASSUME NEW c \in Conns, AnswerFromCache(c) PROVE BookKeeping
  <2> DEFINE e == Event("result", msg[c].id, 1)
  <2>1. Publish(e) /\ msg[c].id \in ClientRequests
    <3>1. msg[c] \in ClientMessages \cup {NoMsg} /\ msg[c].kind = "request"
      BY <1>3 DEF AnswerFromCache, IsCachedInitialize, TypeOK, HandlerType
    <3> QED  BY <1>3, <3>1 DEF AnswerFromCache, ClientMessages, NoMsg
  <2>2. e \in Events  BY <2>1 DEF Event, Events
  <2>3. RoomFor(e)  BY <2>2, OwnEvents
  <2> HIDE DEF e
  <2> QED  BY <2>1, <2>2, <2>3 DEF BookKeeping
<1>4. CASE ProviderExited
  BY <1>4, ExitReleases DEF BookKeeping, TypeOK
<1>5. ASSUME NEW c \in Conns, ObserveMessage(c) PROVE BookKeeping
  BY <1>5, ReplyReleases DEF BookKeeping
<1> SUFFICES ASSUME ~BookKeeping PROVE UNCHANGED windowVars
  BY DEF BookKeeping
<1>6. CASE \/ ProviderGarbage \/ ProviderEOF \/ FailState \/ FailClose \/ FailStop
           \/ ReapProvider \/ DrainTimeout \/ StopperStep \/ ProviderDies \/ Age
  BY <1>6 DEF ProviderGarbage, ProviderEOF, FailState, FailClose, FailStop,
     ReapProvider, DrainTimeout, StopperStep, StopSignal, BeginStop, StopClose, StopKill,
     ProviderDies, Age
<1>7. ASSUME NEW c \in Conns, ConnectionStep(c) PROVE UNCHANGED windowVars
  BY <1>7 DEF ConnectionStep, Accept, Hangup, StopCommand, GcCommand, GcStop,
     BeginStop, Attach
<1>8. ASSUME NEW c \in Conns, ClientStep(c) PROVE UNCHANGED windowVars
  BY <1>3, <1>5, <1>8 DEF ClientStep, DetachClient, CloseConnection, OtherFrame,
     Answer, Ack, ReceiveInput, PassCache, TrackRequest, WriteProvider, WriteFails,
     UntrackRequest, WriteFrame
<1>9. ASSUME NEW c \in Conns, OpenStep(c) PROVE UNCHANGED windowVars
  BY <1>9 DEF OpenStep, Attach, ReceiveInput
<1>10. CASE UNCHANGED vars
  BY <1>10 DEF vars
<1> QED
  BY <1>1, <1>2, <1>4, <1>6, <1>7, <1>8, <1>9, <1>10 DEF OpenNext, Next, ReaderStep, WaiterStep

(***************************************************************************)
(* The theorems                                                            *)
(***************************************************************************)
LEMMA BooksInit == Init => CountersExact /\ WindowBounded
<1> SUFFICES ASSUME Init PROVE CountersExact /\ WindowBounded
  OBVIOUS
<1>1. DOMAIN replay = {} /\ Pinned(replay) = {}  BY DEF Init, Pinned
<1>2. Bytes(replay, {}) = 0 /\ Cardinality({}) = 0  BY BytesNone, FS_EmptySet
<1>3. PendingMaxEvents \in Nat /\ PendingMaxBytes \in Nat  BY LimitsAssumption
<1>4. replayBytes = 0 /\ pendingReplayEvents = 0 /\ pendingReplayBytes = 0  BY DEF Init
<1>5. CountersExact  BY <1>1, <1>2, <1>4 DEF CountersExact
<1>6. WindowBounded  BY <1>1, <1>2, <1>3 DEF WindowBounded
<1> QED  BY <1>5, <1>6

LEMMA BooksStep ==
  TypeOK /\ CountersExact /\ WindowBounded /\ [OpenNext]_vars => CountersExact' /\ WindowBounded'
<1> SUFFICES ASSUME TypeOK, CountersExact, WindowBounded, [OpenNext]_vars
             PROVE  CountersExact' /\ WindowBounded'
  OBVIOUS
<1>1. WindowType  BY DEF TypeOK
<1>2. CASE UNCHANGED windowVars
  BY <1>2 DEF windowVars, CountersExact, WindowBounded, Pinned
<1>3. ASSUME NEW e \in Events, Publish(e), RoomFor(e) PROVE CountersExact' /\ WindowBounded'
  <2>1. e.pinned => /\ pendingReplayEvents < PendingMaxEvents
                    /\ pendingReplayBytes + e.bytes <= PendingMaxBytes
    BY <1>3 DEF RoomFor
  <2> QED  BY <1>1, <1>3, <2>1, AppendBooks
<1>4. ASSUME NEW S, Released(S) PROVE CountersExact' /\ WindowBounded'
  BY <1>1, <1>4, ReleaseBooks
<1> QED  BY <1>2, <1>3, <1>4, BookSteps DEF BookKeeping

(* The three counters that decide what trimReplayLocked evicts and when    *)
(* publish refuses a request hold exactly the bytes of the window and the  *)
(* number and bytes of its unanswered requests, in every reachable state,  *)
(* whatever was appended, evicted, answered or released at exit.           *)
THEOREM BooksAreExact == Spec => []CountersExact
<1>1. [Next]_vars => [OpenNext]_vars  BY DEF OpenNext
<1> QED  BY <1>1, BooksInit, BooksStep, TypeCorrect, PTL DEF Spec

(* A window over its limits holds nothing but unanswered requests, and     *)
(* those are within the pending limits of publish: the bridge's memory is  *)
(* bounded however long no client is attached.                             *)
THEOREM WindowIsBounded == Spec => []WindowBounded
<1>1. [Next]_vars => [OpenNext]_vars  BY DEF OpenNext
<1> QED  BY <1>1, BooksInit, BooksStep, TypeCorrect, PTL DEF Spec
=================================================================================
