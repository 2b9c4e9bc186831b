------------------------- MODULE AttachOutput_proofs -------------------------
(***************************************************************************)
(* Proofs about AttachOutput, for all clients, limits and scenarios.       *)
(***************************************************************************)
EXTENDS AttachOutput, FiniteFacts, SequenceTheorems

(***************************************************************************)
(* The bytes of a queue                                                    *)
(***************************************************************************)
Sized(W) == \A w \in W : w.size \in Nat

LEMMA BytesAre ==
  ASSUME NEW W, Sized(W), NEW q \in Seq(W)
  PROVE  /\ Bytes(q) = Total([i \in DOMAIN q |-> q[i].size], DOMAIN q) /\ Bytes(q) \in Nat
         /\ IsFiniteSet(DOMAIN q)
<1> DEFINE f == [i \in DOMAIN q |-> q[i].size]
           S == DOMAIN q
<1>1. DOMAIN f = S  OBVIOUS
<1>2. SumFunction(f) = SumFunctionOnSet(f, S)  BY <1>1 DEF SumFunction
<1>3. SumFunctionOnSet(f, S) = Total(f, S)
  <2> HIDE DEF f, S
  <2> QED  BY DEF SumFunctionOnSet, FoldFunctionOnSet, MapThenFoldSet, Total, Sums, SumsUp, First
<1>4. Bytes(q) = SumFunction(f)  BY DEF Bytes
<1>5. S = 1 .. Len(q) /\ Len(q) \in Nat  OBVIOUS
<1>6. IsFiniteSet(S)  BY <1>5, FS_Interval
<1>7. \A i \in S : f[i] \in Nat  BY <1>5 DEF Sized
<1> HIDE DEF f, S
<1>8. Total(f, S) \in Nat  BY <1>6, <1>7, TotalIsNat
<1> QED  BY <1>2, <1>3, <1>4, <1>6, <1>8 DEF f, S

LEMMA BytesOfNone == Bytes(<<>>) = 0
<1>1. Sized({})  BY DEF Sized
<1>2. <<>> \in Seq({})  OBVIOUS
<1>3. Bytes(<<>>) = Total([i \in DOMAIN <<>> |-> <<>>[i].size], DOMAIN <<>>)  BY <1>1, <1>2, BytesAre
<1>4. DOMAIN <<>> = {}  OBVIOUS
<1> QED  BY <1>3, <1>4, TotalEmpty

LEMMA BytesOfAppend ==
  ASSUME NEW W, Sized(W), NEW q \in Seq(W), NEW w \in W
  PROVE  Bytes(Append(q, w)) = Bytes(q) + w.size
<1> DEFINE p == Append(q, w)
           n == Len(q) + 1
           f == [i \in DOMAIN p |-> p[i].size]
           g == [i \in DOMAIN q |-> q[i].size]
<1>1. p \in Seq(W) /\ DOMAIN p = 1 .. n /\ DOMAIN q = (1 .. n) \ {n} /\ n \in 1 .. n
  <2>1. Len(q) \in Nat /\ DOMAIN q = 1 .. Len(q)  OBVIOUS
  <2>2. p \in Seq(W) /\ Len(p) = n /\ DOMAIN p = 1 .. Len(p)  OBVIOUS
  <2> HIDE DEF p
  <2>3. 1 .. Len(q) = (1 .. n) \ {n} /\ n \in 1 .. n  BY <2>1
  <2> QED  BY <2>1, <2>2, <2>3
<1>2. f[n] = w.size /\ \A i \in DOMAIN q : f[i] = g[i]
  BY <1>1
<1>3. \A i \in 1 .. n : f[i] \in Nat
  BY <1>1 DEF Sized
<1>4. Bytes(p) = Total(f, DOMAIN p) /\ IsFiniteSet(DOMAIN p)  BY <1>1, BytesAre
<1>5. Bytes(q) = Total(g, DOMAIN q) /\ IsFiniteSet(DOMAIN q) /\ Bytes(q) \in Nat  BY BytesAre
<1> HIDE DEF f, g, p, n
<1>6. Total(f, 1 .. n) = f[n] + Total(f, (1 .. n) \ {n})  BY <1>1, <1>3, <1>4, TotalTake
<1>7. Total(f, DOMAIN q) = Total(g, DOMAIN q)  BY <1>2, <1>5, TotalSame
<1>8. Bytes(p) = w.size + Bytes(q)  BY <1>1, <1>2, <1>4, <1>5, <1>6, <1>7
<1>9. w.size \in Nat  BY DEF Sized
<1> QED  BY <1>5, <1>8, <1>9 DEF p

LEMMA FrontAndLast ==
  ASSUME NEW W, NEW q \in Seq(W), q # <<>>
  PROVE  /\ Front(q) \in Seq(W) /\ Last(q) \in W /\ q = Append(Front(q), Last(q))
         /\ Len(q) \in Nat \ {0} /\ Len(Front(q)) = Len(q) - 1
<1>1. Len(q) \in Nat /\ Len(q) # 0  OBVIOUS
<1>2. \A i \in 1 .. Len(q) - 1 : q[i] \in W  OBVIOUS
<1> DEFINE n == Len(q) - 1
           b == SubSeq(q, 1, n)
<1>3. Front(q) \in Seq(W) /\ Len(Front(q)) = Len(q) - 1
      /\ \A i \in 1 .. Len(q) - 1 : Front(q)[i] = q[i]
  <2>1. 1 \in Int /\ n \in Int /\ n >= 0 /\ \A i \in 1 .. n : q[i] \in W  BY <1>1, <1>2
  <2>2. Front(q) = b  BY DEF Front
  <2> HIDE DEF n
  <2>3. /\ b \in Seq(W) /\ Len(b) = (IF 1 <= n THEN n - 1 + 1 ELSE 0)
        /\ \A i \in 1 .. n - 1 + 1 : b[i] = q[1 + i - 1]
    BY <2>1, SubSeqProperties
  <2>4. Len(b) = n  BY <2>1, <2>3
  <2>5. \A i \in 1 .. n : b[i] = q[i]
    <3> TAKE i \in 1 .. n
    <3>1. i \in 1 .. n - 1 + 1 /\ 1 + i - 1 = i  BY <2>1
    <3> QED  BY <2>3, <3>1
  <2> HIDE DEF b
  <2> QED  BY <2>2, <2>3, <2>4, <2>5 DEF n
<1>4. Last(q) = q[Len(q)] /\ Last(q) \in W  BY <1>1 DEF Last
<1> DEFINE p == Append(Front(q), Last(q))
<1>5. p \in Seq(W) /\ Len(p) = Len(q) /\ \A i \in 1 .. Len(q) : p[i] = q[i]
  BY <1>1, <1>3, <1>4
<1> HIDE DEF p
<1>6. q = p  BY <1>5, SeqEqual
<1> QED  BY <1>1, <1>3, <1>4, <1>6 DEF p

LEMMA BytesOfFront ==
  ASSUME NEW W, Sized(W), NEW q \in Seq(W), q # <<>>
  PROVE  Bytes(q) = Bytes(Front(q)) + Last(q).size
<1>1. Front(q) \in Seq(W) /\ Last(q) \in W /\ q = Append(Front(q), Last(q))
  BY FrontAndLast
<1> QED  BY <1>1, BytesOfAppend

LEMMA BytesOfTail ==
  ASSUME NEW W, Sized(W), NEW q \in Seq(W), q # <<>>
  PROVE  Bytes(q) = Head(q).size + Bytes(Tail(q))
<1> DEFINE Good == {n \in Nat : \A p \in Seq(W) :
                      p # <<>> /\ Len(p) <= n => Bytes(p) = Head(p).size + Bytes(Tail(p))}
<1>1. 0 \in Good
  <2>1. \A p \in Seq(W) : p # <<>> => ~(Len(p) <= 0)  OBVIOUS
  <2> QED  BY <2>1
<1>2. ASSUME NEW n \in Nat, n \in Good PROVE n + 1 \in Good
  <2> SUFFICES ASSUME NEW p \in Seq(W), p # <<>>, Len(p) <= n + 1
               PROVE  Bytes(p) = Head(p).size + Bytes(Tail(p))
    OBVIOUS
  <2> DEFINE b == Front(p)
             e == Last(p)
  <2>1. b \in Seq(W) /\ e \in W /\ p = Append(b, e) /\ Len(b) <= n
    BY FrontAndLast
  <2> HIDE DEF b, e
  <2>2. e.size \in Nat  BY <2>1 DEF Sized
  <2>3. Bytes(p) = Bytes(b) + e.size  BY <2>1, BytesOfAppend
  <2>4. CASE b = <<>>
    <3>1. Head(p) = e /\ Tail(p) = <<>>  BY <2>1, <2>4
    <3>2. Bytes(b) = 0 /\ Bytes(Tail(p)) = 0  BY <2>4, <3>1, BytesOfNone
    <3> QED  BY <2>2, <2>3, <3>1, <3>2
  <2>5. CASE b # <<>>
    <3>1. Head(p) = Head(b) /\ Tail(p) = Append(Tail(b), e) /\ Tail(b) \in Seq(W) /\ Head(b) \in W
      BY <2>1, <2>5, HeadTailAppend
    <3>2. Bytes(b) = Head(b).size + Bytes(Tail(b))  BY <1>2, <2>1, <2>5
    <3>3. Bytes(Tail(p)) = Bytes(Tail(b)) + e.size  BY <2>1, <3>1, BytesOfAppend
    <3>4. Bytes(Tail(b)) \in Nat /\ Head(b).size \in Nat  BY <3>1, BytesAre DEF Sized
    <3> QED  BY <2>2, <2>3, <3>1, <3>2, <3>3, <3>4
  <2> QED  BY <2>4, <2>5
<1> HIDE DEF Good
<1>3. Len(q) \in Good  BY <1>1, <1>2, NumbersReach
<1> QED  BY <1>3 DEF Good

(***************************************************************************)
(* Sequences of clients                                                    *)
(***************************************************************************)
Once(s) == \A i, j \in DOMAIN s : s[i] = s[j] => i = j

\* q is s with other members left out or in another order.
Arranges(q, s, K, D) ==
  q \in Seq(D) /\ ToSet(q) = ToSet(s) \cap K /\ (Once(s) => Once(q))

LEMMA KeptArranges ==
  ASSUME NEW D, NEW s \in Seq(D), NEW K
  PROVE  Arranges(Kept(s, K), s, K, D)
<1> DEFINE at == {i \in DOMAIN s : s[i] \in K}
           p  == CHOOSE p \in [1 .. Cardinality(at) -> at] :
                   ToSet(p) = at /\ \A i, j \in DOMAIN p : i < j => p[i] < p[j]
           q  == [i \in DOMAIN p |-> s[p[i]]]
<1>1. Len(s) \in Nat /\ DOMAIN s = 1 .. Len(s) /\ at \in SUBSET (1 .. Len(s))  OBVIOUS
<1>2. Kept(s, K) = q  BY DEF Kept
<1>3. Enumerates(p, at)
  <2> HIDE DEF at
  <2>1. \E f : Enumerates(f, at)  BY <1>1, CanBeOrdered
  <2> QED  BY <2>1, Zenon DEF Enumerates
<1> HIDE DEF p
<1>4. Cardinality(at) \in Nat /\ DOMAIN p = 1 .. Cardinality(at)
  <2> HIDE DEF at
  <2>1. Cardinality(at) \in Nat  BY <1>1, PartIsFinite
  <2> QED  BY <1>3, <2>1 DEF Enumerates
<1>5. /\ \A i \in DOMAIN p : p[i] \in DOMAIN s /\ s[p[i]] \in K
      /\ \A j \in at : \E i \in DOMAIN p : p[i] = j
      /\ \A i, j \in DOMAIN p : p[i] = p[j] => i = j
  <2>1. ToSet(p) = at  BY <1>3 DEF Enumerates
  <2>2. \A i \in DOMAIN p : p[i] \in at  BY <2>1 DEF ToSet
  <2>3. \A j \in at : \E i \in DOMAIN p : p[i] = j  BY <2>1, Zenon DEF ToSet
  <2>4. \A i, j \in DOMAIN p : i < j => p[i] < p[j]  BY <1>3 DEF Enumerates
  <2>5. \A i \in DOMAIN p : p[i] \in Nat /\ i \in Nat  BY <1>1, <1>4, <2>2
  <2>6. \A i, j \in DOMAIN p : p[i] = p[j] => i = j
    <3> TAKE i, j \in DOMAIN p
    <3>1. i < j \/ j < i \/ i = j  BY <2>5
    <3> QED  BY <2>4, <2>5, <3>1
  <2> QED  BY <2>2, <2>3, <2>6
<1>6. q \in Seq(D)
  <2>1. \A i \in 1 .. Cardinality(at) : s[p[i]] \in D  BY <1>1, <1>4, <1>5
  <2> QED  BY <1>4, <2>1
<1>7. ToSet(q) = ToSet(s) \cap K
  <2>1. DOMAIN q = DOMAIN p /\ \A i \in DOMAIN p : q[i] = s[p[i]]  OBVIOUS
  <2> HIDE DEF q
  <2>2. \A x \in ToSet(q) : x \in ToSet(s) /\ x \in K  BY <1>5, <2>1 DEF ToSet
  <2>3. \A x \in ToSet(s) : x \in K => x \in ToSet(q)
    <3> SUFFICES ASSUME NEW j \in DOMAIN s, s[j] \in K PROVE s[j] \in ToSet(q)
      BY DEF ToSet
    <3>1. PICK i \in DOMAIN p : p[i] = j  BY <1>5
    <3> QED  BY <2>1, <3>1 DEF ToSet
  <2> QED  BY <2>2, <2>3
<1>8. Once(s) => Once(q)
  <2>1. DOMAIN q = DOMAIN p /\ \A i \in DOMAIN p : q[i] = s[p[i]]  OBVIOUS
  <2> HIDE DEF q
  <2> QED  BY <1>5, <2>1 DEF Once
<1> QED  BY <1>2, <1>6, <1>7, <1>8 DEF Arranges

LEMMA ReverseArranges ==
  ASSUME NEW D, NEW s \in Seq(D)
  PROVE  Arranges(Reverse(s), s, D, D)
<1> DEFINE q == Reverse(s)
<1>1. Len(s) \in Nat /\ DOMAIN s = 1 .. Len(s) /\ \A i \in 1 .. Len(s) : s[i] \in D  OBVIOUS
<1>2. q = [i \in 1 .. Len(s) |-> s[(Len(s) - i) + 1]]  BY DEF Reverse
<1>3. q \in Seq(D) /\ DOMAIN q = 1 .. Len(s)
  <2>1. \A i \in 1 .. Len(s) : s[(Len(s) - i) + 1] \in D  BY <1>1
  <2> QED  BY <1>1, <1>2, <2>1
<1>4. \A i \in 1 .. Len(s) : q[i] = s[(Len(s) - i) + 1] /\ s[i] = q[(Len(s) - i) + 1]
  BY <1>1, <1>2
<1> HIDE DEF q
<1>5. ToSet(q) = ToSet(s)
  <2>1. \A i \in 1 .. Len(s) : (Len(s) - i) + 1 \in 1 .. Len(s)  BY <1>1
  <2> QED  BY <1>1, <1>3, <1>4, <2>1, Zenon DEF ToSet
<1>6. Once(s) => Once(q)
  <2> SUFFICES ASSUME Once(s), NEW i \in 1 .. Len(s), NEW j \in 1 .. Len(s), q[i] = q[j]
               PROVE  i = j
    BY <1>3 DEF Once
  <2>1. (Len(s) - i) + 1 = (Len(s) - j) + 1
    BY <1>1, <1>4 DEF Once
  <2> QED  BY <1>1, <2>1
<1>7. ToSet(s) \subseteq D  BY <1>1 DEF ToSet
<1> QED  BY <1>3, <1>5, <1>6, <1>7 DEF Arranges, q

(***************************************************************************)
(* Clients and what is put into their queues                               *)
(***************************************************************************)
\* Q is the queries there have been.
Tokens(Q) == [who : Nat, asks : SUBSET Q, client : Clients \cup {NoClient}]
Gates(Q)  == [token : Tokens(Q), part : {"none", "ask", "rest"}]

\* Who waits for a write waits for this client, and for what the write asks.
Good(c, Q) ==
  {w \in [shows : SUBSET Nat, asks : SUBSET Q, size : Nat, token : Tokens(Q), gate : Gates(Q)] :
     w.token # NoToken => w.token.client = c /\ w.token.asks \subseteq w.asks}

Exact(r) == r.bytes = r.held.size + Bytes(r.queue) /\ r.bytes <= QueueLimit

Holdings(c, Q) ==
  {r \in [queue : Seq(Good(c, Q)), bytes : Nat, open : BOOLEAN, held : Good(c, Q),
          gone : BOOLEAN, mark : Nat, flush : BOOLEAN, saw : SUBSET Nat, asked : SUBSET Q] :
     Exact(r)}

\* r has become p by what was put into its queue.
Grown(r, p) ==
  /\ p.held = r.held /\ p.gone = r.gone /\ p.mark = r.mark /\ p.flush = r.flush
  /\ p.saw = r.saw /\ p.asked = r.asked /\ (p.open => r.open)

LEMMA NoWriteGood ==
  ASSUME OutputAssumption, NEW c \in Clients, NEW Q
  PROVE  /\ NoToken \in Tokens(Q) /\ NoGate \in Gates(Q) /\ NoWrite \in Good(c, Q)
         /\ NoToken.who = MaxPauses + 3 /\ MaxPauses \in Nat /\ QueueLimit \in Nat
<1>1. MaxPauses \in Nat /\ QueueLimit \in Nat /\ Nobody \in Nat  BY DEF OutputAssumption, Nobody
<1>2. NoToken \in Tokens(Q)  BY <1>1 DEF NoToken, Tokens
<1>3. NoGate \in Gates(Q)  BY <1>2 DEF NoGate, Gates
<1>4. NoWrite \in Good(c, Q)  BY <1>2, <1>3 DEF NoWrite, Good
<1> QED  BY <1>1, <1>2, <1>3, <1>4 DEF NoToken, Nobody

LEMMA GoodSized ==
  ASSUME NEW c, NEW Q
  PROVE  Sized(Good(c, Q))
BY DEF Sized, Good

DataWell(c, Q, shows, asks) ==
  /\ Data(shows, asks) \in Good(c, Q)
  /\ Data(shows, asks).token = NoToken /\ Data(shows, asks).gate = NoGate
  /\ Data(shows, asks).asks = asks /\ Data(shows, asks).shows = shows
  /\ (asks # {} => Data(shows, asks).size # 0)

LEMMA DataGood ==
  ASSUME OutputAssumption, NEW c \in Clients, NEW Q, NEW shows \in SUBSET Nat, NEW asks \in SUBSET Q
  PROVE  DataWell(c, Q, shows, asks)
<1> DEFINE S == {s \in {"shows"} : shows # {}}
           A == {a \in {"asks"} : asks # {}}
<1>1. IsFiniteSet(S) /\ IsFiniteSet(A) /\ Cardinality(S) \in Nat /\ Cardinality(A) \in Nat
      /\ (asks # {} => Cardinality(A) = 1)
  <2>1. IsFiniteSet({"shows"}) /\ IsFiniteSet({"asks"}) /\ Cardinality({"asks"}) = 1  BY FS_Singleton
  <2>2. IsFiniteSet(S) /\ IsFiniteSet(A)  BY <2>1, FS_Subset
  <2>3. asks # {} => A = {"asks"}  OBVIOUS
  <2> HIDE DEF S, A
  <2> QED  BY <2>1, <2>2, <2>3, FS_CardinalityType
<1>2. Data(shows, asks) =
        [NoWrite EXCEPT !.shows = shows, !.asks = asks, !.size = Cardinality(S) + Cardinality(A)]
  BY DEF Data
<1> HIDE DEF S, A
<1>3. Cardinality(S) + Cardinality(A) \in Nat /\ (asks # {} => Cardinality(S) + Cardinality(A) # 0)
  BY <1>1
<1> QED  BY <1>2, <1>3, NoWriteGood DEF NoWrite, Good, DataWell

LEMMA AppendedGood ==
  ASSUME OutputAssumption, NEW c \in Clients, NEW Q, NEW q \in Seq(Good(c, Q)), NEW w \in Good(c, Q)
  PROVE  Appended(q, w) \in Seq(Good(c, Q)) /\ Bytes(Appended(q, w)) = Bytes(q) + w.size
<1>1. Sized(Good(c, Q))  BY GoodSized
<1>2. CASE q # <<>> /\ Plain(w) /\ Plain(Last(q)) /\ Last(q).size + w.size <= ChunkLimit
  <2> DEFINE b == Front(q)
             v == Last(q)
             j == Joined(v, w)
  <2>1. b \in Seq(Good(c, Q)) /\ v \in Good(c, Q)  BY <1>2, FrontAndLast
  <2>2. Bytes(q) = Bytes(b) + v.size  BY <1>1, <1>2, BytesOfFront
  <2>3. Appended(q, w) = Append(b, j)  BY <1>2 DEF Appended
  <2>4. v.token = NoToken  BY <1>2 DEF Plain
  <2> HIDE DEF b, v
  <2>5. j \in Good(c, Q) /\ j.size = v.size + w.size
    <3> DEFINE R == [shows : SUBSET Nat, asks : SUBSET Q, size : Nat, token : Tokens(Q), gate : Gates(Q)]
    <3>1. v \in R /\ w \in R  BY <2>1 DEF Good
    <3>2. v.shows \cup w.shows \in SUBSET Nat /\ v.size + w.size \in Nat  BY <3>1
    <3>3. j = [v EXCEPT !.shows = v.shows \cup w.shows, !.size = v.size + w.size]  BY DEF Joined
    <3>4. j \in R  BY <3>1, <3>2, <3>3
    <3>5. j.token = NoToken /\ j.size = v.size + w.size  BY <2>4, <3>1, <3>3
    <3> HIDE DEF j
    <3> QED  BY <3>4, <3>5 DEF Good
  <2>6. v.size \in Nat /\ w.size \in Nat /\ Bytes(b) \in Nat  BY <1>1, <2>1, BytesAre DEF Sized
  <2> HIDE DEF j
  <2>7. Bytes(Append(b, j)) = Bytes(b) + j.size  BY <1>1, <2>1, <2>5, BytesOfAppend
  <2> QED  BY <2>1, <2>2, <2>3, <2>5, <2>6, <2>7
<1>3. CASE ~(q # <<>> /\ Plain(w) /\ Plain(Last(q)) /\ Last(q).size + w.size <= ChunkLimit)
  <2>1. Appended(q, w) = Append(q, w)  BY <1>3 DEF Appended
  <2> QED  BY <1>1, <2>1, BytesOfAppend
<1> QED  BY <1>2, <1>3

\* What is put somewhere leaves the books in order, whoever it is for.
PutWell(c, Q, r, w) ==
  /\ Put(r, w) \in Holdings(c, Q) /\ Grown(r, Put(r, w))
  /\ Put(r, w).queue \in {r.queue, Appended(r.queue, w)}
  /\ (w.size # 0 /\ Fits(r, w) => Put(r, w).queue = Appended(r.queue, w))
  /\ (w.size = 0 \/ ~Fits(r, w) => Put(r, w).queue = r.queue)

\* It need not be meant for the client unless it fits.
LEMMA PutHolds ==
  ASSUME OutputAssumption, NEW c \in Clients, NEW Q, NEW r \in Holdings(c, Q), NEW w,
         w.size \in Nat, Fits(r, w) => w \in Good(c, Q)
  PROVE  PutWell(c, Q, r, w)
<1> DEFINE p == Put(r, w)
           a == Appended(r.queue, w)
<1>1. r.queue \in Seq(Good(c, Q)) /\ r.held \in Good(c, Q) /\ r.bytes \in Nat /\ Exact(r)
  BY DEF Holdings
<1>2. CASE w.size = 0
  <2>1. p = r  BY <1>2 DEF Put
  <2> QED  BY <1>2, <2>1 DEF PutWell, Grown
<1>3. CASE w.size # 0 /\ Fits(r, w)
  <2>1. p = [r EXCEPT !.bytes = r.bytes + w.size, !.queue = a]
    BY <1>3 DEF Put
  <2>2. w \in Good(c, Q)  BY <1>3
  <2>3. a \in Seq(Good(c, Q)) /\ Bytes(a) = Bytes(r.queue) + w.size
    BY <1>1, <2>2, AppendedGood
  <2>4. r.bytes + w.size <= QueueLimit /\ r.bytes + w.size \in Nat  BY <1>1, <1>3 DEF Fits
  <2>5. Bytes(r.queue) \in Nat /\ r.held.size \in Nat  BY <1>1, GoodSized, BytesAre DEF Sized
  <2> HIDE DEF a
  <2>6. Grown(r, p) /\ p.queue = a /\ p.bytes = r.bytes + w.size
    BY <2>1 DEF Holdings, Grown
  <2>7. Exact(p)
    <3>1. p.held = r.held /\ p.queue = a /\ p.bytes = r.bytes + w.size  BY <2>6 DEF Grown
    <3>2. r.bytes = r.held.size + Bytes(r.queue)  BY <1>1 DEF Exact
    <3> HIDE DEF p
    <3>3. p.bytes = p.held.size + Bytes(p.queue)  BY <2>3, <2>5, <3>1, <3>2
    <3>4. p.bytes <= QueueLimit  BY <2>4, <3>1
    <3> QED  BY <3>3, <3>4 DEF Exact
  <2>8. p \in Holdings(c, Q)
    <3>1. p \in [queue : Seq(Good(c, Q)), bytes : Nat, open : BOOLEAN, held : Good(c, Q),
                 gone : BOOLEAN, mark : Nat, flush : BOOLEAN, saw : SUBSET Nat, asked : SUBSET Q]
      BY <2>1, <2>3, <2>4 DEF Holdings
    <3> QED  BY <2>7, <3>1 DEF Holdings
  <2> HIDE DEF p
  <2> QED  BY <1>3, <2>6, <2>8 DEF PutWell, p, a
<1>4. CASE w.size # 0 /\ ~Fits(r, w)
  <2>1. p = [r EXCEPT !.open = FALSE]  BY <1>4 DEF Put
  <2>2. Grown(r, p) /\ p.queue = r.queue /\ p.bytes = r.bytes
    BY <2>1 DEF Holdings, Grown
  <2>3. Exact(p)  BY <1>1, <2>2 DEF Exact, Grown
  <2>4. p \in Holdings(c, Q)  BY <2>1, <2>3 DEF Holdings
  <2> HIDE DEF p
  <2> QED  BY <1>4, <2>2, <2>4 DEF PutWell, p
<1> QED  BY <1>2, <1>3, <1>4

\* Client f[i] takes w, or none does.
TakenAt(i, cs, f, w) ==
  /\ i \in 0 .. Len(f) /\ Len(f) \in Nat
  /\ i = 0 => \A j \in 1 .. Len(f) : ~Fits(cs[f[j]], w)
  /\ i # 0 => i \in 1 .. Len(f) /\ f[i] \in Clients /\ Fits(cs[f[i]], w)
  /\ \A j \in 1 .. Len(f) : Fits(cs[f[j]], w) => j <= i

LEMMA TakerIs ==
  ASSUME NEW cs, NEW f \in Seq(Clients), NEW w
  PROVE  TakenAt(Taker(cs, f, w), cs, f, w)
<1> DEFINE T == Takers(cs, f, w)
<1>1. Len(f) \in Nat /\ T \in SUBSET (1 .. Len(f)) /\ \A j \in 1 .. Len(f) : j \in T <=> Fits(cs[f[j]], w)
  BY DEF Takers
<1>2. Taker(cs, f, w) = IF T = {} THEN 0 ELSE Max(T)  BY DEF Taker
<1> HIDE DEF T
<1>3. CASE T = {}
  BY <1>1, <1>2, <1>3 DEF TakenAt
<1>4. CASE T # {}
  <2>1. \E m \in T : \A k \in T : k <= m  BY <1>1, <1>4, GreatestNumber
  <2>2. \A k \in T : k \in Nat  BY <1>1
  <2>3. \E m \in T : \A k \in T : m >= k  BY <2>1, <2>2
  <2>4. Max(T) \in T /\ \A k \in T : Max(T) >= k  BY <2>3, Zenon DEF Max
  <2> DEFINE i == Taker(cs, f, w)
  <2>5. i \in T /\ \A k \in T : k <= i
    <3>1. i = Max(T)  BY <1>2, <1>4
    <3> QED  BY <2>2, <2>4, <3>1
  <2> HIDE DEF i
  <2>6. i \in 1 .. Len(f) /\ i # 0 /\ Fits(cs[f[i]], w) /\ i \in 0 .. Len(f)
    BY <1>1, <2>5
  <2>7. f[i] \in Clients  BY <2>6
  <2>8. TakenAt(i, cs, f, w)  BY <1>1, <2>5, <2>6, <2>7 DEF TakenAt
  <2> QED  BY <2>8 DEF i
<1> QED  BY <1>3, <1>4

\* Clients cs, offered w, become ds: only the first that has room takes it.
OfferedWell(cs, f, w, Q, ds) ==
  /\ ds = [c \in Clients |-> ds[c]]
  /\ \A c \in Clients :
       /\ ds[c] \in Holdings(c, Q) /\ Grown(cs[c], ds[c])
       /\ ds[c].queue = IF Taker(cs, f, w) # 0 /\ w.size # 0 /\ c = f[Taker(cs, f, w)]
                          THEN Appended(cs[c].queue, w) ELSE cs[c].queue

LEMMA OfferedHolds ==
  ASSUME OutputAssumption, NEW Q, NEW cs, \A c \in Clients : cs[c] \in Holdings(c, Q),
         NEW f \in Seq(Clients), NEW w, w.size \in Nat,
         Taker(cs, f, w) # 0 => w \in Good(f[Taker(cs, f, w)], Q)
  PROVE  OfferedWell(cs, f, w, Q, Offered(cs, f, w))
<1> DEFINE i == Taker(cs, f, w)
           ds == Offered(cs, f, w)
<1>0. TakenAt(i, cs, f, w)  BY TakerIs
<1>1. /\ i \in 0 .. Len(f)
      /\ i = 0 => \A j \in 1 .. Len(f) : ~Fits(cs[f[j]], w)
      /\ i # 0 => i \in 1 .. Len(f) /\ Fits(cs[f[i]], w)
      /\ \A j \in 1 .. Len(f) : Fits(cs[f[j]], w) => j <= i
      /\ Len(f) \in Nat
  BY <1>0 DEF TakenAt
<1>2. ds = [c \in Clients |-> IF \E j \in 1 .. Len(f) : f[j] = c /\ j >= i
                                THEN Put(cs[c], w) ELSE cs[c]]
  BY DEF Offered
<1> HIDE DEF i, ds
<1>3. ASSUME NEW c \in Clients
      PROVE  /\ ds[c] \in Holdings(c, Q) /\ Grown(cs[c], ds[c])
             /\ ds[c].queue = IF i # 0 /\ w.size # 0 /\ c = f[i]
                                THEN Appended(cs[c].queue, w) ELSE cs[c].queue
  <2>1. CASE \E j \in 1 .. Len(f) : f[j] = c /\ j >= i
    <3>1. ds[c] = Put(cs[c], w)  BY <1>2, <2>1
    <3>2. PICK j \in 1 .. Len(f) : f[j] = c /\ j >= i  BY <2>1
    <3>3. Fits(cs[c], w) => i # 0 /\ c = f[i]
      <4>1. Fits(cs[c], w) => j <= i  BY <1>1, <3>2
      <4> QED  BY <1>1, <3>2, <4>1
    <3>4. Fits(cs[c], w) => w \in Good(c, Q)  BY <3>3 DEF i
    <3>5. PutWell(c, Q, cs[c], w)  BY <3>4, PutHolds
    <3>6. i # 0 /\ c = f[i] => Fits(cs[c], w)  BY <1>1
    <3> QED  BY <3>1, <3>3, <3>5, <3>6 DEF PutWell
  <2>2. CASE ~\E j \in 1 .. Len(f) : f[j] = c /\ j >= i
    <3>1. ds[c] = cs[c]  BY <1>2, <2>2
    <3>2. ~(i # 0 /\ c = f[i])  BY <1>1, <2>2
    <3> QED  BY <3>1, <3>2 DEF Grown
  <2> QED  BY <2>1, <2>2
<1>4. ds = [c \in Clients |-> ds[c]]  BY <1>2
<1> QED  BY <1>3, <1>4 DEF OfferedWell, i, ds

(***************************************************************************)
(* The invariant                                                           *)
(***************************************************************************)
Somebody == Clients \cup {NoClient}
Jobs(Q)  == [asks : SUBSET Q, wait : Somebody, rest : Seq(Clients), gated : SUBSET Clients,
             delivered : BOOLEAN]
Reads(Q) == [chunk : Nat, asks : SUBSET Q, primary : Somebody, latest : Nat]
Results(Q) == [token : Tokens(Q), ok : BOOLEAN]
Watchings(Q) == [token : Tokens(Q), flight : BOOLEAN]
Budgets == [attached : Nat, asking : Seq(BOOLEAN), redraws : BOOLEAN,
            attach : Nat, focus : Nat, switch : Nat, pause : Nat, lose : Nat]

AllAsked == UNION {client[c].asked : c \in Clients}

ClientInv ==
  /\ client = [c \in Clients |-> client[c]]
  /\ \A c \in Clients : client[c] \in Holdings(c, queries) /\ client[c].mark <= emitted

\* A result that says a query was written is true.
ResultInv ==
  \A r \in results :
    /\ r \in Results(queries) /\ r.token.client \in Clients
    /\ (r.ok => r.token.asks \subseteq client[r.token.client].asked)

\* So is a job's note that it was; a thread is free when its work begins.
JobInv ==
  /\ job \in [Writers -> Jobs(queries)]
  /\ \A t \in Writers : job[t].delivered => job[t].asks \subseteq AllAsked

ReadInv == reading \in Reads(queries) /\ (reading # NoRead => job[Reader] = NoJob)

TimerInv ==
  /\ pauses \in Nat /\ timers \subseteq 1 .. pauses
  /\ \A t \in Writers : t \in timers \/ t > pauses => job[t] = NoJob

\* The flush in flight is watched by one goroutine, and is what that watches.
QueryInv ==
  /\ pending \subseteq queries /\ inFlight \subseteq queries /\ watches \subseteq Watchings(queries)
  /\ \A w \in watches : w.token.client \in Clients /\ (w.flight => inFlight = w.token.asks /\ inFlight # {})
  /\ \A v, w \in watches : v.flight /\ w.flight => v = w

PlaceInv ==
  /\ budget \in Budgets /\ {redraws, shown, paused} \subseteq BOOLEAN
  /\ focus \in Seq(Clients) /\ Once(focus) /\ arrived \in Seq(Clients)
  /\ Registered \subseteq ToSet(arrived) /\ awaited \in Registered \cup {NoClient}
  /\ emitted \in Nat /\ queries \subseteq History
  /\ buffer \in [asks : SUBSET queries, primary : Somebody]

\* Each pause is paid for beforehand.
Flushing == {c \in Clients : client[c].flush}
Paid   == budget.attach + budget.focus + budget.pause + budget.switch
Owed   == IF awaited = NoClient THEN 0 ELSE 1
Hidden == IF shown THEN 0 ELSE 1
BudgetInv == pauses + Paid + Cardinality(Flushing) + Owed + Hidden <= MaxPauses

Inv == ClientInv /\ ResultInv /\ JobInv /\ ReadInv /\ TimerInv /\ QueryInv /\ PlaceInv /\ BudgetInv

\* Where a query may be, that a client watches again among others.
Resent(ws) == UNION {w.token.asks : w \in ws}
Found == OnItsWay \cup missed \cup answered \cup AllAsked

\* After a step the invariant holds, and each query is somewhere.
StepWell == Inv' /\ Found \subseteq Found' /\ queries' \subseteq queries \cup Found'

(***************************************************************************)
(* What steps that leave a part of the state alone leave of the invariant  *)
(***************************************************************************)
AskedGrows == \A c \in Clients : client[c].asked \subseteq client'[c].asked

LEMMA MoreAsked ==
  ASSUME AskedGrows
  PROVE  AllAsked \subseteq AllAsked'
BY DEF AskedGrows, AllAsked

LEMMA FoundKept ==
  ASSUME AskedGrows, missed \subseteq missed', answered \subseteq answered',
         \A x \in pending \cup inFlight \cup buffer.asks \cup reading.asks \cup Resent(watches) : x \in Found',
         \A t \in Writers : job[t].asks \subseteq Found'
  PROVE  Found \subseteq Found'
<1>1. AllAsked \subseteq AllAsked'  BY MoreAsked
<1> SUFFICES ASSUME NEW x \in OnItsWay PROVE x \in Found'
  BY <1>1 DEF Found
<1>2. CASE x \in UNION {job[t].asks : t \in Writers}
  <2>1. PICK t \in Writers : x \in job[t].asks  BY <1>2
  <2> QED  BY <2>1
<1>3. CASE x \in UNION {w.token.asks : w \in watches}
  BY <1>3 DEF Resent
<1>4. CASE x \in pending \cup inFlight \cup buffer.asks \cup reading.asks
  BY <1>4
<1> QED  BY <1>2, <1>3, <1>4 DEF OnItsWay

LEMMA InFound ==
  /\ pending' \subseteq Found' /\ inFlight' \subseteq Found' /\ buffer'.asks \subseteq Found'
  /\ reading'.asks \subseteq Found' /\ Resent(watches') \subseteq Found'
  /\ \A t \in Writers : job'[t].asks \subseteq Found'
  /\ missed' \subseteq Found' /\ answered' \subseteq Found' /\ AllAsked' \subseteq Found'
<1>1. \A t \in Writers : job'[t].asks \subseteq UNION {job'[u].asks : u \in Writers}  OBVIOUS
<1> DEFINE G == UNION {job'[u].asks : u \in Writers}
<1>2. OnItsWay' = pending' \cup inFlight' \cup buffer'.asks \cup reading'.asks \cup G \cup Resent(watches')
  BY DEF OnItsWay, Resent
<1> HIDE DEF G
<1>3. Found' = OnItsWay' \cup missed' \cup answered' \cup AllAsked'  BY DEF Found
<1>4. \A t \in Writers : job'[t].asks \subseteq Found'  BY <1>1, <1>2, <1>3 DEF G
<1> QED  BY <1>2, <1>3, <1>4

LEMMA ClientKept ==
  ASSUME ClientInv, UNCHANGED <<client, queries, emitted>>
  PROVE  ClientInv' /\ AskedGrows /\ Flushing' = Flushing
BY DEF ClientInv, AskedGrows, Flushing

LEMMA ResultKept ==
  ASSUME ResultInv, results' \subseteq results, queries' = queries, AskedGrows
  PROVE  ResultInv'
<1> SUFFICES ASSUME NEW r \in results'
             PROVE  /\ r \in Results(queries) /\ r.token.client \in Clients
                    /\ (r.ok => r.token.asks \subseteq client'[r.token.client].asked)
  BY DEF ResultInv
<1> QED  BY DEF ResultInv, AskedGrows

LEMMA JobKept ==
  ASSUME JobInv, UNCHANGED <<job, queries>>, AskedGrows
  PROVE  JobInv'
<1>1. AllAsked \subseteq AllAsked'  BY MoreAsked
<1> QED  BY <1>1 DEF JobInv

LEMMA JobSet ==
  ASSUME JobInv, queries' = queries, AskedGrows, NEW t \in Writers, NEW j \in Jobs(queries),
         job' = [job EXCEPT ![t] = j], j.delivered => j.asks \subseteq AllAsked'
  PROVE  JobInv'
<1>1. AllAsked \subseteq AllAsked'  BY MoreAsked
<1>2. job' \in [Writers -> Jobs(queries)]  BY DEF JobInv
<1>3. \A u \in Writers : job'[u] = IF u = t THEN j ELSE job[u]  BY DEF JobInv
<1>4. \A u \in Writers : job'[u].delivered => job'[u].asks \subseteq AllAsked'
  BY <1>1, <1>3 DEF JobInv
<1> QED  BY <1>2, <1>4 DEF JobInv

LEMMA ReadKept ==
  ASSUME ReadInv, UNCHANGED <<reading, job, queries>>
  PROVE  ReadInv'
BY DEF ReadInv

LEMMA TimerKept ==
  ASSUME TimerInv, UNCHANGED <<timers, pauses, job>>
  PROVE  TimerInv'
BY DEF TimerInv

LEMMA QueryKept ==
  ASSUME QueryInv, UNCHANGED <<pending, inFlight, watches, queries>>
  PROVE  QueryInv'
BY DEF QueryInv

LEMMA PlaceKept ==
  ASSUME PlaceInv, UNCHANGED <<budget, redraws, shown, paused, focus, arrived, awaited, emitted,
                               queries, buffer>>
  PROVE  PlaceInv'
BY DEF PlaceInv, Registered, History

LEMMA BudgetKept ==
  ASSUME BudgetInv, UNCHANGED <<pauses, budget, awaited, shown>>, Flushing' = Flushing
  PROVE  BudgetInv'
BY DEF BudgetInv, Paid, Owed, Hidden

LEMMA SpendIs ==
  ASSUME PlaceInv, NEW e \in {"attach", "focus", "switch", "pause", "lose"}, Spend(e)
  PROVE  /\ budget' \in Budgets /\ budget[e] \in Nat \ {0} /\ budget'[e] = budget[e] - 1
         /\ \A d \in {"attach", "focus", "switch", "pause", "lose"} \ {e} : budget'[d] = budget[d]
<1>1. budget \in Budgets /\ budget[e] > 0 /\ budget' = [budget EXCEPT ![e] = budget[e] - 1]
  BY DEF PlaceInv, Spend
<1>2. budget[e] \in Nat  BY <1>1 DEF Budgets
<1>3. budget[e] - 1 \in Nat  BY <1>1, <1>2
<1> QED  BY <1>1, <1>2, <1>3 DEF Budgets

\* The books of client c become p, and nobody else's change.
LEMMA ClientSet ==
  ASSUME ClientInv, UNCHANGED <<queries, emitted>>, NEW c \in Clients,
         NEW p \in Holdings(c, queries), p.mark <= emitted,
         client' = [client EXCEPT ![c] = p], client[c].asked \subseteq p.asked
  PROVE  /\ ClientInv' /\ AskedGrows /\ client'[c] = p
         /\ \A d \in Clients \ {c} : client'[d] = client[d]
         /\ (p.flush <=> client[c].flush) => Flushing' = Flushing
<1>1. \A d \in Clients : client'[d] = IF d = c THEN p ELSE client[d]  BY DEF ClientInv
<1>2. client' = [d \in Clients |-> client'[d]]  BY DEF ClientInv
<1>3. \A d \in Clients : client'[d] \in Holdings(d, queries) /\ client'[d].mark <= emitted
  BY <1>1 DEF ClientInv
<1>4. AskedGrows  BY <1>1 DEF AskedGrows
<1>5. (p.flush <=> client[c].flush) => Flushing' = Flushing  BY <1>1 DEF Flushing
<1> QED  BY <1>1, <1>2, <1>3, <1>4, <1>5 DEF ClientInv

\* The books of all clients become ds, which put something into their queues.
LEMMA ClientsSet ==
  ASSUME ClientInv, UNCHANGED <<queries, emitted>>, client' = [c \in Clients |-> client'[c]],
         \A c \in Clients : client'[c] \in Holdings(c, queries) /\ Grown(client[c], client'[c])
  PROVE  ClientInv' /\ AskedGrows /\ Flushing' = Flushing
BY DEF ClientInv, AskedGrows, Flushing, Grown

(***************************************************************************)
(* A client's write loop                                                   *)
(***************************************************************************)
\* All but the clients, the results and the gates is as it was.
Elsewhere == <<attachVars, windowVars, job, queryVars, pauseVars>>

LEMMA ClientStepKeeps ==
  ASSUME Inv, UNCHANGED Elsewhere, ClientInv', ResultInv', AskedGrows, Flushing' = Flushing,
         budget' \in Budgets, \A e \in {"attach", "focus", "pause", "switch"} : budget'[e] = budget[e]
  PROVE  StepWell
<1>1. UNCHANGED <<focus, awaited, arrived, redraws, shown, emitted, queries, reading, missed, answered,
                  job, pending, inFlight, watches, paused, buffer, pauses, timers>>
  BY DEF Elsewhere, attachVars, windowVars, queryVars, pauseVars
<1>2. JobInv' /\ ReadInv' /\ TimerInv' /\ QueryInv'
  BY <1>1, JobKept, ReadKept, TimerKept, QueryKept DEF Inv
<1>3. PlaceInv'  BY <1>1 DEF Inv, PlaceInv, Registered, History
<1>4. BudgetInv'  BY <1>1 DEF Inv, BudgetInv, Paid, Owed, Hidden
<1>5. AllAsked \subseteq AllAsked'  BY MoreAsked
<1>6. Found \subseteq Found'  BY <1>1, <1>5 DEF Found, OnItsWay
<1> QED  BY <1>1, <1>2, <1>3, <1>4, <1>6 DEF Inv, StepWell

LEMMA HoldingParts ==
  ASSUME NEW c, NEW Q, NEW r \in Holdings(c, Q)
  PROVE  /\ r.queue \in Seq(Good(c, Q)) /\ r.held \in Good(c, Q) /\ r.bytes \in Nat
         /\ r.held.size \in Nat /\ Bytes(r.queue) \in Nat
         /\ r.bytes = r.held.size + Bytes(r.queue) /\ r.bytes <= QueueLimit
         /\ {r.open, r.gone, r.flush} \subseteq BOOLEAN /\ r.mark \in Nat
         /\ r.saw \subseteq Nat /\ r.asked \subseteq Q
<1>1. r.queue \in Seq(Good(c, Q)) /\ r.held \in Good(c, Q)  BY DEF Holdings
<1>2. r.held.size \in Nat /\ Bytes(r.queue) \in Nat  BY <1>1, GoodSized, BytesAre DEF Sized
<1> QED  BY <1>1, <1>2 DEF Holdings, Exact

LEMMA TakeWriteKeeps ==
  ASSUME OutputAssumption, Inv, NEW c \in Clients, TakeWrite(c)
  PROVE  StepWell
<1> DEFINE r == client[c]
           p == [r EXCEPT !.held = Head(r.queue), !.queue = Tail(r.queue)]
<1>1. /\ r.held = NoWrite /\ r.queue # <<>> /\ client' = [client EXCEPT ![c] = p]
      /\ UNCHANGED Elsewhere /\ UNCHANGED <<results, budget>>
  <2>1. client' = [client EXCEPT ![c].held = Head(r.queue), ![c].queue = Tail(r.queue)]
    BY DEF TakeWrite
  <2>2. client' = [client EXCEPT ![c] = p]  BY <2>1 DEF Inv, ClientInv
  <2> QED  BY <2>2 DEF TakeWrite, Elsewhere
<1>2. r \in Holdings(c, queries) /\ r.mark <= emitted  BY DEF Inv, ClientInv
<1>3. p \in Holdings(c, queries) /\ p.mark = r.mark /\ p.asked = r.asked /\ p.flush = r.flush
  <2> HIDE DEF r
  <2>1. /\ r.queue \in Seq(Good(c, queries)) /\ r.held \in Good(c, queries)
        /\ r.bytes = r.held.size + Bytes(r.queue) /\ r.bytes <= QueueLimit /\ r.bytes \in Nat
    BY <1>2, HoldingParts
  <2>2. Head(r.queue) \in Good(c, queries) /\ Tail(r.queue) \in Seq(Good(c, queries))
    BY <1>1, <2>1
  <2>3. Bytes(r.queue) = Head(r.queue).size + Bytes(Tail(r.queue))
    BY <1>1, <2>1, BytesOfTail, GoodSized
  <2>4. r.held.size = 0  BY <1>1 DEF NoWrite
  <2>5. Head(r.queue).size \in Nat /\ Bytes(Tail(r.queue)) \in Nat
    BY <2>2, BytesAre, GoodSized DEF Sized
  <2>6. p.held = Head(r.queue) /\ p.queue = Tail(r.queue) /\ p.bytes = r.bytes
    BY <1>2 DEF Holdings
  <2> HIDE DEF p
  <2>7. Exact(p)  BY <2>1, <2>3, <2>4, <2>5, <2>6 DEF Exact
  <2>8. p \in [queue : Seq(Good(c, queries)), bytes : Nat, open : BOOLEAN, held : Good(c, queries),
               gone : BOOLEAN, mark : Nat, flush : BOOLEAN, saw : SUBSET Nat, asked : SUBSET queries]
    BY <1>2, <2>2 DEF Holdings, p
  <2> QED  BY <1>2, <2>7, <2>8 DEF Holdings, p
<1>4. UNCHANGED <<queries, emitted>>  BY <1>1 DEF Elsewhere, windowVars
<1> HIDE DEF p
<1>5. ClientInv' /\ AskedGrows /\ Flushing' = Flushing
  BY <1>1, <1>2, <1>3, <1>4, ClientSet DEF Inv
<1>6. ResultInv'  BY <1>1, <1>4, <1>5, ResultKept DEF Inv
<1> QED  BY <1>1, <1>5, <1>6, ClientStepKeeps DEF Inv, PlaceInv

\* A write is off the client's hands: its bytes are given back.
LEMMA ReturnedHolds ==
  ASSUME OutputAssumption, NEW c \in Clients, NEW Q, NEW r \in Holdings(c, Q)
  PROVE  /\ Returned(r) \in Holdings(c, Q) /\ Returned(r).mark = r.mark
         /\ Returned(r).asked = r.asked /\ Returned(r).flush = r.flush /\ Returned(r).saw = r.saw
         /\ Returned(r).queue = r.queue /\ Returned(r).held = NoWrite
<1> DEFINE p == Returned(r)
<1>1. p = [r EXCEPT !.bytes = r.bytes - r.held.size, !.held = NoWrite]  BY DEF Returned
<1>2. /\ r.bytes \in Nat /\ r.held.size \in Nat /\ Bytes(r.queue) \in Nat
      /\ r.bytes = r.held.size + Bytes(r.queue) /\ r.bytes <= QueueLimit /\ QueueLimit \in Nat
  BY HoldingParts, NoWriteGood
<1>3. r.bytes - r.held.size = Bytes(r.queue)  BY <1>2
<1>4. NoWrite \in Good(c, Q) /\ NoWrite.size = 0  BY NoWriteGood DEF NoWrite
<1> HIDE DEF p
<1>5. /\ p.mark = r.mark /\ p.asked = r.asked /\ p.flush = r.flush /\ p.saw = r.saw
      /\ p.queue = r.queue /\ p.held = NoWrite /\ p.bytes = Bytes(r.queue)
  BY <1>1, <1>3 DEF Holdings
<1>6. Exact(p)  BY <1>2, <1>4, <1>5 DEF Exact
<1>7. p \in [queue : Seq(Good(c, Q)), bytes : Nat, open : BOOLEAN, held : Good(c, Q),
             gone : BOOLEAN, mark : Nat, flush : BOOLEAN, saw : SUBSET Nat, asked : SUBSET Q]
  BY <1>1, <1>2, <1>3, <1>4 DEF Holdings
<1> QED  BY <1>5, <1>6, <1>7 DEF Holdings, p

LEMMA SkipWriteKeeps ==
  ASSUME OutputAssumption, Inv, NEW c \in Clients, SkipWrite(c)
  PROVE  StepWell
<1> DEFINE p == Returned(client[c])
<1>1. client' = [client EXCEPT ![c] = p] /\ UNCHANGED Elsewhere /\ UNCHANGED <<results, budget>>
  BY DEF SkipWrite, Elsewhere
<1>2. UNCHANGED <<queries, emitted>>  BY <1>1 DEF Elsewhere, windowVars
<1>3. client[c] \in Holdings(c, queries) /\ client[c].mark <= emitted  BY DEF Inv, ClientInv
<1>4. p \in Holdings(c, queries) /\ p.mark = client[c].mark /\ p.asked = client[c].asked
      /\ p.flush = client[c].flush
  BY <1>3, ReturnedHolds
<1> HIDE DEF p
<1>5. ClientInv' /\ AskedGrows /\ Flushing' = Flushing
  BY <1>1, <1>2, <1>3, <1>4, ClientSet DEF Inv
<1>6. ResultInv'  BY <1>1, <1>2, <1>5, ResultKept DEF Inv
<1> QED  BY <1>1, <1>5, <1>6, ClientStepKeeps DEF Inv, PlaceInv

\* The result of a write that client c held.
LEMMA Reported ==
  ASSUME OutputAssumption, ClientInv, ResultInv, UNCHANGED queries, AskedGrows, NEW c \in Clients,
         NEW ok \in BOOLEAN, Report(client[c].held, ok),
         ok => client[c].held.asks \subseteq client'[c].asked
  PROVE  ResultInv'
<1> DEFINE w == client[c].held
<1>1. w \in Good(c, queries)  BY DEF ClientInv, Holdings
<1>2. CASE w.token = NoToken
  <2>1. results' = results  BY <1>2 DEF Report
  <2> QED  BY <2>1, ResultKept
<1>3. CASE w.token # NoToken
  <2>1. results' = results \cup {[token |-> w.token, ok |-> ok]}  BY <1>3 DEF Report
  <2>2. w.token \in Tokens(queries) /\ w.token.client = c /\ w.token.asks \subseteq w.asks
    BY <1>1, <1>3 DEF Good
  <2> SUFFICES ASSUME NEW r \in results'
               PROVE  /\ r \in Results(queries) /\ r.token.client \in Clients
                      /\ (r.ok => r.token.asks \subseteq client'[r.token.client].asked)
    BY DEF ResultInv
  <2>3. CASE r \in results
    BY <2>3 DEF ResultInv, AskedGrows
  <2>4. CASE r = [token |-> w.token, ok |-> ok]
    BY <2>2, <2>4 DEF Results
  <2> QED  BY <2>1, <2>3, <2>4
<1> QED  BY <1>2, <1>3

LEMMA DeliverWriteKeeps ==
  ASSUME OutputAssumption, Inv, NEW c \in Clients, DeliverWrite(c)
  PROVE  StepWell
<1> DEFINE r == client[c]
           q == Returned(r)
           p == [q EXCEPT !.saw = q.saw \cup r.held.shows, !.asked = q.asked \cup r.held.asks]
<1>1. /\ client' = [client EXCEPT ![c] = p] /\ UNCHANGED Elsewhere /\ UNCHANGED budget
      /\ Report(r.held, TRUE)
  <2>1. client' = [client EXCEPT ![c] = p]  BY DEF DeliverWrite
  <2>2. UNCHANGED Elsewhere /\ UNCHANGED budget /\ Report(r.held, TRUE)  BY DEF DeliverWrite, Elsewhere
  <2> QED  BY <2>1, <2>2
<1>2. UNCHANGED <<queries, emitted>>  BY <1>1 DEF Elsewhere, windowVars
<1>3. r \in Holdings(c, queries) /\ r.mark <= emitted  BY DEF Inv, ClientInv
<1>4. /\ q \in Holdings(c, queries) /\ q.mark = r.mark /\ q.asked = r.asked /\ q.flush = r.flush
      /\ q.saw = r.saw
  BY <1>3, ReturnedHolds
<1>5. r.held \in Good(c, queries)  BY <1>3, HoldingParts
<1>6. r.held.shows \subseteq Nat /\ r.held.asks \subseteq queries  BY <1>5 DEF Good
<1> HIDE DEF q, r
<1>7. /\ p.queue = q.queue /\ p.bytes = q.bytes /\ p.held = q.held /\ p.mark = q.mark
      /\ p.flush = q.flush /\ p.asked = q.asked \cup r.held.asks
  BY <1>4 DEF Holdings
<1>8. Exact(p)
  <2>1. Exact(q)  BY <1>4 DEF Holdings
  <2> QED  BY <1>7, <2>1 DEF Exact
<1>9. p \in Holdings(c, queries)
  <2>1. p \in [queue : Seq(Good(c, queries)), bytes : Nat, open : BOOLEAN, held : Good(c, queries),
               gone : BOOLEAN, mark : Nat, flush : BOOLEAN, saw : SUBSET Nat, asked : SUBSET queries]
    BY <1>4, <1>6 DEF Holdings
  <2> QED  BY <1>8, <2>1 DEF Holdings
<1> HIDE DEF p
<1>10. ClientInv' /\ AskedGrows /\ Flushing' = Flushing /\ client'[c] = p
  BY <1>1, <1>2, <1>3, <1>4, <1>7, <1>9, ClientSet DEF Inv, r
<1>11. ResultInv'
  <2>1. r.held.asks \subseteq client'[c].asked  BY <1>7, <1>10
  <2> QED  BY <1>1, <1>2, <1>10, <2>1, Reported DEF Inv, r
<1> QED  BY <1>1, <1>10, <1>11, ClientStepKeeps DEF Inv, PlaceInv

LEMMA CloseClientKeeps ==
  ASSUME OutputAssumption, Inv, NEW c \in Clients, CloseClient(c)
  PROVE  StepWell
<1> DEFINE p == [client[c] EXCEPT !.open = FALSE]
<1>1. client' = [client EXCEPT ![c] = p] /\ UNCHANGED Elsewhere /\ UNCHANGED results /\ Spend("lose")
  BY DEF CloseClient, Elsewhere, Inv, ClientInv
<1>2. UNCHANGED <<queries, emitted>>  BY <1>1 DEF Elsewhere, windowVars
<1>3. client[c] \in Holdings(c, queries) /\ client[c].mark <= emitted  BY DEF Inv, ClientInv
<1>4. p \in Holdings(c, queries) /\ p.mark = client[c].mark /\ p.asked = client[c].asked
      /\ p.flush = client[c].flush
  <2>1. p.held = client[c].held /\ p.queue = client[c].queue /\ p.bytes = client[c].bytes
    BY <1>3 DEF Holdings
  <2>2. Exact(p)  BY <1>3, <2>1 DEF Exact, Holdings
  <2> QED  BY <1>3, <2>2 DEF Holdings
<1> HIDE DEF p
<1>5. ClientInv' /\ AskedGrows /\ Flushing' = Flushing
  BY <1>1, <1>2, <1>3, <1>4, ClientSet DEF Inv
<1>6. ResultInv'  BY <1>1, <1>2, <1>5, ResultKept DEF Inv
<1>7. budget' \in Budgets /\ \A e \in {"attach", "focus", "pause", "switch"} : budget'[e] = budget[e]
  BY <1>1, SpendIs DEF Inv
<1> QED  BY <1>1, <1>5, <1>6, <1>7, ClientStepKeeps

LEMMA FailWriteKeeps ==
  ASSUME OutputAssumption, Inv, NEW c \in Clients, FailWrite(c)
  PROVE  StepWell
<1> DEFINE q == Returned(client[c])
           p == [q EXCEPT !.gone = TRUE]
<1>1. /\ client' = [client EXCEPT ![c] = p] /\ UNCHANGED Elsewhere /\ UNCHANGED budget
      /\ Report(client[c].held, FALSE)
  <2>1. client' = [client EXCEPT ![c] = p] /\ Report(client[c].held, FALSE)  BY DEF FailWrite
  <2>2. UNCHANGED Elsewhere /\ UNCHANGED budget  BY DEF FailWrite, Elsewhere
  <2> QED  BY <2>1, <2>2
<1>2. UNCHANGED <<queries, emitted>>  BY <1>1 DEF Elsewhere, windowVars
<1>3. client[c] \in Holdings(c, queries) /\ client[c].mark <= emitted  BY DEF Inv, ClientInv
<1>4. /\ q \in Holdings(c, queries) /\ q.mark = client[c].mark /\ q.asked = client[c].asked
      /\ q.flush = client[c].flush
  BY <1>3, ReturnedHolds
<1> HIDE DEF q
<1>5. p \in Holdings(c, queries) /\ p.mark = q.mark /\ p.asked = q.asked /\ p.flush = q.flush
  <2>1. p.held = q.held /\ p.queue = q.queue /\ p.bytes = q.bytes
    BY <1>4 DEF Holdings
  <2>2. Exact(p)  BY <1>4, <2>1 DEF Exact, Holdings
  <2> QED  BY <1>4, <2>2 DEF Holdings
<1> HIDE DEF p
<1>6. ClientInv' /\ AskedGrows /\ Flushing' = Flushing
  BY <1>1, <1>2, <1>3, <1>4, <1>5, ClientSet DEF Inv
<1>7. ResultInv'  BY <1>1, <1>2, <1>6, Reported DEF Inv
<1> QED  BY <1>1, <1>6, <1>7, ClientStepKeeps DEF Inv, PlaceInv

LEMMA FailQueuedKeeps ==
  ASSUME OutputAssumption, Inv, NEW c \in Clients, FailQueued(c)
  PROVE  StepWell
<1> DEFINE r == client[c]
           p == [r EXCEPT !.queue = <<>>, !.gone = TRUE, !.bytes = r.bytes - Bytes(r.queue)]
           lost == {[token |-> w.token, ok |-> FALSE] : w \in {v \in ToSet(r.queue) : v.token # NoToken}}
<1>1. /\ client' = [client EXCEPT ![c] = p] /\ UNCHANGED Elsewhere /\ UNCHANGED budget
      /\ results' = results \cup lost
  <2>1. client' = [client EXCEPT ![c] = p] /\ results' = results \cup lost  BY DEF FailQueued
  <2>2. UNCHANGED Elsewhere /\ UNCHANGED budget  BY DEF FailQueued, Elsewhere
  <2> QED  BY <2>1, <2>2
<1>2. UNCHANGED <<queries, emitted>>  BY <1>1 DEF Elsewhere, windowVars
<1>3. r \in Holdings(c, queries) /\ r.mark <= emitted  BY DEF Inv, ClientInv
<1>4. /\ r.queue \in Seq(Good(c, queries)) /\ r.held \in Good(c, queries)
      /\ r.bytes = r.held.size + Bytes(r.queue) /\ r.bytes <= QueueLimit /\ r.bytes \in Nat
      /\ r.held.size \in Nat /\ Bytes(r.queue) \in Nat
  BY <1>3, HoldingParts
<1>5. r.bytes - Bytes(r.queue) = r.held.size /\ r.held.size <= QueueLimit
  BY <1>4, NoWriteGood
<1> HIDE DEF r, lost
<1>6. p \in Holdings(c, queries) /\ p.mark = r.mark /\ p.asked = r.asked /\ p.flush = r.flush
  <2>1. p.held = r.held /\ p.queue = <<>> /\ p.bytes = r.held.size
    BY <1>3, <1>5 DEF Holdings
  <2> HIDE DEF p
  <2>2. Exact(p)  BY <1>4, <1>5, <2>1, BytesOfNone DEF Exact
  <2>3. p \in [queue : Seq(Good(c, queries)), bytes : Nat, open : BOOLEAN, held : Good(c, queries),
               gone : BOOLEAN, mark : Nat, flush : BOOLEAN, saw : SUBSET Nat, asked : SUBSET queries]
    <3>1. <<>> \in Seq(Good(c, queries)) /\ r.held.size \in Nat  BY <1>4
    <3>2. p = [r EXCEPT !.queue = <<>>, !.gone = TRUE, !.bytes = r.held.size]  BY <1>5 DEF p
    <3> QED  BY <1>3, <3>1, <3>2 DEF Holdings
  <2> QED  BY <1>3, <2>2, <2>3 DEF Holdings, p
<1> HIDE DEF p
<1>7. ClientInv' /\ AskedGrows /\ Flushing' = Flushing
  BY <1>1, <1>2, <1>3, <1>6, ClientSet DEF Inv, r
<1>8. ResultInv'
  <2> SUFFICES ASSUME NEW x \in results'
               PROVE  /\ x \in Results(queries) /\ x.token.client \in Clients
                      /\ (x.ok => x.token.asks \subseteq client'[x.token.client].asked)
    BY <1>2 DEF ResultInv
  <2>1. CASE x \in results
    BY <1>7, <2>1 DEF Inv, ResultInv, AskedGrows
  <2>2. CASE x \in lost
    <3>1. PICK w \in ToSet(r.queue) : w.token # NoToken /\ x = [token |-> w.token, ok |-> FALSE]
      BY <2>2 DEF lost
    <3>2. w \in Good(c, queries)  BY <1>4, <3>1 DEF ToSet
    <3> QED  BY <3>1, <3>2 DEF Good, Results
  <2> QED  BY <1>1, <2>1, <2>2
<1> QED  BY <1>1, <1>7, <1>8, ClientStepKeeps DEF Inv, PlaceInv

(***************************************************************************)
(* Queries that wait for a client                                          *)
(***************************************************************************)
\* What is asked again of client c, and the watch of it.
AgainWell(c, Q, asks) ==
  /\ Again(asks, c) \in Good(c, Q) /\ Again(asks, c).size = Data({}, asks).size
  /\ Again(asks, c).token = [who |-> Resender, asks |-> asks, client |-> c]
  /\ Again(asks, c).asks = asks /\ Again(asks, c).gate = NoGate

LEMMA AgainGood ==
  ASSUME OutputAssumption, NEW c \in Clients, NEW Q, NEW asks \in SUBSET Q
  PROVE  AgainWell(c, Q, asks)
<1> DEFINE v == Data({}, asks)
           k == [who |-> Resender, asks |-> asks, client |-> c]
           w == Again(asks, c)
<1>1. v \in Good(c, Q) /\ v.asks = asks /\ v.gate = NoGate
  <2>1. \A shows \in SUBSET Nat : DataWell(c, Q, shows, asks)  BY DataGood
  <2>2. DataWell(c, Q, {}, asks)  BY <2>1
  <2> QED  BY <2>2 DEF DataWell
<1>2. w = [v EXCEPT !.token = k]  BY DEF Again
<1>3. Resender \in Nat  BY NoWriteGood DEF Resender
<1>4. k \in Tokens(Q)  BY <1>3 DEF Tokens
<1>5. k.client = c /\ k.asks = asks  OBVIOUS
<1> HIDE DEF v, k
<1>6. w \in Good(c, Q) /\ w.size = v.size /\ w.token = k /\ w.asks = asks /\ w.gate = NoGate
  BY <1>1, <1>2, <1>4, <1>5 DEF Good
<1> QED  BY <1>6 DEF v, k, AgainWell

LEMMA WatchingIs ==
  ASSUME OutputAssumption, NEW c \in Clients, NEW Q, NEW asks \in SUBSET Q, NEW flight \in BOOLEAN
  PROVE  /\ Watching(asks, flight, c) \in Watchings(Q)
         /\ Watching(asks, flight, c)
              = [token |-> [who |-> Resender, asks |-> asks, client |-> c], flight |-> flight]
<1> DEFINE k == [who |-> Resender, asks |-> asks, client |-> c]
<1>1. Again(asks, c).token = k /\ Again(asks, c) \in Good(c, Q)  BY AgainGood DEF AgainWell
<1>2. k \in Tokens(Q)  BY <1>1 DEF Good
<1> QED  BY <1>1, <1>2 DEF Watching, Watchings

LEMMA TakerBySize ==
  ASSUME NEW cs, NEW f, NEW v, NEW w, v.size = w.size
  PROVE  Taker(cs, f, v) = Taker(cs, f, w)
<1>1. Takers(cs, f, v) = Takers(cs, f, w)  BY DEF Takers, Fits
<1> QED  BY <1>1 DEF Taker

\* A watch is set, or what it would have watched is put back.
WatchSet(asks, flight, others, c) ==
  /\ watches' = others \cup {Watching(asks, flight, c)} /\ UNCHANGED <<pending, inFlight, missed>>
WatchNot(asks, flight, others) == watches' = others /\ PutBack(asks, flight)

LEMMA RedeliveredIs ==
  ASSUME OutputAssumption, ClientInv, NEW asks \in SUBSET queries, NEW flight \in BOOLEAN, NEW others,
         focus \in Seq(Clients), UNCHANGED <<queries, emitted>>, Redeliver(asks, flight, others)
  PROVE  /\ ClientInv' /\ AskedGrows /\ Flushing' = Flushing
         /\ \/ \E c \in Clients : WatchSet(asks, flight, others, c)
            \/ WatchNot(asks, flight, others)
<1> DEFINE v == Data({}, asks)
           t == Taker(client, focus, v)
           i == IF shown THEN t ELSE 0
<1>1. v.size \in Nat
  <2>1. CASE Clients # {}
    <3>1. PICK c \in Clients : TRUE  BY <2>1
    <3>2. v \in Good(c, queries)  BY DataGood DEF DataWell
    <3> QED  BY <3>2 DEF Good
  <2>2. CASE Clients = {}
    <3>1. Cardinality({s \in {"shows"} : FALSE}) \in Nat /\ Cardinality({a \in {"asks"} : asks # {}}) \in Nat
      <4>1. IsFiniteSet({"shows"}) /\ IsFiniteSet({"asks"})  BY FS_Singleton
      <4>2. IsFiniteSet({s \in {"shows"} : FALSE}) /\ IsFiniteSet({a \in {"asks"} : asks # {}})
        BY <4>1, FS_Subset
      <4> QED  BY <4>2, FS_CardinalityType
    <3> QED  BY <3>1 DEF Data, NoWrite
  <2> QED  BY <2>1, <2>2
<1>2. t \in 0 .. Len(focus) /\ (t # 0 => t \in 1 .. Len(focus) /\ focus[t] \in Clients) /\ Len(focus) \in Nat
  <2>1. TakenAt(t, client, focus, v)  BY TakerIs
  <2> QED  BY <2>1 DEF TakenAt
<1>3. \A c \in Clients : client[c] \in Holdings(c, queries)  BY DEF ClientInv
<1>4. CASE i > 0
  <2> DEFINE w == Again(asks, focus[i])
  <2>1. shown /\ i = t /\ t # 0  BY <1>4, <1>2
  <2>2. focus[i] \in Clients  BY <1>2, <2>1
  <2>3. w \in Good(focus[i], queries) /\ w.size = v.size
    <3>1. AgainWell(focus[i], queries, asks)  BY <2>2, AgainGood
    <3> QED  BY <3>1 DEF AgainWell
  <2>4. Taker(client, focus, w) = t  BY <2>3, TakerBySize
  <2>5. client' = Offered(client, focus, w) /\ WatchSet(asks, flight, others, focus[i])
    BY <1>4 DEF Redeliver, WatchSet
  <2> HIDE DEF w, v, t, i
  <2>6. OfferedWell(client, focus, w, queries, client')
    BY <1>1, <1>3, <2>1, <2>3, <2>4, <2>5, OfferedHolds
  <2> QED  BY <2>2, <2>5, <2>6, ClientsSet DEF OfferedWell
<1>5. CASE ~(i > 0)
  <2>1. client' = (IF shown THEN Offered(client, focus, v) ELSE client) /\ WatchNot(asks, flight, others)
    BY <1>5 DEF Redeliver, WatchNot
  <2>2. CASE shown
    <3>1. t = 0  BY <1>2, <1>5, <2>2
    <3> HIDE DEF v, t, i
    <3>2. OfferedWell(client, focus, v, queries, client')
      BY <1>1, <1>3, <2>1, <2>2, <3>1, OfferedHolds DEF t
    <3> QED  BY <2>1, <3>2, ClientsSet DEF OfferedWell
  <2>3. CASE ~shown
    <3>1. client' = client  BY <2>1, <2>3
    <3> QED  BY <2>1, <3>1, ClientKept
  <2> QED  BY <2>2, <2>3
<1> QED  BY <1>4, <1>5

LEMMA RewatchKeeps ==
  ASSUME OutputAssumption, QueryInv, NEW asks \in SUBSET queries, NEW flight \in BOOLEAN,
         NEW others \in SUBSET watches, UNCHANGED queries,
         flight => inFlight = asks /\ asks # {} /\ \A w \in others : ~w.flight,
         \/ \E c \in Clients : WatchSet(asks, flight, others, c)
         \/ WatchNot(asks, flight, others)
  PROVE  /\ QueryInv' /\ pending \subseteq pending' /\ Resent(others) \subseteq Resent(watches')
         /\ missed \subseteq missed' /\ asks \subseteq pending' \cup Resent(watches') \cup missed'
         /\ inFlight' = inFlight \/ inFlight \subseteq asks
<1>1. ASSUME NEW c \in Clients, WatchSet(asks, flight, others, c)
      PROVE  /\ QueryInv' /\ asks \subseteq Resent(watches') /\ UNCHANGED <<pending, inFlight, missed>>
             /\ Resent(others) \subseteq Resent(watches')
  <2> DEFINE w == Watching(asks, flight, c)
  <2>1. watches' = others \cup {w} /\ UNCHANGED <<pending, inFlight, missed>>  BY <1>1 DEF WatchSet
  <2>2. w \in Watchings(queries) /\ w.token.client = c /\ w.token.asks = asks /\ w.flight = flight
    <3>1. w = [token |-> [who |-> Resender, asks |-> asks, client |-> c], flight |-> flight]
      BY WatchingIs
    <3> HIDE DEF w
    <3>2. w.token = [who |-> Resender, asks |-> asks, client |-> c] /\ w.flight = flight  BY <3>1
    <3> QED  BY <3>2, WatchingIs DEF w
  <2> HIDE DEF w
  <2>3. QueryInv'  BY <2>1, <2>2 DEF QueryInv
  <2> QED  BY <2>1, <2>2, <2>3 DEF Resent
<1>2. CASE WatchNot(asks, flight, others)
  <2>1. /\ watches' = others /\ pending' \in {pending, pending \cup asks}
        /\ missed \subseteq missed' /\ asks \subseteq pending' \cup missed'
        /\ inFlight' = IF flight THEN {} ELSE inFlight
    BY <1>2 DEF WatchNot, PutBack, Store, Stored
  <2>2. QueryInv'  BY <2>1 DEF QueryInv
  <2> QED  BY <2>1, <2>2
<1> QED  BY <1>1, <1>2

(***************************************************************************)
(* The goroutines that watch a query, and the end of a job                 *)
(***************************************************************************)
\* The books change, and nobody comes, goes or waits for anything else.
LEMMA OthersKept ==
  ASSUME Inv, UNCHANGED <<attachVars, windowVars, pauseVars, budget>>, Flushing' = Flushing
  PROVE  /\ PlaceInv' /\ BudgetInv'
         /\ UNCHANGED <<queries, emitted, reading, timers, pauses, answered, buffer>>
<1>1. UNCHANGED <<focus, awaited, arrived, redraws, shown, emitted, queries, reading, answered,
                  paused, buffer, pauses, timers, budget>>
  BY DEF attachVars, windowVars, pauseVars
<1>2. PlaceInv'  BY <1>1, PlaceKept DEF Inv
<1>3. BudgetInv'  BY <1>1, BudgetKept DEF Inv
<1> QED  BY <1>1, <1>2, <1>3

LEMMA QuerySentKeeps ==
  ASSUME OutputAssumption, Inv, NEW w \in watches, QuerySent(w)
  PROVE  StepWell
<1>1. /\ UNCHANGED <<attachVars, windowVars, pauseVars, budget>> /\ UNCHANGED <<client, job, pending, missed>>
      /\ results' \subseteq results /\ watches' = watches \ {w}
      /\ inFlight' = (IF w.flight THEN {} ELSE inFlight) /\ [token |-> w.token, ok |-> TRUE] \in results
  BY DEF QuerySent
<1>2. UNCHANGED <<queries, emitted, reading, timers, pauses>>
  BY <1>1 DEF windowVars, pauseVars
<1>3. ClientInv' /\ AskedGrows /\ Flushing' = Flushing  BY <1>1, <1>2, ClientKept DEF Inv
<1>4. PlaceInv' /\ BudgetInv'  BY <1>1, <1>3, OthersKept
<1>5. ResultInv' /\ JobInv' /\ ReadInv' /\ TimerInv'
  BY <1>1, <1>2, <1>3, ResultKept, JobKept, ReadKept, TimerKept DEF Inv
<1>6. QueryInv'  BY <1>1, <1>2 DEF Inv, QueryInv
<1>7. w.token.asks \subseteq AllAsked'
  <2> DEFINE r == [token |-> w.token, ok |-> TRUE]
  <2>1. r \in results /\ r.ok /\ r.token = w.token  BY <1>1
  <2> HIDE DEF r
  <2>2. r.token.client \in Clients /\ r.token.asks \subseteq client[r.token.client].asked
    BY <2>1 DEF Inv, ResultInv
  <2> QED  BY <1>1, <2>1, <2>2 DEF AllAsked
<1>8. Resent(watches) \subseteq w.token.asks \cup Resent(watches')  BY <1>1 DEF Resent
<1>9. inFlight \subseteq w.token.asks \cup inFlight'  BY <1>1 DEF Inv, QueryInv
<1>10. UNCHANGED <<answered, buffer, reading>>  BY <1>1 DEF windowVars, pauseVars
<1>11. Found \subseteq Found'  BY <1>1, <1>3, <1>7, <1>8, <1>9, <1>10, InFound, FoundKept
<1> QED  BY <1>2, <1>3, <1>4, <1>5, <1>6, <1>11 DEF Inv, StepWell

LEMMA QueryFailedKeeps ==
  ASSUME OutputAssumption, Inv, NEW w \in watches, QueryFailed(w)
  PROVE  StepWell
<1> DEFINE others == watches \ {w}
           asks   == w.token.asks
<1>1. /\ UNCHANGED <<attachVars, windowVars, pauseVars, budget>> /\ UNCHANGED job
      /\ results' \subseteq results /\ Redeliver(asks, w.flight, others)
  BY DEF QueryFailed
<1>2. UNCHANGED <<queries, emitted, reading, timers, pauses>>
  BY <1>1 DEF windowVars, pauseVars
<1>3. w \in Watchings(queries) /\ asks \in SUBSET queries /\ w.flight \in BOOLEAN
  BY DEF Inv, QueryInv, Watchings, Tokens
<1>4. others \in SUBSET watches
      /\ (w.flight => inFlight = asks /\ asks # {} /\ \A v \in others : ~v.flight)
  BY DEF Inv, QueryInv
<1> HIDE DEF others, asks
<1>5. focus \in Seq(Clients)  BY DEF Inv, PlaceInv
<1>6. /\ ClientInv' /\ AskedGrows /\ Flushing' = Flushing
      /\ \/ \E c \in Clients : WatchSet(asks, w.flight, others, c)
         \/ WatchNot(asks, w.flight, others)
  BY <1>1, <1>2, <1>3, <1>5, RedeliveredIs DEF Inv
<1>7. /\ QueryInv' /\ pending \subseteq pending' /\ Resent(others) \subseteq Resent(watches')
      /\ missed \subseteq missed' /\ asks \subseteq pending' \cup Resent(watches') \cup missed'
      /\ inFlight' = inFlight \/ inFlight \subseteq asks
  BY <1>2, <1>3, <1>4, <1>6, RewatchKeeps DEF Inv
<1>8. PlaceInv' /\ BudgetInv'  BY <1>1, <1>6, OthersKept
<1>9. ResultInv' /\ JobInv' /\ ReadInv' /\ TimerInv'
  BY <1>1, <1>2, <1>6, ResultKept, JobKept, ReadKept, TimerKept DEF Inv
<1>10. Resent(watches) \subseteq asks \cup Resent(others)  BY DEF Resent, asks, others
<1>11. UNCHANGED <<answered, buffer, reading>>  BY <1>1 DEF windowVars, pauseVars
<1>12. Found \subseteq Found'  BY <1>1, <1>6, <1>7, <1>10, <1>11, InFound, FoundKept
<1> QED  BY <1>2, <1>6, <1>7, <1>8, <1>9, <1>12 DEF Inv, StepWell

LEMMA NoJobIs ==
  ASSUME NEW Q
  PROVE  NoJob \in Jobs(Q) /\ NoJob.asks = {} /\ NoJob.delivered /\ NoJob.gated = {}
<1>1. <<>> \in Seq(Clients)  OBVIOUS
<1> QED  BY <1>1 DEF NoJob, Jobs, Somebody

\* A thread's job is done.
LEMMA JobDone ==
  ASSUME JobInv, ReadInv, TimerInv, UNCHANGED <<queries, reading, timers, pauses>>, AskedGrows,
         NEW t \in Writers, job' = [job EXCEPT ![t] = NoJob]
  PROVE  JobInv' /\ ReadInv' /\ TimerInv'
<1>1. NoJob \in Jobs(queries) /\ NoJob.asks = {}  BY NoJobIs
<1>2. JobInv'  BY <1>1, JobSet
<1>3. \A u \in Writers : job'[u] = IF u = t THEN NoJob ELSE job[u]  BY DEF JobInv
<1>4. Reader \in Writers  BY DEF Writers
<1>5. ReadInv'  BY <1>3, <1>4 DEF ReadInv
<1>6. TimerInv'  BY <1>3 DEF TimerInv
<1> QED  BY <1>2, <1>5, <1>6

LEMMA EndJobKeeps ==
  ASSUME OutputAssumption, Inv, NEW t \in Writers, EndJob(t)
  PROVE  StepWell
<1> DEFINE asks == job[t].asks
<1>1. /\ UNCHANGED <<attachVars, windowVars, pauseVars, budget>> /\ UNCHANGED results
      /\ job' = [job EXCEPT ![t] = NoJob]
      /\ (job[t].delivered => UNCHANGED <<client, queryVars>>)
      /\ (~job[t].delivered => Redeliver(asks, FALSE, watches))
  BY DEF EndJob
<1>2. UNCHANGED <<queries, emitted, reading, timers, pauses>>
  BY <1>1 DEF windowVars, pauseVars
<1>3. asks \in SUBSET queries /\ job[t].delivered \in BOOLEAN
  BY DEF Inv, JobInv, Jobs
<1> HIDE DEF asks
<1>4. focus \in Seq(Clients)  BY DEF Inv, PlaceInv
<1>5. /\ ClientInv' /\ AskedGrows /\ Flushing' = Flushing /\ QueryInv'
      /\ pending \subseteq pending' /\ Resent(watches) \subseteq Resent(watches')
      /\ missed \subseteq missed'
      /\ (job[t].delivered \/ asks \subseteq pending' \cup Resent(watches') \cup missed')
      /\ (inFlight' = inFlight \/ (inFlight \subseteq asks /\ ~job[t].delivered))
  <2>1. CASE job[t].delivered
    <3>1. UNCHANGED <<pending, inFlight, watches, missed>>  BY <1>1, <2>1 DEF queryVars
    <3> QED  BY <1>1, <1>2, <2>1, <3>1, ClientKept, QueryKept DEF Inv
  <2>2. CASE ~job[t].delivered
    <3>1. Redeliver(asks, FALSE, watches)  BY <1>1, <2>2
    <3>2. /\ ClientInv' /\ AskedGrows /\ Flushing' = Flushing
          /\ \/ \E c \in Clients : WatchSet(asks, FALSE, watches, c)
             \/ WatchNot(asks, FALSE, watches)
      BY <1>2, <1>3, <1>4, <3>1, RedeliveredIs DEF Inv
    <3>3. /\ QueryInv' /\ pending \subseteq pending' /\ Resent(watches) \subseteq Resent(watches')
          /\ missed \subseteq missed' /\ asks \subseteq pending' \cup Resent(watches') \cup missed'
          /\ inFlight' = inFlight \/ inFlight \subseteq asks
      BY <1>2, <1>3, <3>2, RewatchKeeps DEF Inv
    <3> QED  BY <2>2, <3>2, <3>3
  <2> QED  BY <2>1, <2>2
<1>6. PlaceInv' /\ BudgetInv'  BY <1>1, <1>5, OthersKept
<1>7. ResultInv'  BY <1>1, <1>2, <1>5, ResultKept DEF Inv
<1>8. JobInv' /\ ReadInv' /\ TimerInv'  BY <1>1, <1>2, <1>5, JobDone DEF Inv
<1>9. asks \subseteq Found'
  <2>1. job[t].delivered => asks \subseteq AllAsked  BY DEF Inv, JobInv, asks
  <2>2. AllAsked \subseteq AllAsked'  BY <1>5, MoreAsked
  <2> QED  BY <1>5, <2>1, <2>2, InFound
<1>10. \A u \in Writers : job[u].asks \subseteq Found'
  <2>1. \A u \in Writers \ {t} : job'[u] = job[u]  BY <1>1 DEF Inv, JobInv
  <2> QED  BY <1>9, <2>1, InFound DEF asks
<1>11. UNCHANGED <<answered, buffer, reading>>  BY <1>1 DEF windowVars, pauseVars
<1>12. Found \subseteq Found'  BY <1>5, <1>9, <1>10, <1>11, InFound, FoundKept
<1> QED  BY <1>2, <1>5, <1>6, <1>7, <1>8, <1>12 DEF Inv, StepWell

(***************************************************************************)
(* A query that is to be asked of one client, or of another                *)
(***************************************************************************)
LEMMA JobStepKeeps ==
  ASSUME Inv, UNCHANGED <<client, attachVars, windowVars, queryVars, pauseVars, budget>>,
         results' \subseteq results, NEW t \in Writers, job[t] # NoJob, NEW j \in Jobs(queries),
         job' = [job EXCEPT ![t] = j], j.asks = job[t].asks, j.delivered => j.asks \subseteq AllAsked
  PROVE  StepWell
<1>1. UNCHANGED <<queries, emitted, reading, timers, pauses, pending, inFlight, watches>>
  BY DEF windowVars, pauseVars, queryVars
<1>2. ClientInv' /\ AskedGrows /\ Flushing' = Flushing  BY <1>1, ClientKept DEF Inv
<1>3. PlaceInv' /\ BudgetInv'  BY <1>2, OthersKept
<1>4. ResultInv' /\ QueryInv'  BY <1>1, <1>2, ResultKept, QueryKept DEF Inv
<1>5. AllAsked \subseteq AllAsked'  BY <1>2, MoreAsked
<1>6. JobInv'
  <2>1. j.delivered => j.asks \subseteq AllAsked'  BY <1>5
  <2> QED  BY <1>1, <1>2, <2>1, JobSet DEF Inv
<1>7. \A u \in Writers : job'[u] = IF u = t THEN j ELSE job[u]  BY DEF Inv, JobInv
<1>8. Reader \in Writers  BY DEF Writers
<1>9. ReadInv'  BY <1>1, <1>7, <1>8 DEF Inv, ReadInv
<1>10. TimerInv'  BY <1>1, <1>7 DEF Inv, TimerInv
<1>11. \A u \in Writers : job[u].asks = job'[u].asks  BY <1>7
<1>12. UNCHANGED <<missed, answered, buffer>>  BY DEF windowVars, pauseVars, queryVars
<1>13. Found \subseteq Found'  BY <1>1, <1>2, <1>11, <1>12, InFound, FoundKept
<1> QED  BY <1>1, <1>2, <1>3, <1>4, <1>6, <1>9, <1>10, <1>13 DEF Inv, StepWell

\* What a job is told of its write is true.
LEMMA ResultTrue ==
  ASSUME Inv, NEW t \in Writers, NEW ok \in BOOLEAN, ResultOf(t, ok) \in results
  PROVE  ok => job[t].asks \subseteq AllAsked
<1> DEFINE r == ResultOf(t, ok)
<1>1. r.ok = ok /\ r.token.client = job[t].wait /\ r.token.asks = job[t].asks  BY DEF ResultOf
<1>2. r.token.client \in Clients /\ (r.ok => r.token.asks \subseteq client[r.token.client].asked)
  BY DEF Inv, ResultInv
<1> QED  BY <1>1, <1>2 DEF AllAsked

LEMMA JobParts ==
  ASSUME Inv, NEW t \in Writers
  PROVE  /\ job[t] \in Jobs(queries) /\ job[t].asks \subseteq queries
         /\ job[t].wait \in Somebody /\ job[t].rest \in Seq(Clients)
         /\ job[t].gated \subseteq Clients /\ job[t].delivered \in BOOLEAN
         /\ (job[t].delivered => job[t].asks \subseteq AllAsked)
         /\ (job[t].rest # <<>> => Head(job[t].rest) \in Clients /\ Tail(job[t].rest) \in Seq(Clients))
BY DEF Inv, JobInv, Jobs

LEMMA AwaitPrimaryKeeps ==
  ASSUME Inv, NEW t \in Writers, AwaitPrimary(t)
  PROVE  StepWell
<1>1. PICK ok \in BOOLEAN :
        /\ ResultOf(t, ok) \in results /\ results' = results \ {ResultOf(t, ok)}
        /\ job' = [job EXCEPT ![t].wait = NoClient, ![t].delivered = ok]
  BY DEF AwaitPrimary
<1> DEFINE j == [job[t] EXCEPT !.wait = NoClient, !.delivered = ok]
<1>2. job' = [job EXCEPT ![t] = j]  BY <1>1 DEF Inv, JobInv
<1>3. job[t] # NoJob /\ UNCHANGED <<client, attachVars, windowVars, queryVars, pauseVars, budget>>
  BY DEF AwaitPrimary, Waiting
<1>4. job[t] \in Jobs(queries)  BY JobParts
<1>5. j \in Jobs(queries) /\ j.delivered = ok /\ j.asks = job[t].asks
  BY <1>4 DEF Jobs, Somebody
<1>6. ok => job[t].asks \subseteq AllAsked  BY <1>1, ResultTrue
<1> HIDE DEF j
<1>7. results' \subseteq results  BY <1>1
<1> QED  BY <1>2, <1>3, <1>5, <1>6, <1>7, JobStepKeeps

LEMMA PassFallbackKeeps ==
  ASSUME Inv, NEW t \in Writers, PassFallback(t)
  PROVE  StepWell
<1> DEFINE j == [job[t] EXCEPT !.rest = Tail(job[t].rest)]
<1>1. /\ job' = [job EXCEPT ![t] = j] /\ job[t].rest # <<>> /\ results' = results
      /\ UNCHANGED <<client, attachVars, windowVars, queryVars, pauseVars, budget>>
  BY DEF PassFallback, Inv, JobInv
<1>2. job[t] # NoJob  BY <1>1 DEF NoJob
<1>3. job[t] \in Jobs(queries) /\ Tail(job[t].rest) \in Seq(Clients)
      /\ (job[t].delivered => job[t].asks \subseteq AllAsked)
  BY <1>1, JobParts
<1>4. j \in Jobs(queries) /\ (j.delivered <=> job[t].delivered) /\ j.asks = job[t].asks
  BY <1>3 DEF Jobs
<1> HIDE DEF j
<1> QED  BY <1>1, <1>2, <1>3, <1>4, JobStepKeeps

LEMMA TryFallbackKeeps ==
  ASSUME Inv, NEW t \in Writers, TryFallback(t)
  PROVE  StepWell
<1> DEFINE j == [job[t] EXCEPT !.wait = Head(job[t].rest)]
<1>1. /\ job' = [job EXCEPT ![t] = j] /\ job[t].rest # <<>> /\ results' = results
      /\ UNCHANGED <<client, attachVars, windowVars, queryVars, pauseVars, budget>>
  BY DEF TryFallback, Inv, JobInv
<1>2. job[t] # NoJob  BY <1>1 DEF NoJob
<1>3. job[t] \in Jobs(queries) /\ Head(job[t].rest) \in Clients
      /\ (job[t].delivered => job[t].asks \subseteq AllAsked)
  BY <1>1, JobParts
<1>4. j \in Jobs(queries) /\ (j.delivered <=> job[t].delivered) /\ j.asks = job[t].asks
  BY <1>3 DEF Jobs, Somebody
<1> HIDE DEF j
<1> QED  BY <1>1, <1>2, <1>3, <1>4, JobStepKeeps

LEMMA AwaitFallbackKeeps ==
  ASSUME Inv, NEW t \in Writers, AwaitFallback(t)
  PROVE  StepWell
<1>1. PICK ok \in BOOLEAN :
        /\ ResultOf(t, ok) \in results /\ results' = results \ {ResultOf(t, ok)}
        /\ job' = [job EXCEPT ![t].wait = NoClient, ![t].rest = Tail(@), ![t].delivered = ok]
  BY DEF AwaitFallback
<1> DEFINE j == [job[t] EXCEPT !.wait = NoClient, !.rest = Tail(job[t].rest), !.delivered = ok]
<1>2. job' = [job EXCEPT ![t] = j]  BY <1>1 DEF Inv, JobInv
<1>3. job[t] # NoJob /\ job[t].rest # <<>>
      /\ UNCHANGED <<client, attachVars, windowVars, queryVars, pauseVars, budget>>
  BY DEF AwaitFallback, Waiting
<1>4. job[t] \in Jobs(queries) /\ Tail(job[t].rest) \in Seq(Clients)  BY <1>3, JobParts
<1>5. j \in Jobs(queries) /\ j.delivered = ok /\ j.asks = job[t].asks
  BY <1>4 DEF Jobs, Somebody
<1>6. ok => job[t].asks \subseteq AllAsked  BY <1>1, ResultTrue
<1> HIDE DEF j
<1>7. results' \subseteq results  BY <1>1
<1> QED  BY <1>2, <1>3, <1>5, <1>6, <1>7, JobStepKeeps

(***************************************************************************)
(* The writes of a query                                                   *)
(***************************************************************************)
LEMMA AskedGood ==
  ASSUME OutputAssumption, NEW c \in Clients, NEW Q, NEW t \in Writers,
         NEW shows \in SUBSET Nat, NEW asks \in SUBSET Q
  PROVE  /\ Asked(t, c, shows, asks) \in Good(c, Q) /\ AskGated(t, c, shows, asks) \in Good(c, Q)
         /\ RestGated(t, c, shows, asks) \in Good(c, Q)
<1> DEFINE v == Data(shows, asks)
           u == Data(shows, {})
           k == [who |-> t, asks |-> asks, client |-> c]
<1>1. v \in Good(c, Q) /\ v.asks = asks
  <2>1. DataWell(c, Q, shows, asks)  BY DataGood
  <2> QED  BY <2>1 DEF DataWell
<1>2. u \in Good(c, Q) /\ u.token = NoToken
  <2>1. \A x \in SUBSET Q : DataWell(c, Q, shows, x)  BY DataGood
  <2>2. DataWell(c, Q, shows, {})  BY <2>1
  <2> QED  BY <2>2 DEF DataWell
<1>3. t \in Nat  BY NoWriteGood DEF Writers, Reader
<1>4. k \in Tokens(Q)  BY <1>3 DEF Tokens
<1>5. GateOf(t, c, asks, "ask") \in Gates(Q) /\ GateOf(t, c, asks, "rest") \in Gates(Q)
  BY <1>4 DEF GateOf, Gates
<1> DEFINE a == [v EXCEPT !.token = k]
<1>6. a \in Good(c, Q) /\ a.asks = asks /\ a.token = k
  <2>1. k.client = c /\ k.asks = asks  OBVIOUS
  <2> HIDE DEF k, v
  <2> QED  BY <1>1, <1>4, <2>1 DEF Good
<1>7. Asked(t, c, shows, asks) = a  BY DEF Asked
<1>8. AskGated(t, c, shows, asks) = [a EXCEPT !.gate = GateOf(t, c, asks, "ask")]
  BY <1>7 DEF AskGated
<1>9. RestGated(t, c, shows, asks) = [u EXCEPT !.gate = GateOf(t, c, asks, "rest")]
  BY DEF RestGated
<1> HIDE DEF a, u
<1>10. AskGated(t, c, shows, asks) \in Good(c, Q)
  BY <1>5, <1>6, <1>8 DEF Good
<1>11. RestGated(t, c, shows, asks) \in Good(c, Q)
  BY <1>2, <1>5, <1>9 DEF Good
<1> QED  BY <1>6, <1>7, <1>10, <1>11

LEMMA PutGrows ==
  ASSUME OutputAssumption, NEW c \in Clients, NEW Q, NEW r \in Holdings(c, Q), NEW w \in Good(c, Q)
  PROVE  Put(r, w) \in Holdings(c, Q) /\ Grown(r, Put(r, w))
<1>1. w.size \in Nat  BY DEF Good
<1>2. PutWell(c, Q, r, w)  BY <1>1, PutHolds
<1> QED  BY <1>2 DEF PutWell

\* The writes are queued, and the job knows of them.
LaunchWell(t, asks) ==
  /\ ClientInv' /\ AskedGrows /\ Flushing' = Flushing
  /\ \E j \in Jobs(queries) : job' = [job EXCEPT ![t] = j] /\ ~j.delivered /\ j.asks = asks

LEMMA Launched ==
  ASSUME OutputAssumption, ClientInv, UNCHANGED <<queries, emitted>>, NEW t \in Writers,
         NEW first \in Somebody, NEW others \in Seq(Clients), NEW shows \in [Clients -> SUBSET Nat],
         NEW asks \in SUBSET queries, Launch(t, first, others, shows, asks)
  PROVE  LaunchWell(t, asks)
<1> DEFINE takes(c) == Fits(client[c], AskGated(t, c, shows[c], asks))
           asked(c) == Put(client[c], AskGated(t, c, shows[c], asks))
           rest(c)  == takes(c) /\ Fits(asked(c), RestGated(t, c, shows[c], asks)) /\ shows[c] # {}
           j == [asks |-> asks, delivered |-> FALSE,
                 wait |-> IF first # NoClient /\ Fits(client[first], Asked(t, first, shows[first], asks))
                            THEN first ELSE NoClient,
                 rest |-> Kept(others, {c \in Clients : takes(c)}),
                 gated |-> {c \in ToSet(others) : rest(c)}]
<1>1. client' = [c \in Clients |->
        IF c = first THEN Put(client[c], Asked(t, c, shows[c], asks))
        ELSE IF c \notin ToSet(others) THEN client[c]
        ELSE IF takes(c) THEN Put(asked(c), RestGated(t, c, shows[c], asks))
        ELSE asked(c)]
  BY DEF Launch
<1>2. job' = [job EXCEPT ![t] = j]  BY DEF Launch
<1>3. ASSUME NEW c \in Clients
      PROVE  client'[c] \in Holdings(c, queries) /\ Grown(client[c], client'[c])
  <2>1. shows[c] \in SUBSET Nat /\ client[c] \in Holdings(c, queries)  BY DEF ClientInv
  <2>2. /\ Asked(t, c, shows[c], asks) \in Good(c, queries)
        /\ AskGated(t, c, shows[c], asks) \in Good(c, queries)
        /\ RestGated(t, c, shows[c], asks) \in Good(c, queries)
    BY <2>1, AskedGood
  <2> DEFINE p == asked(c)
             q == Put(p, RestGated(t, c, shows[c], asks))
             f == Put(client[c], Asked(t, c, shows[c], asks))
  <2>3. f \in Holdings(c, queries) /\ Grown(client[c], f)  BY <2>1, <2>2, PutGrows
  <2>4. p \in Holdings(c, queries) /\ Grown(client[c], p)  BY <2>1, <2>2, PutGrows
  <2>5. client'[c] \in {f, client[c], q, p}  BY <1>1
  <2> HIDE DEF p, f
  <2>6. q \in Holdings(c, queries) /\ Grown(p, q)  BY <2>2, <2>4, PutGrows
  <2> HIDE DEF q
  <2>7. Grown(client[c], q)  BY <2>4, <2>6 DEF Grown
  <2>8. Grown(client[c], client[c])  BY DEF Grown
  <2> QED  BY <2>1, <2>3, <2>4, <2>5, <2>6, <2>7, <2>8
<1>4. client' = [c \in Clients |-> client'[c]]  BY <1>1
<1>5. ClientInv' /\ AskedGrows /\ Flushing' = Flushing  BY <1>3, <1>4, ClientsSet
<1>6. ToSet(others) \subseteq Clients  BY DEF ToSet
<1>7. Kept(others, {c \in Clients : takes(c)}) \in Seq(Clients)
  BY KeptArranges DEF Arranges
<1>8. j \in Jobs(queries) /\ ~j.delivered /\ j.asks = asks
  <2> HIDE DEF takes, rest
  <2> QED  BY <1>6, <1>7 DEF Jobs, Somebody
<1> HIDE DEF j
<1> QED  BY <1>2, <1>5, <1>8 DEF LaunchWell

LEMMA KnownClients ==
  ASSUME PlaceInv
  PROVE  /\ Registered \subseteq Clients /\ Reverse(focus) \in Seq(Clients)
         /\ \A K : Kept(focus, K) \in Seq(Clients) /\ Kept(Reverse(focus), K) \in Seq(Clients)
         /\ (focus # <<>> => Last(focus) \in Registered) /\ Primary \in Somebody
<1>1. focus \in Seq(Clients)  BY DEF PlaceInv
<1>2. Registered \subseteq Clients  BY <1>1 DEF Registered, ToSet
<1>3. Reverse(focus) \in Seq(Clients)  BY <1>1, ReverseArranges DEF Arranges
<1>4. \A K : Kept(focus, K) \in Seq(Clients)  BY <1>1, KeptArranges DEF Arranges
<1>5. \A K : Kept(Reverse(focus), K) \in Seq(Clients)  BY <1>3, KeptArranges DEF Arranges
<1>6. focus # <<>> => Last(focus) \in Registered
  BY <1>1 DEF Registered, ToSet, Last
<1>7. Primary \in Somebody  BY <1>2, <1>6 DEF Primary, Somebody
<1> QED  BY <1>2, <1>3, <1>4, <1>5, <1>6, <1>7

\* What reading has is written or dropped; a job may begin.
LEMMA WriteOutputKeeps ==
  ASSUME OutputAssumption, Inv, WriteOutput
  PROVE  StepWell
<1> DEFINE n == reading.chunk
           asks == reading.asks
           known == {c \in Registered : Sequence(c) <= reading.latest}
           first == IF reading.primary \in known THEN reading.primary ELSE NoClient
           shows == [c \in Clients |-> IF c \in known /\ ~Suppresses(c, n) THEN {n} ELSE {}]
           others == Kept(Reverse(focus), Clients \ {first})
<1>1. /\ reading # NoRead /\ reading' = NoRead
      /\ UNCHANGED <<attachVars, redraws, shown, emitted, queries, answered, results, pending,
                     inFlight, watches, pauseVars, budget>>
      /\ (~shown => missed' = missed \cup asks /\ UNCHANGED <<client, job>>)
      /\ (shown /\ asks = {} => UNCHANGED job /\ UNCHANGED missed
            /\ client' = [c \in Clients |->
                 IF c \in known THEN Informed(c, Data({n}, {}), n) ELSE client[c]])
      /\ (shown /\ asks # {} => Launch(Reader, first, others, shows, asks) /\ UNCHANGED missed)
  BY DEF WriteOutput
<1>2. UNCHANGED <<focus, awaited, arrived, redraws, shown, emitted, queries, answered, results,
                  pending, inFlight, watches, paused, buffer, pauses, timers, budget>>
  BY <1>1 DEF attachVars, pauseVars
<1>3. reading \in Reads(queries) /\ job[Reader] = NoJob  BY <1>1 DEF Inv, ReadInv
<1>4. n \in Nat /\ asks \in SUBSET queries  BY <1>3 DEF Reads
<1>5. Registered \subseteq Clients /\ others \in Seq(Clients)  BY KnownClients DEF Inv
<1>6. first \in Somebody /\ known \subseteq Clients  BY <1>5 DEF Somebody
<1>7. shows \in [Clients -> SUBSET Nat]  BY <1>4
<1> HIDE DEF n, asks, known, first, shows, others
<1>8. Reader \in Writers  BY DEF Writers
<1> DEFINE Launches == \E j \in Jobs(queries) :
                         job' = [job EXCEPT ![Reader] = j] /\ ~j.delivered /\ j.asks = asks
<1>9. /\ ClientInv' /\ AskedGrows /\ Flushing' = Flushing
      /\ ((job' = job /\ (asks \subseteq missed' \/ asks = {})) \/ Launches)
  <2>1. CASE ~shown
    BY <1>1, <1>2, <2>1, ClientKept DEF Inv
  <2>2. CASE shown /\ asks = {}
    <3>1. ASSUME NEW c \in Clients
          PROVE  client'[c] \in Holdings(c, queries) /\ Grown(client[c], client'[c])
      <4>1. client[c] \in Holdings(c, queries)  BY DEF Inv, ClientInv
      <4>2. \A x \in SUBSET queries : DataWell(c, queries, {n}, x)  BY <1>4, DataGood
      <4>3. DataWell(c, queries, {n}, {})  BY <4>2
      <4>4. Data({n}, {}) \in Good(c, queries)  BY <4>3 DEF DataWell
      <4>5. client'[c] \in {client[c], Put(client[c], Data({n}, {}))}
        BY <1>1, <2>2 DEF Informed
      <4>6. Grown(client[c], client[c])  BY DEF Grown
      <4> QED  BY <4>1, <4>4, <4>5, <4>6, PutGrows
    <3>2. client' = [c \in Clients |-> client'[c]]  BY <1>1, <2>2
    <3> QED  BY <1>1, <1>2, <2>2, <3>1, <3>2, ClientsSet DEF Inv
  <2>3. CASE shown /\ asks # {}
    <3>1. LaunchWell(Reader, asks)
      BY <1>1, <1>2, <1>4, <1>5, <1>6, <1>7, <1>8, <2>3, Launched DEF Inv
    <3> QED  BY <3>1 DEF LaunchWell
  <2> QED  BY <2>1, <2>2, <2>3
<1>10. JobInv' /\ TimerInv' /\ \A t \in Writers \ {Reader} : job'[t] = job[t]
  <2>1. CASE job' = job
    BY <1>2, <1>9, <2>1, JobKept, TimerKept DEF Inv
  <2>2. CASE Launches
    <3>1. PICK j \in Jobs(queries) : job' = [job EXCEPT ![Reader] = j] /\ ~j.delivered  BY <2>2
    <3>2. JobInv'  BY <1>2, <1>8, <1>9, <3>1, JobSet DEF Inv
    <3>3. \A t \in Writers \ {Reader} : job'[t] = job[t]  BY <3>1 DEF Inv, JobInv
    <3>4. TimerInv'
      <4>1. \A t \in Writers : t \in timers \/ t > pauses => t # Reader
        BY DEF Inv, TimerInv, Reader
      <4> QED  BY <1>2, <3>3, <4>1 DEF Inv, TimerInv
    <3> QED  BY <3>2, <3>3, <3>4
  <2> QED  BY <1>9, <2>1, <2>2
<1>11. (asks \subseteq missed' /\ job' = job) \/ asks \subseteq job'[Reader].asks
  BY <1>8, <1>9 DEF Inv, JobInv
<1>12. ReadInv'
  <2>1. NoRead \in Reads(queries)  BY DEF NoRead, Reads, Somebody
  <2> QED  BY <1>1, <1>2, <2>1 DEF ReadInv
<1>13. ResultInv' /\ QueryInv' /\ PlaceInv' /\ BudgetInv'
  BY <1>2, <1>9, ResultKept, QueryKept, PlaceKept, BudgetKept DEF Inv
<1>14. Inv'  BY <1>9, <1>10, <1>12, <1>13 DEF Inv
<1>15. \A t \in Writers : job[t].asks \subseteq Found'
  <2>1. job[Reader].asks = {}  BY <1>3, NoJobIs
  <2> QED  BY <1>10, <2>1, InFound
<1>16. reading.asks \subseteq Found'  BY <1>8, <1>11, InFound DEF asks
<1>17. missed \subseteq missed'  BY <1>1, <1>2
<1>18. Found \subseteq Found'  BY <1>2, <1>9, <1>15, <1>16, <1>17, InFound, FoundKept
<1> QED  BY <1>2, <1>14, <1>18 DEF StepWell

(***************************************************************************)
(* Replays, redraws, and the queries that waited                           *)
(***************************************************************************)
\* When clients have become cs, those that wait are sent on; nothing is dropped.
FlushWell(cs) ==
  /\ client' = [d \in Clients |-> client'[d]]
  /\ \A d \in Clients : client'[d] \in Holdings(d, queries) /\ Grown(cs[d], client'[d])
  /\ QueryInv'
  /\ pending \subseteq pending' \cup Resent(watches') /\ inFlight \subseteq inFlight'
  /\ Resent(watches) \subseteq Resent(watches') /\ missed' = missed

LEMMA FlushedIs ==
  ASSUME OutputAssumption, QueryInv, queries' = queries, NEW cs, cs = [d \in Clients |-> cs[d]],
         \A d \in Clients : cs[d] \in Holdings(d, queries), focus' \in Seq(Clients),
         NEW c \in Clients, Flushed(cs, c)
  PROVE  FlushWell(cs)
<1> DEFINE f == focus'
           v == Data({}, pending)
           i == Taker(cs, f, v)
<1>1. CASE client' = cs /\ UNCHANGED queryVars
  <2>1. UNCHANGED <<pending, inFlight, watches, missed>>  BY <1>1 DEF queryVars
  <2>2. QueryInv'  BY <2>1, QueryKept
  <2>3. \A d \in Clients : Grown(cs[d], client'[d])  BY <1>1 DEF Grown
  <2> QED  BY <1>1, <2>1, <2>2, <2>3 DEF FlushWell
<1>2. CASE ~(client' = cs /\ UNCHANGED queryVars)
  <2>1. pending \in SUBSET queries  BY DEF QueryInv
  <2>2. v.size \in Nat
    <3>1. \A x \in SUBSET Nat : DataWell(c, queries, x, pending)  BY <2>1, DataGood
    <3>2. DataWell(c, queries, {}, pending)  BY <3>1
    <3> QED  BY <3>2 DEF DataWell, Good
  <2>3. i \in 0 .. Len(f) /\ (i # 0 => i \in 1 .. Len(f) /\ f[i] \in Clients)
    <3>1. TakenAt(i, cs, f, v)  BY TakerIs
    <3> QED  BY <3>1 DEF TakenAt
  <2>4. inFlight = {} /\ pending # {}  BY <1>2 DEF Flushed
  <2>5. CASE i = 0
    <3>1. client' = Offered(cs, f, v) /\ UNCHANGED queryVars  BY <1>2, <2>5 DEF Flushed
    <3>2. UNCHANGED <<pending, inFlight, watches, missed>>  BY <3>1 DEF queryVars
    <3>3. QueryInv'  BY <3>2, QueryKept
    <3> HIDE DEF v, f, i
    <3>4. OfferedWell(cs, f, v, queries, client')
      <4>1. f \in Seq(Clients) /\ Taker(cs, f, v) = 0  BY <2>5 DEF f, i
      <4> QED  BY <2>2, <3>1, <4>1, OfferedHolds
    <3> QED  BY <3>2, <3>3, <3>4 DEF OfferedWell, FlushWell
  <2>6. CASE i # 0
    <3> DEFINE w == Again(pending, f[i])
               k == Watching(pending, TRUE, f[i])
    <3>1. client' = Offered(cs, f, w) /\ pending' = {} /\ inFlight' = pending /\ watches' = watches \cup {k}
          /\ missed' = missed
      BY <1>2, <2>6 DEF Flushed
    <3>2. f[i] \in Clients  BY <2>3, <2>6
    <3>3. w \in Good(f[i], queries) /\ w.size = v.size
      <4>1. AgainWell(f[i], queries, pending)  BY <2>1, <3>2, AgainGood
      <4> QED  BY <4>1 DEF AgainWell
    <3>4. k \in Watchings(queries) /\ k.token.client = f[i] /\ k.token.asks = pending /\ k.flight = TRUE
      <4>1. k = [token |-> [who |-> Resender, asks |-> pending, client |-> f[i]], flight |-> TRUE]
        BY <2>1, <3>2, WatchingIs
      <4>2. k \in Watchings(queries)  BY <2>1, <3>2, WatchingIs
      <4> HIDE DEF k
      <4>3. k.token = [who |-> Resender, asks |-> pending, client |-> f[i]] /\ k.flight = TRUE
        BY <4>1
      <4> QED  BY <4>2, <4>3
    <3>5. Taker(cs, f, w) = i  BY <3>3, TakerBySize
    <3> HIDE DEF w, v, f, i, k
    <3>6. OfferedWell(cs, f, w, queries, client')
      <4>1. f \in Seq(Clients)  BY DEF f
      <4> QED  BY <2>2, <3>1, <3>3, <3>5, <4>1, OfferedHolds
    <3>7. QueryInv'  BY <2>1, <2>4, <3>1, <3>2, <3>4 DEF QueryInv
    <3>8. pending \subseteq Resent(watches') /\ Resent(watches) \subseteq Resent(watches')
      BY <3>1, <3>4 DEF Resent
    <3> QED  BY <2>4, <3>1, <3>6, <3>7, <3>8 DEF OfferedWell, FlushWell
  <2> QED  BY <2>5, <2>6
<1> QED  BY <1>1, <1>2

\* A redraw pause may begin, whose timer is new.
PauseWell ==
  /\ TimerInv' /\ paused' \in BOOLEAN /\ pauses' \in Nat /\ pauses' <= pauses + 1
  /\ buffer' \in [asks : SUBSET queries, primary : Somebody] /\ buffer'.asks = buffer.asks

LEMMA PausedIs ==
  ASSUME TimerInv, PlaceInv, UNCHANGED <<job, queries>>, focus' \in Seq(Clients), focus' # <<>>, Paused
  PROVE  PauseWell
<1>1. /\ paused' = TRUE /\ pauses' = pauses + 1 /\ timers' = timers \cup {pauses'}
      /\ buffer' = [asks |-> buffer.asks,
                    primary |-> IF buffer.asks # {} /\ buffer.primary \in ToSet(focus')
                                  THEN buffer.primary ELSE Last(focus')]
  BY DEF Paused
<1>2. Last(focus') \in Clients /\ ToSet(focus') \subseteq Clients  BY DEF Last, ToSet
<1>3. buffer.asks \subseteq queries /\ buffer.primary \in Somebody  BY DEF PlaceInv
<1>4. buffer' \in [asks : SUBSET queries, primary : Somebody] /\ buffer'.asks = buffer.asks
  BY <1>1, <1>2, <1>3 DEF Somebody
<1>5. TimerInv'
  <2>1. pauses \in Nat /\ pauses' = pauses + 1 /\ timers \subseteq 1 .. pauses  BY <1>1 DEF TimerInv
  <2>2. timers' \subseteq 1 .. pauses'  BY <1>1, <2>1
  <2>3. \A t \in Writers : t \in Nat
    <3>1. pauses \in Nat /\ Writers \subseteq {0} \cup 1 .. MaxPauses  BY <2>1 DEF Writers, Reader
    <3> QED  BY <3>1
  <2>4. \A t \in Writers : t \in timers' \/ t > pauses' => t \in timers \/ t > pauses
    BY <1>1, <2>1, <2>3
  <2> QED  BY <2>1, <2>2, <2>4 DEF TimerInv
<1> QED  BY <1>1, <1>4, <1>5 DEF TimerInv, PauseWell

LEMMA PausedIfIs ==
  ASSUME TimerInv, PlaceInv, UNCHANGED <<job, queries>>, focus' \in Seq(Clients), NEW p, PausedIf(p)
  PROVE  PauseWell
<1>1. CASE focus' # <<>> /\ Paused
  BY <1>1, PausedIs
<1>2. CASE UNCHANGED pauseVars
  <2>1. UNCHANGED <<paused, buffer, pauses, timers>>  BY <1>2 DEF pauseVars
  <2>2. TimerInv' /\ pauses \in Nat  BY <2>1, TimerKept DEF TimerInv
  <2>3. paused \in BOOLEAN /\ buffer \in [asks : SUBSET queries, primary : Somebody]
    BY DEF PlaceInv
  <2> QED  BY <2>1, <2>2, <2>3 DEF PauseWell
<1> QED  BY <1>1, <1>2 DEF PausedIf

LEMMA FlushingCounts ==
  ASSUME OutputAssumption
  PROVE  /\ IsFiniteSet(Flushing) /\ Cardinality(Flushing) \in Nat
         /\ \A c \in Flushing : /\ Cardinality(Flushing \ {c}) = Cardinality(Flushing) - 1
                               /\ Cardinality(Flushing \ {c}) \in Nat
         /\ \A c : Cardinality(Flushing \cup {c}) \in Nat
                   /\ Cardinality(Flushing \cup {c}) <= Cardinality(Flushing) + 1
<1>1. IsFiniteSet(Clients)  BY DEF OutputAssumption
<1>2. IsFiniteSet(Flushing)  BY <1>1, FS_Subset DEF Flushing
<1>3. Cardinality(Flushing) \in Nat  BY <1>2, FS_CardinalityType
<1>4. ASSUME NEW c \in Flushing
      PROVE  /\ Cardinality(Flushing \ {c}) = Cardinality(Flushing) - 1
             /\ Cardinality(Flushing \ {c}) \in Nat
  <2>1. IsFiniteSet(Flushing \ {c}) /\ Cardinality(Flushing \ {c}) = Cardinality(Flushing) - 1
    BY <1>2, FS_RemoveElement
  <2> QED  BY <2>1, FS_CardinalityType
<1>5. ASSUME NEW c
      PROVE  Cardinality(Flushing \cup {c}) \in Nat
             /\ Cardinality(Flushing \cup {c}) <= Cardinality(Flushing) + 1
  <2>1. CASE c \in Flushing
    <3>1. Flushing \cup {c} = Flushing  BY <2>1
    <3>2. Cardinality(Flushing \cup {c}) = Cardinality(Flushing)  BY <3>1
    <3> QED  BY <1>3, <3>2
  <2>2. CASE c \notin Flushing
    <3>1. Cardinality(Flushing \cup {c}) = Cardinality(Flushing) + 1  BY <1>2, <2>2, FS_AddElement
    <3> QED  BY <1>3, <3>1
  <2> QED  BY <2>1, <2>2
<1> QED  BY <1>2, <1>3, <1>4, <1>5

\* Numbers of events.
LEMMA SumOfFour ==
  ASSUME NEW a \in Nat, NEW b \in Nat, NEW c \in Nat, NEW d \in Nat
  PROVE  a + b + c + d \in Nat
OBVIOUS

LEMMA OneLess ==
  ASSUME NEW p \in Nat, NEW f \in Nat, NEW g \in Nat, NEW o \in Nat, NEW h \in Nat, g + 1 = f
  PROVE  p + g + o + h + 1 <= p + f + o + h
OBVIOUS

\* What there is to pay with, in numbers.
Numbers == /\ pauses \in Nat /\ Paid \in Nat /\ Cardinality(Flushing) \in Nat
           /\ Owed \in {0, 1} /\ Hidden \in {0, 1} /\ MaxPauses \in Nat

LEMMA NumbersHold ==
  ASSUME OutputAssumption, TimerInv, PlaceInv
  PROVE  Numbers
<1>1. Paid \in Nat
  <2>1. budget.attach \in Nat /\ budget.focus \in Nat /\ budget.pause \in Nat /\ budget.switch \in Nat
    BY DEF PlaceInv, Budgets
  <2> QED  BY <2>1, SumOfFour DEF Paid
<1>2. pauses \in Nat /\ MaxPauses \in Nat  BY DEF TimerInv, OutputAssumption
<1>3. Cardinality(Flushing) \in Nat  BY FlushingCounts
<1> QED  BY <1>1, <1>2, <1>3 DEF Owed, Hidden, Numbers

\* A pause begins when something else that was paid for is over.
LEMMA PausePaid ==
  ASSUME Numbers, BudgetInv, pauses' \in Nat, pauses' <= pauses + 1,
         Paid' + Cardinality(Flushing') + Owed' + Hidden' + 1
           <= Paid + Cardinality(Flushing) + Owed + Hidden,
         Paid' \in Nat, Cardinality(Flushing') \in Nat, Owed' \in {0, 1}, Hidden' \in {0, 1}
  PROVE  BudgetInv'
BY DEF Numbers, BudgetInv

\* What was paid for is something else now.
LEMMA Exchanged ==
  ASSUME Numbers, BudgetInv, pauses' = pauses,
         Paid' + Cardinality(Flushing') + Owed' + Hidden' <= Paid + Cardinality(Flushing) + Owed + Hidden,
         Paid' \in Nat, Cardinality(Flushing') \in Nat, Owed' \in {0, 1}, Hidden' \in {0, 1}
  PROVE  BudgetInv'
BY DEF Numbers, BudgetInv

LEMMA FlushAttachedKeeps ==
  ASSUME OutputAssumption, Inv, NEW c \in Clients, FlushAttached(c)
  PROVE  StepWell
<1> DEFINE p == [client[c] EXCEPT !.flush = FALSE]
           cs == [client EXCEPT ![c] = p]
<1>1. PICK ok \in BOOLEAN :
        /\ results' \subseteq results /\ PausedIf(ok /\ c \in Registered)
  BY DEF FlushAttached
<1>2. UNCHANGED <<attachVars, windowVars, job, gates, budget>> /\ client[c].flush
  BY DEF FlushAttached
<1>3. UNCHANGED <<focus, awaited, arrived, redraws, shown, emitted, queries, reading, answered,
                  job, budget>>
  BY <1>2 DEF attachVars, windowVars
<1>4. cs = [client EXCEPT ![c].flush = FALSE]  BY DEF Inv, ClientInv
<1>5. Flushed(cs, c)  BY <1>4 DEF FlushAttached
<1>6. client[c] \in Holdings(c, queries) /\ client[c].mark <= emitted  BY DEF Inv, ClientInv
<1>7. /\ p \in Holdings(c, queries) /\ p.mark = client[c].mark /\ p.asked = client[c].asked
      /\ p.flush = FALSE
  <2>1. p.held = client[c].held /\ p.queue = client[c].queue /\ p.bytes = client[c].bytes
    BY <1>6 DEF Holdings
  <2>2. Exact(p)  BY <1>6, <2>1 DEF Exact, Holdings
  <2> QED  BY <1>6, <2>2 DEF Holdings
<1> HIDE DEF p
<1>8. cs = [d \in Clients |-> cs[d]] /\ \A d \in Clients : cs[d] = IF d = c THEN p ELSE client[d]
  BY DEF Inv, ClientInv
<1> HIDE DEF cs
<1>9. \A d \in Clients : /\ cs[d] \in Holdings(d, queries) /\ cs[d].mark <= emitted
                         /\ cs[d].asked = client[d].asked
                         /\ (cs[d].flush <=> d # c /\ client[d].flush)
  BY <1>6, <1>7, <1>8 DEF Inv, ClientInv
<1>10. focus' \in Seq(Clients)  BY <1>3 DEF Inv, PlaceInv
<1>11. FlushWell(cs)  BY <1>3, <1>5, <1>8, <1>9, <1>10, FlushedIs DEF Inv
<1>12. ClientInv' /\ AskedGrows /\ Flushing' = Flushing \ {c}
  BY <1>3, <1>9, <1>11 DEF FlushWell, Grown, ClientInv, AskedGrows, Flushing
<1>13. PauseWell  BY <1>1, <1>3, <1>10, PausedIfIs DEF Inv
<1>14. ResultInv' /\ JobInv' /\ ReadInv'
  BY <1>1, <1>3, <1>12, ResultKept, JobKept, ReadKept DEF Inv
<1>15. PlaceInv'  BY <1>3, <1>13 DEF PauseWell, Inv, PlaceInv, Registered, History
<1>16. BudgetInv'
  <2>1. c \in Flushing  BY <1>2 DEF Flushing
  <2>2. Cardinality(Flushing') = Cardinality(Flushing) - 1 /\ Cardinality(Flushing') \in Nat
    BY <1>12, <2>1, FlushingCounts
  <2>3. pauses' <= pauses + 1 /\ pauses' \in Nat  BY <1>13 DEF PauseWell
  <2>4. Paid' = Paid /\ Owed' = Owed /\ Hidden' = Hidden  BY <1>3 DEF Paid, Owed, Hidden
  <2>5. Numbers  BY NumbersHold DEF Inv
  <2>6. /\ Paid' \in Nat /\ Cardinality(Flushing') \in Nat /\ Owed' \in {0, 1} /\ Hidden' \in {0, 1}
        /\ Paid' + Cardinality(Flushing') + Owed' + Hidden' + 1
             <= Paid + Cardinality(Flushing) + Owed + Hidden
    <3>1. Paid \in Nat /\ Cardinality(Flushing) \in Nat /\ Owed \in {0, 1} /\ Hidden \in {0, 1}
      BY <2>5 DEF Numbers
    <3> HIDE DEF Owed, Hidden
    <3>2. Owed \in Nat /\ Hidden \in Nat  BY <3>1
    <3>3. Cardinality(Flushing') + 1 = Cardinality(Flushing)  BY <2>2, <3>1
    <3> QED  BY <2>2, <2>4, <3>1, <3>2, <3>3, OneLess
  <2> QED  BY <2>3, <2>5, <2>6, PausePaid DEF Inv
<1>17. Found \subseteq Found'
  <2>1. buffer'.asks = buffer.asks  BY <1>13 DEF PauseWell
  <2>2. /\ pending \subseteq pending' \cup Resent(watches') /\ inFlight \subseteq inFlight'
        /\ Resent(watches) \subseteq Resent(watches') /\ missed' = missed
    BY <1>11 DEF FlushWell
  <2> QED  BY <1>3, <1>12, <2>1, <2>2, InFound, FoundKept
<1> QED  BY <1>3, <1>11, <1>12, <1>13, <1>14, <1>15, <1>16, <1>17 DEF Inv, PauseWell, FlushWell, StepWell

LEMMA FrameGood ==
  ASSUME OutputAssumption, PlaceInv, NEW c \in Clients, NEW Q, NEW shows \in SUBSET Nat
  PROVE  /\ Frame(shows) \in Good(c, Q) /\ Frame(shows).token = NoToken /\ Frame(shows).asks = {}
         /\ Replay \in Good(c, Q) /\ Replay.token = NoToken /\ Replay.asks = {}
         /\ History \in SUBSET Nat
<1>1. History \in SUBSET Nat  BY DEF PlaceInv, History
<1>2. \A x \in SUBSET Nat :
        Frame(x) \in Good(c, Q) /\ Frame(x).token = NoToken /\ Frame(x).asks = {}
  <2> TAKE x \in SUBSET Nat
  <2>1. NoWrite \in Good(c, Q) /\ NoWrite.token = NoToken /\ NoWrite.asks = {}
    BY NoWriteGood DEF NoWrite
  <2> DEFINE f == [NoWrite EXCEPT !.shows = x, !.size = 1]
  <2>2. Frame(x) = f  BY DEF Frame
  <2>3. /\ f \in [shows : SUBSET Nat, asks : SUBSET Q, size : Nat, token : Tokens(Q), gate : Gates(Q)]
        /\ f.token = NoToken /\ f.asks = {}
    BY <2>1 DEF Good
  <2> HIDE DEF f
  <2>4. f \in Good(c, Q)  BY <2>3 DEF Good
  <2> QED  BY <2>2, <2>3, <2>4
<1>3. Replay \in {Frame({}), Frame(History)}  BY DEF Replay
<1> QED  BY <1>1, <1>2, <1>3

\* A client is sent a replay of what there is, or not.
Marked(r, m, b) == [r EXCEPT !.mark = m, !.flush = b]
MarkWell(c, Q, r, m, b) ==
  /\ Marked(r, m, b) \in Holdings(c, Q) /\ Marked(r, m, b).asked = r.asked
  /\ Marked(r, m, b).mark = m /\ (Marked(r, m, b).flush <=> b)

LEMMA MarkHolds ==
  ASSUME NEW c, NEW Q, NEW r \in Holdings(c, Q), NEW m \in Nat, NEW b \in BOOLEAN
  PROVE  MarkWell(c, Q, r, m, b)
<1> DEFINE p == Marked(r, m, b)
<1>1. p.held = r.held /\ p.queue = r.queue /\ p.bytes = r.bytes  BY DEF Holdings, Marked
<1>2. Exact(p)  BY <1>1 DEF Exact, Holdings
<1> QED  BY <1>2 DEF Holdings, Marked, MarkWell

LEMMA RemarkHolds ==
  ASSUME NEW c, NEW Q, NEW r \in Holdings(c, Q), NEW m \in Nat
  PROVE  [r EXCEPT !.mark = m] = Marked(r, m, r.flush) /\ MarkWell(c, Q, r, m, r.flush)
<1>1. r.flush \in BOOLEAN  BY DEF Holdings
<1>2. [r EXCEPT !.mark = m] = Marked(r, m, r.flush)  BY DEF Holdings, Marked
<1> QED  BY <1>1, <1>2, MarkHolds

LEMMA AppendOnce ==
  ASSUME NEW D, NEW s \in Seq(D), NEW x \in D
  PROVE  /\ Append(s, x) \in Seq(D) /\ ToSet(Append(s, x)) = ToSet(s) \cup {x}
         /\ (Once(s) /\ x \notin ToSet(s) => Once(Append(s, x))) /\ Append(s, x) # <<>>
<1> DEFINE q == Append(s, x)
           n == Len(s) + 1
<1>1. /\ Len(s) \in Nat /\ DOMAIN s = 1 .. Len(s) /\ q \in Seq(D) /\ DOMAIN q = 1 .. n
      /\ q[n] = x /\ \A i \in 1 .. Len(s) : q[i] = s[i]
  OBVIOUS
<1> HIDE DEF q
<1>2. \A i \in 1 .. n : i = n \/ i \in 1 .. Len(s)  BY <1>1
<1>3. n \in 1 .. n /\ \A i \in 1 .. Len(s) : i \in 1 .. n /\ i # n  BY <1>1
<1> HIDE DEF n
<1>4. ToSet(q) = ToSet(s) \cup {x}  BY <1>1, <1>2, <1>3 DEF ToSet
<1>5. Once(s) /\ x \notin ToSet(s) => Once(q)  BY <1>1, <1>2, <1>3, Zenon DEF Once, ToSet
<1>6. q # <<>>
  <2>1. DOMAIN <<>> = {}  OBVIOUS
  <2> QED  BY <1>1, <1>3, <2>1
<1> QED  BY <1>1, <1>4, <1>5, <1>6 DEF q

LEMMA ReplayFocusedKeeps ==
  ASSUME OutputAssumption, Inv, ReplayFocused
  PROVE  StepWell
<1> DEFINE c == awaited
           u == [client[c] EXCEPT !.mark = emitted]
           p == Put(u, Replay)
           cs == [client EXCEPT ![c] = p]
<1>1. /\ awaited # NoClient /\ awaited' = NoClient /\ shown
      /\ UNCHANGED <<focus, arrived, windowVars, job, gates, results, budget>>
      /\ (Fits(client[c], Replay) => PausedIf(TRUE) /\ Flushed(cs, c))
      /\ (~Fits(client[c], Replay) =>
            client' = [cs EXCEPT ![c].mark = 0] /\ UNCHANGED <<queryVars, pauseVars>>)
  <2>1. cs = [client EXCEPT ![c] = Put([@ EXCEPT !.mark = emitted], Replay)]
    BY DEF Inv, ClientInv
  <2> QED  BY <2>1 DEF ReplayFocused
<1>2. UNCHANGED <<focus, arrived, redraws, shown, emitted, queries, reading, answered,
                  job, results, budget>>
  BY <1>1 DEF windowVars
<1>3. c \in Clients /\ c \in Registered  BY <1>1, KnownClients DEF Inv, PlaceInv
<1>4. client[c] \in Holdings(c, queries) /\ emitted \in Nat  BY <1>3 DEF Inv, ClientInv, PlaceInv
<1>5. /\ u \in Holdings(c, queries) /\ u.mark = emitted /\ u.asked = client[c].asked
      /\ (u.flush <=> client[c].flush)
  BY <1>4, RemarkHolds DEF MarkWell
<1> HIDE DEF u
<1>6. /\ p \in Holdings(c, queries) /\ p.mark = emitted /\ p.asked = client[c].asked
      /\ (p.flush <=> client[c].flush)
  <2>1. Replay \in Good(c, queries)  BY <1>3, FrameGood DEF Inv
  <2>2. p \in Holdings(c, queries) /\ Grown(u, p)  BY <1>3, <1>5, <2>1, PutGrows
  <2> QED  BY <1>5, <2>2 DEF Grown
<1> HIDE DEF p
<1>7. cs = [d \in Clients |-> cs[d]] /\ \A d \in Clients : cs[d] = IF d = c THEN p ELSE client[d]
  BY DEF Inv, ClientInv
<1>8. focus' \in Seq(Clients)  BY <1>2 DEF Inv, PlaceInv
<1>9. /\ ClientInv' /\ AskedGrows /\ Flushing' = Flushing /\ PauseWell /\ QueryInv'
      /\ pending \subseteq pending' \cup Resent(watches') /\ inFlight \subseteq inFlight'
      /\ Resent(watches) \subseteq Resent(watches') /\ missed' = missed
  <2>1. CASE Fits(client[c], Replay)
    <3> HIDE DEF cs
    <3>1. \A d \in Clients : /\ cs[d] \in Holdings(d, queries) /\ cs[d].mark <= emitted
                             /\ cs[d].asked = client[d].asked /\ (cs[d].flush <=> client[d].flush)
      BY <1>4, <1>6, <1>7 DEF Inv, ClientInv
    <3>2. FlushWell(cs)  BY <1>1, <1>2, <1>3, <1>7, <1>8, <2>1, <3>1, FlushedIs DEF Inv
    <3>3. ClientInv' /\ AskedGrows /\ Flushing' = Flushing
      BY <1>2, <3>1, <3>2 DEF FlushWell, Grown, ClientInv, AskedGrows, Flushing
    <3>4. PauseWell  BY <1>1, <1>2, <1>8, <2>1, PausedIfIs DEF Inv
    <3> QED  BY <3>2, <3>3, <3>4 DEF FlushWell
  <2>2. CASE ~Fits(client[c], Replay)
    <3> DEFINE q == [p EXCEPT !.mark = 0]
    <3>1. q \in Holdings(c, queries) /\ q.mark = 0 /\ q.asked = p.asked /\ (q.flush <=> p.flush)
      <4>1. 0 \in Nat  OBVIOUS
      <4> QED  BY <1>6, <4>1, RemarkHolds DEF MarkWell
    <3>2. client' = [client EXCEPT ![c] = q] /\ UNCHANGED <<queryVars, pauseVars>>
      BY <1>1, <1>7, <2>2 DEF Inv, ClientInv
    <3> HIDE DEF q
    <3>3. ClientInv' /\ AskedGrows /\ Flushing' = Flushing
      <4>1. q.mark <= emitted /\ client[c].asked \subseteq q.asked /\ (q.flush <=> client[c].flush)
        BY <1>4, <1>6, <3>1
      <4>2. UNCHANGED <<queries, emitted>> /\ ClientInv  BY <1>2 DEF Inv
      <4>3. client' = [client EXCEPT ![c] = q]  BY <3>2
      <4> QED  BY <1>3, <3>1, <4>1, <4>2, <4>3, ClientSet
    <3>4. UNCHANGED <<pending, inFlight, watches, missed, paused, buffer, pauses, timers>>
      BY <3>2 DEF queryVars, pauseVars
    <3>5. QueryInv'  BY <1>2, <3>4, QueryKept DEF Inv
    <3>6. TimerInv' /\ pauses \in Nat  BY <1>2, <3>4, TimerKept DEF Inv, TimerInv
    <3>7. PauseWell  BY <3>4, <3>6 DEF PauseWell, Inv, PlaceInv
    <3> QED  BY <3>3, <3>4, <3>5, <3>7
  <2> QED  BY <2>1, <2>2
<1>10. ResultInv' /\ JobInv' /\ ReadInv'
  BY <1>2, <1>9, ResultKept, JobKept, ReadKept DEF Inv
<1>11. PlaceInv'  BY <1>1, <1>2, <1>9 DEF PauseWell, Inv, PlaceInv, Registered, History
<1>12. BudgetInv'
  <2>1. Numbers  BY NumbersHold DEF Inv
  <2>2. Paid' = Paid /\ Hidden' = Hidden /\ Owed' = 0 /\ Owed = 1
        /\ Cardinality(Flushing') = Cardinality(Flushing)
    BY <1>1, <1>2, <1>9 DEF Paid, Owed, Hidden
  <2>3. pauses' \in Nat /\ pauses' <= pauses + 1  BY <1>9 DEF PauseWell
  <2>4. /\ Paid' \in Nat /\ Cardinality(Flushing') \in Nat /\ Owed' \in {0, 1} /\ Hidden' \in {0, 1}
        /\ Paid' + Cardinality(Flushing') + Owed' + Hidden' + 1
             <= Paid + Cardinality(Flushing) + Owed + Hidden
    BY <2>1, <2>2 DEF Numbers
  <2> QED  BY <2>1, <2>3, <2>4, PausePaid DEF Inv
<1>13. buffer'.asks = buffer.asks  BY <1>9 DEF PauseWell
<1>14. Found \subseteq Found'  BY <1>2, <1>9, <1>13, InFound, FoundKept
<1> QED  BY <1>2, <1>9, <1>10, <1>11, <1>12, <1>14 DEF Inv, PauseWell, StepWell

LEMMA ShowKeeps ==
  ASSUME OutputAssumption, Inv, Show
  PROVE  StepWell
<1> DEFINE cs == PutTo(IF redraws THEN {} ELSE Registered, Replay)
<1>1. /\ ~shown /\ shown' = TRUE /\ awaited' \in {awaited, NoClient} /\ PausedIf(TRUE)
      /\ UNCHANGED <<focus, arrived, redraws, emitted, queries, reading, answered,
                     job, gates, results, budget>>
      /\ Flushed(cs, Primary)
  BY DEF Show
<1>2. focus' \in Seq(Clients)  BY <1>1 DEF Inv, PlaceInv
<1>3. cs = [c \in Clients |-> cs[c]]  BY DEF PutTo
<1>4. ASSUME NEW c \in Clients
      PROVE  cs[c] \in Holdings(c, queries) /\ Grown(client[c], cs[c])
  <2>1. client[c] \in Holdings(c, queries)  BY DEF Inv, ClientInv
  <2>2. Replay \in Good(c, queries)  BY FrameGood DEF Inv
  <2>3. cs[c] \in {client[c], Put(client[c], Replay)}  BY DEF PutTo
  <2>4. Grown(client[c], client[c])  BY DEF Grown
  <2> HIDE DEF cs
  <2> QED  BY <2>1, <2>2, <2>3, <2>4, PutGrows
<1> HIDE DEF cs
<1>5. ClientInv' /\ AskedGrows /\ Flushing' = Flushing /\ QueryInv'
      /\ pending \subseteq pending' \cup Resent(watches') /\ inFlight \subseteq inFlight'
      /\ Resent(watches) \subseteq Resent(watches') /\ missed' = missed
  <2>1. CASE Primary \in Clients
    <3>1. FlushWell(cs)  BY <1>1, <1>2, <1>3, <1>4, <2>1, FlushedIs DEF Inv
    <3>2. \A c \in Clients : client'[c] \in Holdings(c, queries) /\ Grown(client[c], client'[c])
      BY <1>4, <3>1 DEF FlushWell, Grown
    <3>3. ClientInv' /\ AskedGrows /\ Flushing' = Flushing
      BY <1>1, <3>1, <3>2, ClientsSet DEF FlushWell, Inv
    <3> QED  BY <3>1, <3>3 DEF FlushWell
  <2>2. CASE Primary \notin Clients
    <3>1. focus' = <<>>
      <4>1. focus # <<>> => Primary \in Clients  BY KnownClients DEF Inv, Primary
      <4> QED  BY <1>1, <2>2, <4>1
    <3>2. client' = cs /\ UNCHANGED queryVars  BY <1>1, <3>1 DEF Flushed
    <3>3. ClientInv' /\ AskedGrows /\ Flushing' = Flushing
      BY <1>1, <1>3, <1>4, <3>2, ClientsSet DEF Inv
    <3>4. UNCHANGED <<pending, inFlight, watches, missed>>  BY <3>2 DEF queryVars
    <3>5. QueryInv'  BY <1>1, <3>4, QueryKept DEF Inv
    <3> QED  BY <3>3, <3>4, <3>5
  <2> QED  BY <2>1, <2>2
<1>6. PauseWell  BY <1>1, <1>2, PausedIfIs DEF Inv
<1>7. ResultInv' /\ JobInv' /\ ReadInv'
  BY <1>1, <1>5, ResultKept, JobKept, ReadKept DEF Inv
<1>8. PlaceInv'  BY <1>1, <1>6 DEF PauseWell, Inv, PlaceInv, Registered, History
<1>9. BudgetInv'
  <2>1. Numbers  BY NumbersHold DEF Inv
  <2>2. Paid' = Paid /\ Hidden' = 0 /\ Hidden = 1 /\ (Owed' = Owed \/ Owed' = 0)
        /\ Cardinality(Flushing') = Cardinality(Flushing)
    BY <1>1, <1>5 DEF Paid, Owed, Hidden
  <2>3. pauses' \in Nat /\ pauses' <= pauses + 1  BY <1>6 DEF PauseWell
  <2>4. /\ Paid' \in Nat /\ Cardinality(Flushing') \in Nat /\ Owed' \in {0, 1} /\ Hidden' \in {0, 1}
        /\ Paid' + Cardinality(Flushing') + Owed' + Hidden' + 1
             <= Paid + Cardinality(Flushing) + Owed + Hidden
    BY <2>1, <2>2 DEF Numbers
  <2> QED  BY <2>1, <2>3, <2>4, PausePaid DEF Inv
<1>10. buffer'.asks = buffer.asks  BY <1>6 DEF PauseWell
<1>11. Found \subseteq Found'  BY <1>1, <1>5, <1>10, InFound, FoundKept
<1> QED  BY <1>1, <1>5, <1>6, <1>7, <1>8, <1>9, <1>11 DEF Inv, PauseWell, StepWell

LEMMA SpentOn ==
  ASSUME PlaceInv, NEW e \in {"attach", "focus", "switch", "pause"}, Spend(e)
  PROVE  budget' \in Budgets /\ Paid' = Paid - 1 /\ Paid' \in Nat
<1>1. /\ budget' \in Budgets /\ budget[e] \in Nat \ {0} /\ budget'[e] = budget[e] - 1
      /\ \A d \in {"attach", "focus", "switch", "pause", "lose"} \ {e} : budget'[d] = budget[d]
  BY SpendIs
<1>2. /\ budget["attach"] \in Nat /\ budget["focus"] \in Nat /\ budget["pause"] \in Nat
      /\ budget["switch"] \in Nat
  BY DEF PlaceInv, Budgets
<1>3. Paid = budget["attach"] + budget["focus"] + budget["pause"] + budget["switch"]
      /\ Paid' = budget'["attach"] + budget'["focus"] + budget'["pause"] + budget'["switch"]
  BY DEF Paid
<1>4. CASE e = "attach"
  <2>1. budget'["focus"] = budget["focus"] /\ budget'["switch"] = budget["switch"] /\ budget'["pause"] = budget["pause"]
    BY <1>1, <1>4
  <2>2. budget'["attach"] = budget["attach"] - 1 /\ budget["attach"] - 1 \in Nat  BY <1>1, <1>4
  <2> QED  BY <1>1, <1>2, <1>3, <2>1, <2>2
<1>5. CASE e = "focus"
  <2>1. budget'["attach"] = budget["attach"] /\ budget'["switch"] = budget["switch"] /\ budget'["pause"] = budget["pause"]
    BY <1>1, <1>5
  <2>2. budget'["focus"] = budget["focus"] - 1 /\ budget["focus"] - 1 \in Nat  BY <1>1, <1>5
  <2> QED  BY <1>1, <1>2, <1>3, <2>1, <2>2
<1>6. CASE e = "switch"
  <2>1. budget'["attach"] = budget["attach"] /\ budget'["focus"] = budget["focus"] /\ budget'["pause"] = budget["pause"]
    BY <1>1, <1>6
  <2>2. budget'["switch"] = budget["switch"] - 1 /\ budget["switch"] - 1 \in Nat  BY <1>1, <1>6
  <2> QED  BY <1>1, <1>2, <1>3, <2>1, <2>2
<1>7. CASE e = "pause"
  <2>1. budget'["attach"] = budget["attach"] /\ budget'["focus"] = budget["focus"] /\ budget'["switch"] = budget["switch"]
    BY <1>1, <1>7
  <2>2. budget'["pause"] = budget["pause"] - 1 /\ budget["pause"] - 1 \in Nat  BY <1>1, <1>7
  <2> QED  BY <1>1, <1>2, <1>3, <2>1, <2>2
<1> QED  BY <1>4, <1>5, <1>6, <1>7

LEMMA PauseKeeps ==
  ASSUME OutputAssumption, Inv, Pause
  PROVE  StepWell
<1>1. /\ Watched /\ Spend("pause") /\ Paused
      /\ UNCHANGED <<attachVars, client, windowVars, job, gates, results, queryVars>>
  BY DEF Pause
<1>2. UNCHANGED <<focus, awaited, arrived, redraws, shown, emitted, queries, reading, missed, answered,
                  pending, inFlight, watches>>
  BY <1>1 DEF attachVars, windowVars, queryVars
<1>3. ClientInv' /\ AskedGrows /\ Flushing' = Flushing  BY <1>1, <1>2, ClientKept DEF Inv
<1>4. ResultInv' /\ JobInv' /\ ReadInv' /\ QueryInv'
  BY <1>1, <1>2, <1>3, ResultKept, JobKept, ReadKept, QueryKept DEF Inv
<1>5. focus' \in Seq(Clients) /\ focus' # <<>>  BY <1>1, <1>2 DEF Watched, Inv, PlaceInv
<1>6. PauseWell  BY <1>1, <1>2, <1>5, PausedIs DEF Inv
<1>7. budget' \in Budgets /\ Paid' = Paid - 1 /\ Paid' \in Nat  BY <1>1, SpentOn DEF Inv
<1>8. PlaceInv'  BY <1>2, <1>6, <1>7 DEF PauseWell, Inv, PlaceInv, Registered, History
<1>9. BudgetInv'
  <2>1. Numbers  BY NumbersHold DEF Inv
  <2>2. Owed' = Owed /\ Hidden' = Hidden /\ Cardinality(Flushing') = Cardinality(Flushing)
    BY <1>2, <1>3 DEF Owed, Hidden
  <2>3. pauses' \in Nat /\ pauses' <= pauses + 1  BY <1>6 DEF PauseWell
  <2>4. /\ Paid' \in Nat /\ Cardinality(Flushing') \in Nat /\ Owed' \in {0, 1} /\ Hidden' \in {0, 1}
        /\ Paid' + Cardinality(Flushing') + Owed' + Hidden' + 1
             <= Paid + Cardinality(Flushing) + Owed + Hidden
    BY <1>7, <2>1, <2>2 DEF Numbers
  <2> QED  BY <2>1, <2>3, <2>4, PausePaid DEF Inv
<1>10. buffer'.asks = buffer.asks  BY <1>6 DEF PauseWell
<1>11. Found \subseteq Found'  BY <1>1, <1>2, <1>3, <1>10, InFound, FoundKept
<1> QED  BY <1>2, <1>3, <1>4, <1>6, <1>8, <1>9, <1>11 DEF Inv, PauseWell, StepWell

\* Steps of the outside that change neither what is read nor what is paused.
Aside == <<windowVars, job, results, queryVars, pauseVars>>

LEMMA AsideKept ==
  ASSUME Inv, UNCHANGED <<emitted, queries, reading, answered, job, results, queryVars, pauseVars>>,
         ClientInv', AskedGrows
  PROVE  /\ ResultInv' /\ JobInv' /\ ReadInv' /\ TimerInv' /\ QueryInv'
         /\ UNCHANGED <<pauses, paused, buffer>> /\ Found \subseteq Found' /\ queries' = queries
<1>1. UNCHANGED <<pending, inFlight, watches, missed, paused, buffer, pauses, timers>>
  BY DEF queryVars, pauseVars
<1>2. ResultInv' /\ JobInv' /\ ReadInv' /\ TimerInv' /\ QueryInv'
  BY <1>1, ResultKept, JobKept, ReadKept, TimerKept, QueryKept DEF Inv
<1>3. Found \subseteq Found'  BY <1>1, InFound, FoundKept
<1> QED  BY <1>1, <1>2, <1>3

LEMMA HideKeeps ==
  ASSUME OutputAssumption, Inv, Hide
  PROVE  StepWell
<1>1. /\ shown /\ shown' = FALSE /\ awaited' \in {awaited, NoClient} /\ Spend("switch")
      /\ UNCHANGED <<client, focus, arrived, redraws, emitted, queries, reading, answered,
                     job, results, queryVars, pauseVars>>
  BY DEF Hide
<1>2. ClientInv' /\ AskedGrows /\ Flushing' = Flushing  BY <1>1, ClientKept DEF Inv
<1>3. /\ ResultInv' /\ JobInv' /\ ReadInv' /\ TimerInv' /\ QueryInv'
      /\ UNCHANGED <<pauses, paused, buffer>> /\ Found \subseteq Found' /\ queries' = queries
  BY <1>1, <1>2, AsideKept
<1>4. budget' \in Budgets /\ Paid' = Paid - 1 /\ Paid' \in Nat  BY <1>1, SpentOn DEF Inv
<1>5. PlaceInv'  BY <1>1, <1>3, <1>4 DEF Inv, PlaceInv, Registered, History
<1>6. BudgetInv'
  <2>1. Numbers  BY NumbersHold DEF Inv
  <2>2. (Owed' = Owed \/ Owed' = 0) /\ Hidden = 0 /\ Hidden' = 1
        /\ Cardinality(Flushing') = Cardinality(Flushing)
    BY <1>1, <1>2 DEF Owed, Hidden
  <2>3. /\ Paid' \in Nat /\ Cardinality(Flushing') \in Nat /\ Owed' \in {0, 1} /\ Hidden' \in {0, 1}
        /\ Paid' + Cardinality(Flushing') + Owed' + Hidden'
             <= Paid + Cardinality(Flushing) + Owed + Hidden
    BY <1>4, <2>1, <2>2 DEF Numbers
  <2>4. pauses' = pauses  BY <1>3
  <2> QED  BY <2>1, <2>3, <2>4, Exchanged DEF Inv
<1> QED  BY <1>2, <1>3, <1>5, <1>6 DEF Inv, StepWell

LEMMA FocusKeeps ==
  ASSUME OutputAssumption, Inv, NEW c \in Clients, Focus(c)
  PROVE  StepWell
<1>1. /\ c \in Registered /\ Spend("focus") /\ focus' = Append(Kept(focus, Clients \ {c}), c)
      /\ awaited' \in {awaited, NoClient, c}
      /\ UNCHANGED <<client, arrived, windowVars, job, results, queryVars, pauseVars>>
  BY DEF Focus
<1>2. UNCHANGED <<redraws, shown, emitted, queries, reading, answered>>
  BY <1>1 DEF windowVars
<1>3. ClientInv' /\ AskedGrows /\ Flushing' = Flushing  BY <1>1, <1>2, ClientKept DEF Inv
<1>4. /\ ResultInv' /\ JobInv' /\ ReadInv' /\ TimerInv' /\ QueryInv'
      /\ UNCHANGED <<pauses, paused, buffer>> /\ Found \subseteq Found' /\ queries' = queries
  BY <1>1, <1>2, <1>3, AsideKept
<1>5. budget' \in Budgets /\ Paid' = Paid - 1 /\ Paid' \in Nat  BY <1>1, SpentOn DEF Inv
<1>6. focus' \in Seq(Clients) /\ Once(focus') /\ Registered' = Registered
  <2> DEFINE k == Kept(focus, Clients \ {c})
  <2>1. focus \in Seq(Clients) /\ Once(focus) /\ Registered \subseteq Clients
    BY KnownClients DEF Inv, PlaceInv
  <2>2. Arranges(k, focus, Clients \ {c}, Clients)  BY <2>1, KeptArranges
  <2>3. k \in Seq(Clients) /\ ToSet(k) = Registered \ {c} /\ Once(k)
    BY <2>1, <2>2 DEF Arranges, Registered
  <2> HIDE DEF k
  <2>4. /\ Append(k, c) \in Seq(Clients) /\ ToSet(Append(k, c)) = ToSet(k) \cup {c}
        /\ Once(Append(k, c))
    BY <2>3, AppendOnce
  <2> QED  BY <1>1, <2>3, <2>4 DEF k, Registered
<1>7. PlaceInv'  BY <1>1, <1>2, <1>4, <1>5, <1>6 DEF Inv, PlaceInv, History
<1>8. BudgetInv'
  <2>1. Numbers  BY NumbersHold DEF Inv
  <2>2. Hidden' = Hidden /\ Owed' \in {0, 1} /\ Cardinality(Flushing') = Cardinality(Flushing)
    BY <1>2, <1>3 DEF Owed, Hidden
  <2>3. /\ Paid' \in Nat /\ Cardinality(Flushing') \in Nat /\ Owed' \in {0, 1} /\ Hidden' \in {0, 1}
        /\ Paid' + Cardinality(Flushing') + Owed' + Hidden'
             <= Paid + Cardinality(Flushing) + Owed + Hidden
    BY <1>5, <2>1, <2>2 DEF Numbers
  <2>4. pauses' = pauses  BY <1>4
  <2> QED  BY <2>1, <2>3, <2>4, Exchanged DEF Inv
<1> QED  BY <1>3, <1>4, <1>7, <1>8 DEF Inv, StepWell

LEMMA LeaveKeeps ==
  ASSUME OutputAssumption, Inv, NEW c \in Clients, Leave(c)
  PROVE  StepWell
<1> DEFINE p == [client[c] EXCEPT !.open = FALSE]
<1>1. /\ Spend("lose") \/ UNCHANGED budget
      /\ focus' = Kept(focus, Clients \ {c})
      /\ awaited' = IF awaited = c THEN NoClient ELSE awaited
      /\ client' = [client EXCEPT ![c] = p]
      /\ UNCHANGED <<arrived, windowVars, job, results, queryVars, pauseVars>>
  BY DEF Leave, Inv, ClientInv
<1>2. UNCHANGED <<redraws, shown, emitted, queries, reading, answered>>
  BY <1>1 DEF windowVars
<1>3. client[c] \in Holdings(c, queries) /\ client[c].mark <= emitted  BY DEF Inv, ClientInv
<1>4. p \in Holdings(c, queries) /\ p.mark = client[c].mark /\ p.asked = client[c].asked
      /\ p.flush = client[c].flush
  <2>1. p.held = client[c].held /\ p.queue = client[c].queue /\ p.bytes = client[c].bytes
    BY <1>3 DEF Holdings
  <2>2. Exact(p)  BY <1>3, <2>1 DEF Exact, Holdings
  <2> QED  BY <1>3, <2>2 DEF Holdings
<1> HIDE DEF p
<1>5. ClientInv' /\ AskedGrows /\ Flushing' = Flushing
  BY <1>1, <1>2, <1>3, <1>4, ClientSet DEF Inv
<1>6. /\ ResultInv' /\ JobInv' /\ ReadInv' /\ TimerInv' /\ QueryInv'
      /\ UNCHANGED <<pauses, paused, buffer>> /\ Found \subseteq Found' /\ queries' = queries
  BY <1>1, <1>2, <1>5, AsideKept
<1>7. budget' \in Budgets /\ Paid' = Paid
  <2>1. CASE Spend("lose")
    BY <2>1, SpendIs DEF Inv, Paid
  <2>2. CASE UNCHANGED budget
    BY <2>2 DEF Inv, PlaceInv, Paid
  <2> QED  BY <1>1, <2>1, <2>2
<1>8. focus' \in Seq(Clients) /\ Once(focus') /\ Registered' = Registered \ {c}
  <2>1. focus \in Seq(Clients) /\ Once(focus) /\ Registered \subseteq Clients
    BY KnownClients DEF Inv, PlaceInv
  <2>2. Arranges(focus', focus, Clients \ {c}, Clients)  BY <1>1, <2>1, KeptArranges
  <2> QED  BY <2>1, <2>2 DEF Arranges, Registered
<1>9. PlaceInv'  BY <1>1, <1>2, <1>6, <1>7, <1>8 DEF Inv, PlaceInv, History
<1>10. BudgetInv'
  <2>1. Numbers  BY NumbersHold DEF Inv
  <2>2. Hidden' = Hidden /\ (Owed' = Owed \/ Owed' = 0) /\ Cardinality(Flushing') = Cardinality(Flushing)
    BY <1>1, <1>2, <1>5 DEF Owed, Hidden
  <2>3. /\ Paid' \in Nat /\ Cardinality(Flushing') \in Nat /\ Owed' \in {0, 1} /\ Hidden' \in {0, 1}
        /\ Paid' + Cardinality(Flushing') + Owed' + Hidden'
             <= Paid + Cardinality(Flushing) + Owed + Hidden
    BY <1>7, <2>1, <2>2 DEF Numbers
  <2>4. pauses' = pauses  BY <1>6
  <2> QED  BY <2>1, <2>3, <2>4, Exchanged DEF Inv
<1> QED  BY <1>5, <1>6, <1>9, <1>10 DEF Inv, StepWell

LEMMA AttachKeeps ==
  ASSUME OutputAssumption, Inv, NEW c \in Clients, Attach(c)
  PROVE  StepWell
<1> DEFINE w == [Replay EXCEPT !.token = [who |-> Attacher, asks |-> {}, client |-> c]]
           u == [client[c] EXCEPT !.mark = emitted, !.flush = TRUE]
           p == IF shown THEN Put(u, w) ELSE client[c]
<1>1. /\ c \notin ToSet(arrived) /\ Spend("attach")
      /\ focus' = Append(focus, c) /\ arrived' = Append(arrived, c) /\ awaited' = NoClient
      /\ client' = [client EXCEPT ![c] = p]
      /\ UNCHANGED <<windowVars, job, results, queryVars, pauseVars>>
  <2>1. client' = [client EXCEPT ![c] =
          IF shown THEN Put([@ EXCEPT !.mark = emitted, !.flush = TRUE], w) ELSE @]
    BY DEF Attach
  <2>2. client' = [client EXCEPT ![c] = p]  BY <2>1 DEF Inv, ClientInv
  <2> HIDE DEF p
  <2> QED  BY <2>2 DEF Attach
<1>2. UNCHANGED <<redraws, shown, emitted, queries, reading, answered>>
  BY <1>1 DEF windowVars
<1>3. client[c] \in Holdings(c, queries) /\ client[c].mark <= emitted /\ emitted \in Nat
  BY DEF Inv, ClientInv, PlaceInv
<1>4. p \in Holdings(c, queries) /\ p.mark <= emitted /\ client[c].asked \subseteq p.asked
  <2>1. w \in Good(c, queries)
    <3>1. Replay \in Good(c, queries) /\ Replay.asks = {}  BY FrameGood DEF Inv
    <3> DEFINE k == [who |-> Attacher, asks |-> {}, client |-> c]
    <3>2. Attacher \in Nat  BY DEF OutputAssumption, Attacher
    <3>3. k \in Tokens(queries) /\ k.client = c /\ k.asks = {}  BY <3>2 DEF Tokens
    <3> HIDE DEF k
    <3>4. w = [Replay EXCEPT !.token = k]  BY DEF k
    <3> QED  BY <3>1, <3>3, <3>4 DEF Good
  <2>2. u = Marked(client[c], emitted, TRUE)  BY DEF Marked
  <2>3. MarkWell(c, queries, client[c], emitted, TRUE)  BY <1>3, MarkHolds
  <2>4. u \in Holdings(c, queries) /\ u.mark = emitted /\ u.asked = client[c].asked
    BY <2>2, <2>3 DEF MarkWell
  <2> HIDE DEF u, w
  <2>5. Put(u, w) \in Holdings(c, queries) /\ Grown(u, Put(u, w))  BY <2>1, <2>4, PutGrows
  <2>6. Put(u, w).mark <= emitted /\ client[c].asked \subseteq Put(u, w).asked
    BY <1>3, <2>4, <2>5 DEF Grown
  <2> QED  BY <1>3, <2>5, <2>6
<1> HIDE DEF p
<1>5. /\ ClientInv' /\ AskedGrows /\ \A d \in Clients \ {c} : client'[d] = client[d]
  BY <1>1, <1>2, <1>4, ClientSet DEF Inv
<1>6. Flushing' \in {Flushing, Flushing \cup {c}, Flushing \ {c}}
  BY <1>5 DEF Flushing
<1>7. /\ ResultInv' /\ JobInv' /\ ReadInv' /\ TimerInv' /\ QueryInv'
      /\ UNCHANGED <<pauses, paused, buffer>> /\ Found \subseteq Found' /\ queries' = queries
  BY <1>1, <1>2, <1>5, AsideKept
<1>8. budget' \in Budgets /\ Paid' = Paid - 1 /\ Paid' \in Nat  BY <1>1, SpentOn DEF Inv
<1>9. PlaceInv'
  <2>1. focus \in Seq(Clients) /\ Once(focus) /\ arrived \in Seq(Clients) /\ Registered \subseteq ToSet(arrived)
    BY DEF Inv, PlaceInv
  <2>2. c \notin ToSet(focus)  BY <1>1, <2>1 DEF Registered
  <2>3. /\ focus' \in Seq(Clients) /\ Registered' = Registered \cup {c} /\ Once(focus')
    BY <1>1, <2>1, <2>2, AppendOnce DEF Registered
  <2>4. arrived' \in Seq(Clients) /\ ToSet(arrived') = ToSet(arrived) \cup {c}
    BY <1>1, <2>1, AppendOnce
  <2> QED  BY <1>1, <1>2, <1>7, <1>8, <2>1, <2>3, <2>4 DEF Inv, PlaceInv, History
<1>10. BudgetInv'
  <2>1. Numbers  BY NumbersHold DEF Inv
  <2>2. Cardinality(Flushing') \in Nat /\ Cardinality(Flushing') <= Cardinality(Flushing) + 1
    <3>1. Cardinality(Flushing) \in Nat /\ Cardinality(Flushing \cup {c}) \in Nat
          /\ Cardinality(Flushing \cup {c}) <= Cardinality(Flushing) + 1
      BY FlushingCounts
    <3>2. CASE Flushing' = Flushing \/ Flushing' = Flushing \cup {c}
      <4>1. Cardinality(Flushing') = Cardinality(Flushing)
            \/ Cardinality(Flushing') = Cardinality(Flushing \cup {c})
        BY <3>2
      <4> QED  BY <3>1, <4>1
    <3>3. CASE Flushing' = Flushing \ {c}
      <4>1. CASE c \in Flushing
        <5>1. Cardinality(Flushing') = Cardinality(Flushing) - 1 /\ Cardinality(Flushing') \in Nat
          BY <3>3, <4>1, FlushingCounts
        <5> QED  BY <3>1, <5>1
      <4>2. CASE c \notin Flushing
        <5>1. Flushing' = Flushing  BY <3>3, <4>2
        <5>2. Cardinality(Flushing') = Cardinality(Flushing)  BY <5>1
        <5> QED  BY <3>1, <5>2
      <4> QED  BY <4>1, <4>2
    <3> QED  BY <1>6, <3>2, <3>3
  <2>3. Hidden' = Hidden /\ Owed' = 0  BY <1>1, <1>2 DEF Owed, Hidden
  <2>4. /\ Paid' \in Nat /\ Cardinality(Flushing') \in Nat /\ Owed' \in {0, 1} /\ Hidden' \in {0, 1}
        /\ Paid' + Cardinality(Flushing') + Owed' + Hidden'
             <= Paid + Cardinality(Flushing) + Owed + Hidden
    BY <1>8, <2>1, <2>2, <2>3 DEF Numbers
  <2>5. pauses' = pauses  BY <1>7
  <2> QED  BY <2>1, <2>4, <2>5, Exchanged DEF Inv
<1> QED  BY <1>5, <1>7, <1>9, <1>10 DEF Inv, StepWell

\* A timer belongs to a thread.
LEMMA TimersWrite ==
  ASSUME OutputAssumption, Inv
  PROVE  pauses <= MaxPauses /\ timers \subseteq Writers \ {Reader}
<1>1. pauses \in Nat /\ pauses <= MaxPauses /\ MaxPauses \in Nat
  <2>1. Numbers  BY NumbersHold DEF Inv
  <2> QED  BY <2>1 DEF Numbers, Inv, BudgetInv
<1>2. timers \subseteq 1 .. pauses  BY DEF Inv, TimerInv
<1> QED  BY <1>1, <1>2 DEF Writers, Reader

LEMMA ResumeKeeps ==
  ASSUME OutputAssumption, Inv, NEW g \in timers, Resume(g)
  PROVE  StepWell
<1> DEFINE first == IF ~shown THEN NoClient
                    ELSE IF buffer.primary \in Registered THEN buffer.primary ELSE Primary
           others == IF shown THEN Kept(Reverse(focus), Clients \ {first}) ELSE <<>>
           shows == [c \in Clients |-> History]
           cs == IF shown THEN Registered ELSE {}
           ends == paused /\ g = pauses
           asks == buffer.asks
<1>1. /\ timers' = timers \ {g}
      /\ UNCHANGED <<attachVars, windowVars, gates, results, queryVars, pauses, budget>>
      /\ (ends => paused' = FALSE /\ buffer' = NoBuffer)
      /\ (ends /\ asks # {} => Launch(g, first, others, shows, asks))
      /\ (ends /\ asks = {} => client' = PutTo(cs, Frame(History)) /\ UNCHANGED job)
      /\ (~ends => UNCHANGED <<client, job, paused, buffer>>)
  BY DEF Resume, ResumeWrites
<1>2. UNCHANGED <<focus, awaited, arrived, redraws, shown, emitted, queries, reading, missed, answered,
                  pending, inFlight, watches>>
  BY <1>1 DEF attachVars, windowVars, queryVars
<1>3. g \in Writers \ {Reader} /\ job[g] = NoJob
  BY TimersWrite DEF Inv, TimerInv
<1>4. asks \in SUBSET queries /\ buffer.primary \in Somebody  BY DEF Inv, PlaceInv
<1>5. others \in Seq(Clients)
  <2> HIDE DEF first
  <2>1. Kept(Reverse(focus), Clients \ {first}) \in Seq(Clients)  BY KnownClients DEF Inv
  <2>2. <<>> \in Seq(Clients)  OBVIOUS
  <2> QED  BY <2>1, <2>2
<1>6. first \in Somebody
  <2>1. Primary \in Somebody  BY KnownClients DEF Inv
  <2> QED  BY <1>4, <2>1 DEF Somebody
<1>7. History \in SUBSET Nat /\ shows \in [Clients -> SUBSET Nat]
  <2>1. History \in SUBSET Nat  BY DEF Inv, PlaceInv, History
  <2> QED  BY <2>1
<1> HIDE DEF first, others, shows, cs, ends, asks
<1> DEFINE Launches == \E j \in Jobs(queries) : job' = [job EXCEPT ![g] = j] /\ ~j.delivered /\ j.asks = asks
<1>8. /\ ClientInv' /\ AskedGrows /\ Flushing' = Flushing
      /\ \/ UNCHANGED <<job, buffer, paused>>
         \/ job' = job /\ buffer' = NoBuffer /\ paused' = FALSE /\ asks = {}
         \/ Launches /\ buffer' = NoBuffer /\ paused' = FALSE
  <2>1. CASE ~ends
    BY <1>1, <1>2, <2>1, ClientKept DEF Inv
  <2>2. CASE ends /\ asks # {}
    <3>1. LaunchWell(g, asks)
      BY <1>1, <1>2, <1>3, <1>4, <1>5, <1>6, <1>7, <2>2, Launched DEF Inv
    <3> QED  BY <1>1, <2>2, <3>1 DEF LaunchWell
  <2>3. CASE ends /\ asks = {}
    <3>1. client' = PutTo(cs, Frame(History))  BY <1>1, <2>3
    <3>2. ASSUME NEW c \in Clients
          PROVE  client'[c] \in Holdings(c, queries) /\ Grown(client[c], client'[c])
      <4>1. client[c] \in Holdings(c, queries)  BY DEF Inv, ClientInv
      <4>2. Frame(History) \in Good(c, queries)  BY <1>7, FrameGood DEF Inv
      <4>3. client'[c] \in {client[c], Put(client[c], Frame(History))}  BY <3>1 DEF PutTo
      <4>4. Grown(client[c], client[c])  BY DEF Grown
      <4> QED  BY <4>1, <4>2, <4>3, <4>4, PutGrows
    <3>3. client' = [c \in Clients |-> client'[c]]  BY <3>1 DEF PutTo
    <3> QED  BY <1>1, <1>2, <2>3, <3>2, <3>3, ClientsSet DEF Inv
  <2> QED  BY <2>1, <2>2, <2>3
<1>9. JobInv' /\ \A t \in Writers \ {g} : job'[t] = job[t]
  <2>1. CASE job' = job
    BY <1>2, <1>8, <2>1, JobKept DEF Inv
  <2>2. CASE Launches
    <3>1. PICK j \in Jobs(queries) : job' = [job EXCEPT ![g] = j] /\ ~j.delivered  BY <2>2
    <3>2. JobInv'  BY <1>2, <1>3, <1>8, <3>1, JobSet DEF Inv
    <3> QED  BY <3>1, <3>2 DEF Inv, JobInv
  <2> QED  BY <1>8, <2>1, <2>2
<1>10. ReadInv'
  <2>1. Reader \in Writers \ {g}  BY <1>3 DEF Writers
  <2> QED  BY <1>2, <1>9, <2>1 DEF Inv, ReadInv
<1>11. TimerInv'
  <2>1. pauses \in Nat /\ g \in 1 .. pauses  BY DEF Inv, TimerInv
  <2>2. \A t \in Writers : t \in timers' \/ t > pauses' => t # g /\ (t \in timers \/ t > pauses)
    BY <1>1, <2>1
  <2> QED  BY <1>1, <1>9, <2>2 DEF Inv, TimerInv
<1>12. NoBuffer \in [asks : SUBSET queries, primary : Somebody]  BY DEF NoBuffer, Somebody
<1>13. PlaceInv'  BY <1>1, <1>2, <1>8, <1>12 DEF Inv, PlaceInv, Registered, History
<1>14. ResultInv' /\ QueryInv' /\ BudgetInv'
  BY <1>1, <1>2, <1>8, ResultKept, QueryKept, BudgetKept DEF Inv
<1>15. buffer' = buffer \/ asks \subseteq job'[g].asks
  BY <1>3, <1>8 DEF Inv, JobInv
<1>16. \A t \in Writers : job[t].asks \subseteq Found'
  <2>1. job[g].asks = {}  BY <1>3, NoJobIs
  <2> QED  BY <1>9, <2>1, InFound
<1>17. buffer.asks \subseteq Found'  BY <1>3, <1>15, InFound DEF asks
<1>18. Found \subseteq Found'  BY <1>2, <1>8, <1>16, <1>17, InFound, FoundKept
<1> QED  BY <1>2, <1>8, <1>9, <1>10, <1>11, <1>13, <1>14, <1>18 DEF Inv, StepWell

(***************************************************************************)
(* New queries                                                             *)
(***************************************************************************)
LEMMA MoreQueries ==
  ASSUME NEW Q, NEW R, Q \subseteq R
  PROVE  /\ Tokens(Q) \subseteq Tokens(R) /\ \A c : Holdings(c, Q) \subseteq Holdings(c, R)
         /\ Jobs(Q) \subseteq Jobs(R) /\ Results(Q) \subseteq Results(R)
         /\ Watchings(Q) \subseteq Watchings(R) /\ Reads(Q) \subseteq Reads(R)
<1>1. Tokens(Q) \subseteq Tokens(R)  BY DEF Tokens
<1>2. Gates(Q) \subseteq Gates(R)  BY <1>1 DEF Gates
<1>3. \A c : Good(c, Q) \subseteq Good(c, R)  BY <1>1, <1>2 DEF Good
<1>4. ASSUME NEW c
      PROVE  Holdings(c, Q) \subseteq Holdings(c, R)
  <2>1. Seq(Good(c, Q)) \subseteq Seq(Good(c, R))  BY <1>3
  <2> QED  BY <1>3, <2>1 DEF Holdings
<1>5. Jobs(Q) \subseteq Jobs(R) /\ Reads(Q) \subseteq Reads(R)  BY DEF Jobs, Reads
<1>6. Results(Q) \subseteq Results(R) /\ Watchings(Q) \subseteq Watchings(R)
  BY <1>1 DEF Results, Watchings
<1> QED  BY <1>1, <1>4, <1>5, <1>6

LEMMA EmitKeeps ==
  ASSUME OutputAssumption, Inv, Emit
  PROVE  StepWell
<1> DEFINE n == emitted + 1
           asks == IF budget.asking[n] THEN {n} ELSE {}
<1>1. /\ n <= Len(budget.asking) /\ reading = NoRead /\ job[Reader] = NoJob
      /\ emitted' = n /\ queries' = queries \cup asks
      /\ (Watched /\ ~paused =>
            reading' = [chunk |-> n, asks |-> asks, primary |-> Primary, latest |-> Len(arrived)])
      /\ (~(Watched /\ ~paused) => reading' = reading)
      /\ (Watched /\ paused => buffer' = [buffer EXCEPT !.asks = buffer.asks \cup asks])
      /\ (~(Watched /\ paused) => buffer' = buffer)
      /\ (Watched => UNCHANGED <<pending, missed, answered>>)
      /\ (~Watched => \/ /\ pending' \in {pending, pending \cup asks} /\ missed \subseteq missed'
                         /\ asks \subseteq pending' \cup missed' /\ UNCHANGED answered
                      \/ asks # {} /\ answered' = answered \cup asks /\ UNCHANGED <<pending, missed>>)
      /\ UNCHANGED <<client, attachVars, redraws, shown, job, gates, results, inFlight,
                     watches, paused, pauses, timers, budget>>
  BY DEF Emit, Store, Stored
<1>2. UNCHANGED <<focus, awaited, arrived>>  BY <1>1 DEF attachVars
<1>3. emitted \in Nat /\ n \in Nat /\ asks \in SUBSET {n} /\ queries \subseteq 1 .. emitted
  BY DEF Inv, PlaceInv, History
<1> HIDE DEF asks, n
<1>4. queries \subseteq queries' /\ emitted <= emitted' /\ emitted' \in Nat /\ queries' \subseteq 1 .. emitted'
  BY <1>1, <1>3 DEF n
<1>5. /\ \A c : Holdings(c, queries) \subseteq Holdings(c, queries')
      /\ Jobs(queries) \subseteq Jobs(queries') /\ Results(queries) \subseteq Results(queries')
      /\ Watchings(queries) \subseteq Watchings(queries') /\ Reads(queries) \subseteq Reads(queries')
  BY <1>4, MoreQueries
<1>6. ClientInv' /\ AskedGrows /\ Flushing' = Flushing /\ AllAsked' = AllAsked
  <2>1. \A c \in Clients : client'[c] \in Holdings(c, queries') /\ client'[c].mark <= emitted'
    <3> TAKE c \in Clients
    <3>1. client[c] \in Holdings(c, queries) /\ client[c].mark <= emitted  BY DEF Inv, ClientInv
    <3>2. client[c].mark \in Nat  BY <3>1 DEF Holdings
    <3>3. client[c].mark <= emitted'  BY <1>3, <1>4, <3>1, <3>2
    <3> QED  BY <1>1, <1>5, <3>1, <3>3
  <2> QED  BY <1>1, <2>1 DEF Inv, ClientInv, AskedGrows, Flushing, AllAsked
<1>7. ResultInv'  BY <1>1, <1>5 DEF Inv, ResultInv
<1>8. JobInv'  BY <1>1, <1>5, <1>6 DEF Inv, JobInv
<1>9. ReadInv'
  <2>1. CASE Watched /\ ~paused
    <3>1. Primary \in Somebody /\ Len(arrived) \in Nat  BY KnownClients DEF Inv, PlaceInv
    <3>2. reading' = [chunk |-> n, asks |-> asks, primary |-> Primary, latest |-> Len(arrived)]
      BY <1>1, <2>1
    <3>3. asks \subseteq queries'  BY <1>1
    <3> QED  BY <1>1, <1>3, <3>1, <3>2, <3>3 DEF ReadInv, Reads
  <2>2. CASE ~(Watched /\ ~paused)
    BY <1>1, <1>5, <2>2 DEF Inv, ReadInv
  <2> QED  BY <2>1, <2>2
<1>10. TimerInv'  BY <1>1, TimerKept DEF Inv
<1>11. QueryInv'
  <2>1. pending' \subseteq queries' /\ inFlight' \subseteq queries'
    BY <1>1, <1>4 DEF Inv, QueryInv
  <2>2. watches' \subseteq Watchings(queries')  BY <1>1, <1>5 DEF Inv, QueryInv
  <2> QED  BY <1>1, <2>1, <2>2 DEF Inv, QueryInv
<1>12. /\ buffer' \in [asks : SUBSET queries', primary : Somebody] /\ buffer.asks \subseteq buffer'.asks
       /\ (Watched /\ paused => asks \subseteq buffer'.asks)
  <2>1. buffer \in [asks : SUBSET queries, primary : Somebody]  BY DEF Inv, PlaceInv
  <2>2. CASE Watched /\ paused
    <3>1. buffer' = [buffer EXCEPT !.asks = buffer.asks \cup asks]  BY <1>1, <2>2
    <3>2. buffer.asks \cup asks \subseteq queries'  BY <1>1, <1>4, <2>1
    <3> QED  BY <2>1, <3>1, <3>2
  <2>3. CASE ~(Watched /\ paused)
    BY <1>1, <1>4, <2>1, <2>3
  <2> QED  BY <2>2, <2>3
<1>13. PlaceInv'  BY <1>1, <1>2, <1>4, <1>12 DEF Inv, PlaceInv, Registered, History
<1>14. BudgetInv'  BY <1>1, <1>2, <1>6, BudgetKept DEF Inv
<1>15. /\ pending \subseteq pending' /\ missed \subseteq missed' /\ answered \subseteq answered'
       /\ reading.asks = {}
  BY <1>1 DEF NoRead
<1>16. asks \subseteq pending' \cup missed' \cup answered' \cup buffer'.asks \cup reading'.asks
  BY <1>1, <1>12
<1>17. Found \subseteq Found'  BY <1>1, <1>6, <1>12, <1>15, InFound, FoundKept
<1>18. queries' \subseteq queries \cup Found'  BY <1>1, <1>16, InFound
<1> QED  BY <1>6, <1>7, <1>8, <1>9, <1>10, <1>11, <1>13, <1>14, <1>17, <1>18 DEF Inv, StepWell

(***************************************************************************)
(* The invariant holds                                                     *)
(***************************************************************************)
LEMMA InitInv ==
  ASSUME OutputAssumption, Init
  PROVE  Inv
<1>1. PICK s \in Scenarios :
        /\ budget = s /\ redraws = s.redraws /\ shown = TRUE
        /\ client = [c \in Clients |-> Away] /\ awaited = NoClient
        /\ focus = [i \in 1 .. s.attached |-> i] /\ arrived = focus
        /\ emitted = 0 /\ queries = {} /\ reading = NoRead
        /\ job = [t \in Writers |-> NoJob] /\ results = {}
        /\ pending = {} /\ inFlight = {} /\ watches = {}
        /\ paused = FALSE /\ buffer = NoBuffer /\ pauses = 0 /\ timers = {}
  BY DEF Init
<1>2. /\ s \in [attached : 0 .. Cardinality(Clients), asking : Seq(BOOLEAN), redraws : BOOLEAN,
                attach : Nat, focus : Nat, switch : Nat, pause : Nat, lose : Nat]
      /\ s.attach + s.focus + s.pause + s.switch <= MaxPauses
      /\ IsFiniteSet(Clients) /\ Clients = 1 .. Cardinality(Clients) /\ MaxPauses \in Nat
  BY DEF OutputAssumption
<1>3. ClientInv /\ Flushing = {}
  <2>1. ASSUME NEW c \in Clients
        PROVE  Away \in Holdings(c, {}) /\ Away.mark <= 0 /\ Away.flush = FALSE
    <3>1. NoWrite \in Good(c, {}) /\ QueueLimit \in Nat /\ NoWrite.size = 0
      BY NoWriteGood DEF NoWrite
    <3>2. Bytes(<<>>) = 0 /\ <<>> \in Seq(Good(c, {}))  BY BytesOfNone
    <3>3. Away.queue = <<>> /\ Away.bytes = 0 /\ Away.held = NoWrite /\ Away.mark = 0 /\ Away.flush = FALSE
      BY DEF Away
    <3>4. Exact(Away)  BY <3>1, <3>2, <3>3 DEF Exact
    <3>5. Away \in [queue : Seq(Good(c, {})), bytes : Nat, open : BOOLEAN, held : Good(c, {}),
                    gone : BOOLEAN, mark : Nat, flush : BOOLEAN, saw : SUBSET Nat, asked : SUBSET {}]
      BY <3>1, <3>2 DEF Away
    <3> QED  BY <3>3, <3>4, <3>5 DEF Holdings
  <2> QED  BY <1>1, <2>1 DEF ClientInv, Flushing
<1>4. ResultInv  BY <1>1 DEF ResultInv
<1>5. JobInv  BY <1>1, NoJobIs DEF JobInv
<1>6. ReadInv
  <2>1. NoRead \in Reads({})  BY DEF NoRead, Reads, Somebody
  <2> QED  BY <1>1, <2>1 DEF ReadInv
<1>7. TimerInv  BY <1>1 DEF TimerInv
<1>8. QueryInv  BY <1>1 DEF QueryInv
<1>9. PlaceInv
  <2>1. Cardinality(Clients) \in Nat  BY <1>2, FS_CardinalityType
  <2>2. s.attached \in Nat /\ 1 .. s.attached \subseteq Clients
    <3>1. s.attached \in 0 .. Cardinality(Clients)  BY <1>2
    <3>2. s.attached \in Nat /\ s.attached <= Cardinality(Clients)  BY <2>1, <3>1
    <3>3. 1 .. s.attached \subseteq 1 .. Cardinality(Clients)  BY <2>1, <3>2
    <3> QED  BY <1>2, <3>2, <3>3
  <2>3. focus \in Seq(Clients) /\ Once(focus)
    <3>1. \A i \in 1 .. s.attached : i \in Clients  BY <2>2
    <3>2. focus = [i \in 1 .. s.attached |-> i]  BY <1>1
    <3>3. focus \in [1 .. s.attached -> Clients]  BY <3>1, <3>2
    <3>4. focus \in Seq(Clients)
      <4> DEFINE n == s.attached
      <4>1. n \in Nat /\ focus \in [1 .. n -> Clients]  BY <2>2, <3>3
      <4> HIDE DEF n
      <4> QED  BY <4>1
    <3> QED  BY <3>2, <3>4 DEF Once
  <2>4. budget \in Budgets
    <3>1. 0 .. Cardinality(Clients) \subseteq Nat  BY <2>1
    <3> QED  BY <1>1, <1>2, <3>1 DEF Budgets
  <2>5. NoBuffer \in [asks : SUBSET {}, primary : Somebody]  BY DEF NoBuffer, Somebody
  <2>6. s.redraws \in BOOLEAN  BY <1>2
  <2> QED  BY <1>1, <2>3, <2>4, <2>5, <2>6 DEF PlaceInv, Registered, History
<1>10. BudgetInv
  <2>1. Cardinality(Flushing) = 0  BY <1>3, FS_EmptySet
  <2>2. Owed = 0 /\ Hidden = 0 /\ pauses = 0  BY <1>1 DEF Owed, Hidden
  <2>3. Paid = s.attach + s.focus + s.pause + s.switch  BY <1>1 DEF Paid
  <2>4. s.attach \in Nat /\ s.focus \in Nat /\ s.pause \in Nat /\ s.switch \in Nat  BY <1>2
  <2> QED  BY <1>2, <2>1, <2>2, <2>3, <2>4 DEF BudgetInv
<1> QED  BY <1>3, <1>4, <1>5, <1>6, <1>7, <1>8, <1>9, <1>10 DEF Inv

LEMMA UnchangedKeeps ==
  ASSUME OutputAssumption, Inv, UNCHANGED vars
  PROVE  StepWell
<1>1. UNCHANGED <<client, focus, awaited, arrived, redraws, shown, emitted, queries, reading, missed,
                  answered, job, gates, results, pending, inFlight, watches, paused, buffer, pauses,
                  timers, budget>>
  BY DEF vars, attachVars, windowVars, queryVars, pauseVars
<1>2. ClientInv' /\ AskedGrows /\ Flushing' = Flushing  BY <1>1, ClientKept DEF Inv
<1>3. ResultInv' /\ JobInv' /\ ReadInv' /\ TimerInv' /\ QueryInv' /\ PlaceInv' /\ BudgetInv'
  BY <1>1, <1>2, ResultKept, JobKept, ReadKept, TimerKept, QueryKept, PlaceKept, BudgetKept DEF Inv
<1>4. Found \subseteq Found'  BY <1>1, <1>2, InFound, FoundKept
<1> QED  BY <1>1, <1>2, <1>3, <1>4 DEF Inv, StepWell

LEMMA NextWell ==
  ASSUME OutputAssumption, Inv, [Next]_vars
  PROVE  StepWell
<1>1. CASE Outside
  <2>1. CASE Emit  BY <2>1, EmitKeeps
  <2>2. CASE \E c \in Clients : Attach(c) \/ CloseClient(c) \/ Focus(c) \/ Leave(c)
    BY <2>2, AttachKeeps, CloseClientKeeps, FocusKeeps, LeaveKeeps
  <2>3. CASE Pause  BY <2>3, PauseKeeps
  <2>4. CASE Hide   BY <2>4, HideKeeps
  <2>5. CASE Show   BY <2>5, ShowKeeps
  <2> QED  BY <1>1, <2>1, <2>2, <2>3, <2>4, <2>5 DEF Outside
<1>2. CASE ServerStep
  <2>1. CASE WriteOutput    BY <2>1, WriteOutputKeeps
  <2>2. CASE ReplayFocused  BY <2>2, ReplayFocusedKeeps
  <2>3. CASE \E w \in watches : QuerySent(w) \/ QueryFailed(w)
    BY <2>3, QuerySentKeeps, QueryFailedKeeps
  <2>4. CASE \E t \in Writers :
               AwaitPrimary(t) \/ PassFallback(t) \/ TryFallback(t) \/ AwaitFallback(t) \/ EndJob(t)
    BY <2>4, AwaitPrimaryKeeps, PassFallbackKeeps, TryFallbackKeeps, AwaitFallbackKeeps, EndJobKeeps
  <2>5. CASE \E g \in timers : Resume(g)  BY <2>5, ResumeKeeps
  <2> QED  BY <1>2, <2>1, <2>2, <2>3, <2>4, <2>5 DEF ServerStep
<1>3. CASE \E c \in Clients : ClientStep(c)
  <2> SUFFICES ASSUME NEW c \in Clients, ClientStep(c) PROVE StepWell
    BY <1>3
  <2> QED  BY TakeWriteKeeps, SkipWriteKeeps, DeliverWriteKeeps, FailWriteKeeps, FailQueuedKeeps,
              FlushAttachedKeeps DEF ClientStep
<1>4. CASE UNCHANGED vars  BY <1>4, UnchangedKeeps
<1> QED  BY <1>1, <1>2, <1>3, <1>4 DEF Next

LEMMA InvTypes ==
  ASSUME OutputAssumption, Inv
  PROVE  OutputTypes
<1>1. ASSUME NEW c \in Clients
      PROVE  LET r == client[c] IN
             /\ r.bytes = r.held.size + Bytes(r.queue) /\ r.bytes <= QueueLimit
             /\ r.mark \in 0 .. emitted /\ r.asked \subseteq queries
  <2> DEFINE r == client[c]
  <2>1. r \in Holdings(c, queries) /\ r.mark <= emitted /\ emitted \in Nat
    BY DEF Inv, ClientInv, PlaceInv
  <2> HIDE DEF r
  <2>2. /\ r.bytes = r.held.size + Bytes(r.queue) /\ r.bytes <= QueueLimit
        /\ r.mark \in Nat /\ r.asked \subseteq queries
    BY <2>1, HoldingParts
  <2> QED  BY <2>1, <2>2 DEF r
<1>2. Registered \subseteq ToSet(arrived) /\ awaited \in Registered \cup {NoClient}
  BY DEF Inv, PlaceInv
<1>3. timers \subseteq 1 .. pauses /\ inFlight \subseteq queries  BY DEF Inv, TimerInv, QueryInv
<1>4. pauses <= MaxPauses  BY TimersWrite
<1>5. \A t \in Writers : job[t].gated \subseteq Clients  BY JobParts
<1> QED  BY <1>1, <1>2, <1>3, <1>4, <1>5 DEF OutputTypes

(***************************************************************************)
(* The theorems                                                            *)
(***************************************************************************)
\* The state stays one the code can be in: a client's queuedBytes is the size
\* of what is queued or being written and within the limit, its mark is a part
\* of the output, it was asked nothing that no program asked; and no redraw
\* begins beyond those the events of the scenario pay for.
THEOREM TypesHold == Spec => []OutputTypes
<1> USE OutputAssumption
<1>1. Init => Inv  BY InitInv
<1>2. Inv /\ [Next]_vars => Inv'  BY NextWell DEF StepWell
<1>3. Inv => OutputTypes  BY InvTypes
<1> QED  BY <1>1, <1>2, <1>3, PTL DEF Spec

\* A terminal query is never lost, however clients come, go and fail: it was
\* written to a client, answered by the server, dropped with its window or for
\* want of room, or is stored, held by a thread that will pass it on or watched
\* by one.
THEOREM QueriesNotLost == Spec => []NotLost
<1> USE OutputAssumption
<1>1. Init => Inv /\ NotLost
  <2>1. Init => queries = {}  BY DEF Init
  <2> QED  BY <2>1, InitInv DEF NotLost
<1>2. Inv /\ NotLost /\ [Next]_vars => Inv' /\ NotLost'
  <2> SUFFICES ASSUME Inv, NotLost, [Next]_vars PROVE Inv' /\ NotLost'
    OBVIOUS
  <2>1. Inv' /\ Found \subseteq Found' /\ queries' \subseteq queries \cup Found'
    BY NextWell DEF StepWell
  <2>2. queries \subseteq Found  BY DEF NotLost, Found, AllAsked
  <2>3. queries' \subseteq Found'  BY <2>1, <2>2
  <2> QED  BY <2>1, <2>3 DEF NotLost, Found, AllAsked
<1> QED  BY <1>1, <1>2, PTL DEF Spec

(***************************************************************************)
(* The writes of a client that ask                                         *)
(***************************************************************************)
\* Those in queue q and in hand h.
Askers(q, h) == {w \in ToSet(q) \cup {h} : w.asks # {}}
Carries(r)   == Askers(r.queue, r.held)

\* Each is waited for by its asks, and no two have one token.
Tidy(q, h) ==
  /\ \A w \in ToSet(q) \cup {h} : w.token.asks = w.asks
  /\ \A i, j \in DOMAIN q : q[i].asks # {} /\ q[i].token = q[j].token => i = j
  /\ h.asks # {} => \A i \in DOMAIN q : q[i].token # h.token
Tidied(r) == Tidy(r.queue, r.held)

AppendParts(q, j) ==
  /\ DOMAIN q = 1 .. Len(q) /\ DOMAIN Append(q, j) = 1 .. (Len(q) + 1) /\ Len(q) \in Nat
  /\ \A i \in 1 .. Len(q) : Append(q, j)[i] = q[i]
  /\ Append(q, j)[Len(q) + 1] = j
  /\ ToSet(Append(q, j)) = ToSet(q) \cup {j}

LEMMA AppendIs ==
  ASSUME NEW W, NEW q \in Seq(W), NEW j \in W
  PROVE  AppendParts(q, j)
<1>1. /\ DOMAIN q = 1 .. Len(q) /\ DOMAIN Append(q, j) = 1 .. (Len(q) + 1) /\ Len(q) \in Nat
      /\ \A i \in 1 .. Len(q) : Append(q, j)[i] = q[i]
      /\ Append(q, j)[Len(q) + 1] = j
  OBVIOUS
<1> DEFINE p == Append(q, j)
<1> HIDE DEF p
<1>2. ToSet(p) = ToSet(q) \cup {j}
  <2>1. \A x \in ToSet(p) : x \in ToSet(q) \cup {j}
    <3> SUFFICES ASSUME NEW i \in DOMAIN p PROVE p[i] \in ToSet(q) \cup {j}
      BY DEF ToSet
    <3>1. i \in 1 .. Len(q) \/ i = Len(q) + 1  BY <1>1 DEF p
    <3> QED  BY <1>1, <3>1 DEF p, ToSet
  <2>2. \A i \in DOMAIN q : q[i] \in ToSet(p)
    <3> SUFFICES ASSUME NEW i \in DOMAIN q PROVE q[i] \in ToSet(p)
      OBVIOUS
    <3>1. i \in DOMAIN p /\ p[i] = q[i]  BY <1>1 DEF p
    <3> QED  BY <3>1 DEF ToSet
  <2>3. j \in ToSet(p)
    <3>1. Len(q) + 1 \in DOMAIN p /\ p[Len(q) + 1] = j  BY <1>1 DEF p
    <3> QED  BY <3>1 DEF ToSet
  <2> QED  BY <2>1, <2>2, <2>3 DEF ToSet
<1> QED  BY <1>1, <1>2 DEF AppendParts, p

\* A write is put at the end of a queue ...
LEMMA TidyLonger ==
  ASSUME NEW W, NEW q \in Seq(W), NEW j \in W, NEW h, Tidy(q, h), j.token.asks = j.asks,
         j.asks # {} => \A v \in Askers(q, h) : v.token # j.token
  PROVE  /\ Tidy(Append(q, j), h)
         /\ Askers(Append(q, j), h) = Askers(q, h) \cup {x \in {j} : j.asks # {}}
<1> DEFINE p == Append(q, j)
           n == Len(q) + 1
<1>1. AppendParts(q, j)  BY AppendIs
<1>2. /\ DOMAIN q = 1 .. Len(q) /\ DOMAIN p = 1 .. n /\ n \in Nat /\ n = Len(q) + 1 /\ Len(q) \in Nat
      /\ \A i \in 1 .. Len(q) : p[i] = q[i]
      /\ p[n] = j /\ ToSet(p) = ToSet(q) \cup {j}
  BY <1>1 DEF AppendParts
<1> HIDE DEF p, n
<1>3. \A w \in ToSet(p) \cup {h} : w.token.asks = w.asks  BY <1>2 DEF Tidy
\* The new one differs from each asking one, and it from each if it asks.
<1>4. ASSUME NEW i \in 1 .. Len(q), q[i].token = j.token
      PROVE  q[i].asks = {} /\ j.asks = {}
  <2>1. q[i] \in ToSet(q)  BY <1>2 DEF ToSet
  <2>2. q[i].asks = j.asks  BY <1>4, <2>1 DEF Tidy
  <2>3. j.asks # {} => q[i] \in Askers(q, h)  BY <2>1, <2>2 DEF Askers
  <2> QED  BY <1>4, <2>2, <2>3
<1>5. ASSUME NEW i \in DOMAIN p, NEW k \in DOMAIN p, p[i].asks # {}, p[i].token = p[k].token
      PROVE  i = k
  <2>1. (i \in 1 .. Len(q) \/ i = n) /\ (k \in 1 .. Len(q) \/ k = n)  BY <1>2
  <2>2. CASE i \in 1 .. Len(q) /\ k \in 1 .. Len(q)
    BY <1>2, <1>5, <2>2 DEF Tidy
  <2>3. CASE i \in 1 .. Len(q) /\ k = n
    BY <1>2, <1>4, <1>5, <2>3
  <2>4. CASE i = n /\ k \in 1 .. Len(q)
    BY <1>2, <1>4, <1>5, <2>4
  <2> QED  BY <2>1, <2>2, <2>3, <2>4
<1>6. ASSUME h.asks # {}, NEW i \in DOMAIN p
      PROVE  p[i].token # h.token
  <2>1. CASE i \in 1 .. Len(q)
    BY <1>2, <1>6, <2>1 DEF Tidy
  <2>2. CASE i = n
    <3>1. h \in Askers(q, h) /\ h.token.asks = h.asks  BY <1>6 DEF Askers, Tidy
    <3>2. j.token = h.token => j.asks # {}  BY <1>6, <3>1
    <3> QED  BY <1>2, <2>2, <3>1, <3>2
  <2> QED  BY <1>2, <2>1, <2>2
<1>7. Tidy(p, h)  BY <1>3, <1>5, <1>6 DEF Tidy
<1>8. Askers(p, h) = Askers(q, h) \cup {x \in {j} : j.asks # {}}  BY <1>2 DEF Askers
<1> QED  BY <1>7, <1>8 DEF p

\* ... or one taken from there.
LEMMA TidyShorter ==
  ASSUME NEW W, NEW q \in Seq(W), NEW j \in W, NEW h, Tidy(Append(q, j), h)
  PROVE  /\ Tidy(q, h)
         /\ Askers(Append(q, j), h) = Askers(q, h) \cup {x \in {j} : j.asks # {}}
<1> DEFINE p == Append(q, j)
<1>1. AppendParts(q, j)  BY AppendIs
<1>2. /\ DOMAIN q \subseteq DOMAIN p /\ \A i \in DOMAIN q : p[i] = q[i]
      /\ ToSet(p) = ToSet(q) \cup {j}
  BY <1>1 DEF AppendParts
<1> HIDE DEF p
<1>3. Tidy(p, h)  BY DEF p
<1>4. Tidy(q, h)
  <2>1. \A w \in ToSet(q) \cup {h} : w.token.asks = w.asks  BY <1>2, <1>3 DEF Tidy
  <2>2. \A i, k \in DOMAIN q : q[i].asks # {} /\ q[i].token = q[k].token => i = k
    BY <1>2, <1>3 DEF Tidy
  <2>3. h.asks # {} => \A i \in DOMAIN q : q[i].token # h.token  BY <1>2, <1>3 DEF Tidy
  <2> QED  BY <2>1, <2>2, <2>3 DEF Tidy
<1>5. Askers(p, h) = Askers(q, h) \cup {x \in {j} : j.asks # {}}  BY <1>2 DEF Askers
<1> QED  BY <1>4, <1>5 DEF p

LEMMA TidyAppended ==
  ASSUME OutputAssumption, NEW c \in Clients, NEW Q, NEW q \in Seq(Good(c, Q)), NEW w \in Good(c, Q),
         NEW h, Tidy(q, h), w.token.asks = w.asks,
         w.asks # {} => \A v \in Askers(q, h) : v.token # w.token
  PROVE  /\ Tidy(Appended(q, w), h)
         /\ Askers(Appended(q, w), h) = Askers(q, h) \cup {x \in {w} : w.asks # {}}
<1>1. CASE q # <<>> /\ Plain(w) /\ Plain(Last(q)) /\ Last(q).size + w.size <= ChunkLimit
  <2> DEFINE b == Front(q)
             v == Last(q)
             j == Joined(v, w)
             W == [shows : SUBSET Nat, asks : SUBSET Q, size : Nat, token : Tokens(Q), gate : Gates(Q)]
  <2>1. b \in Seq(Good(c, Q)) /\ v \in Good(c, Q) /\ q = Append(b, v)  BY <1>1, FrontAndLast
  <2>2. Appended(q, w) = Append(b, j)  BY <1>1 DEF Appended
  <2>3. v.token = NoToken /\ v.asks = {} /\ w.asks = {}  BY <1>1 DEF Plain
  <2> HIDE DEF b, v
  <2>4. v \in W /\ w \in W  BY <2>1 DEF Good
  <2>5. j.token = NoToken /\ j.asks = {} /\ j \in W
    <3>1. v.shows \cup w.shows \in SUBSET Nat /\ v.size + w.size \in Nat  BY <2>4
    <3>2. j = [v EXCEPT !.shows = v.shows \cup w.shows, !.size = v.size + w.size]  BY DEF Joined
    <3> QED  BY <2>3, <2>4, <3>1, <3>2
  <2> HIDE DEF j
  <2>6. Tidy(b, h) /\ Askers(q, h) = Askers(b, h)
    <3>1. Tidy(Append(b, v), h)  BY <2>1
    <3>2. Tidy(b, h) /\ Askers(Append(b, v), h) = Askers(b, h) \cup {x \in {v} : v.asks # {}}
      BY <2>1, <3>1, TidyShorter
    <3> QED  BY <2>1, <2>3, <3>2
  <2>7. j.token.asks = j.asks  BY <2>5 DEF NoToken
  <2>8. b \in Seq(W)
    <3>1. Good(c, Q) \subseteq W  BY DEF Good
    <3> HIDE DEF W
    <3> QED  BY <2>1, <3>1
  <2> HIDE DEF W
  <2>9. /\ Tidy(Append(b, j), h)
        /\ Askers(Append(b, j), h) = Askers(b, h) \cup {x \in {j} : j.asks # {}}
    <3>1. j \in W /\ Tidy(b, h) /\ (j.asks # {} => \A x \in Askers(b, h) : x.token # j.token)
      BY <2>5, <2>6
    <3> QED  BY <2>7, <2>8, <3>1, TidyLonger
  <2> QED  BY <2>2, <2>3, <2>5, <2>6, <2>9
<1>2. CASE ~(q # <<>> /\ Plain(w) /\ Plain(Last(q)) /\ Last(q).size + w.size <= ChunkLimit)
  <2>1. Appended(q, w) = Append(q, w)  BY <1>2 DEF Appended
  <2> QED  BY <2>1, TidyLonger
<1> QED  BY <1>1, <1>2

\* Whatever is put into r, at most w is new among what asks, and only if it fits.
PutsTidily(r, w) ==
  /\ Tidied(Put(r, w))
  /\ Carries(Put(r, w)) \subseteq Carries(r) \cup {x \in {w} : w.asks # {} /\ Fits(r, w)}

LEMMA PutTidy ==
  ASSUME OutputAssumption, NEW c \in Clients, NEW Q, NEW r \in Holdings(c, Q), NEW w \in Good(c, Q),
         Tidied(r), w.token.asks = w.asks,
         w.asks # {} => \A v \in Carries(r) : v.token # w.token
  PROVE  PutsTidily(r, w)
<1> DEFINE p == Put(r, w)
<1>1. PutWell(c, Q, r, w)
  <2>1. w.size \in Nat  BY DEF Good
  <2> QED  BY <2>1, PutHolds
<1>2. /\ p.held = r.held
      /\ (p.queue = Appended(r.queue, w) /\ Fits(r, w)) \/ p.queue = r.queue
  BY <1>1 DEF PutWell, Grown
<1>3. r.queue \in Seq(Good(c, Q))  BY HoldingParts
<1>4. /\ Tidy(Appended(r.queue, w), r.held)
      /\ Askers(Appended(r.queue, w), r.held)
           = Askers(r.queue, r.held) \cup {x \in {w} : w.asks # {}}
  BY <1>3, TidyAppended DEF Tidied, Carries
<1> HIDE DEF p
<1>5. Tidied(p)  BY <1>2, <1>4 DEF Tidied
<1>6. Carries(p) \subseteq Carries(r) \cup {x \in {w} : w.asks # {} /\ Fits(r, w)}
  BY <1>2, <1>4 DEF Carries
<1> QED  BY <1>5, <1>6 DEF PutsTidily, p

\* The first write of a queue comes into an empty hand.
LEMMA TakeTidy ==
  ASSUME NEW W, NEW q \in Seq(W), q # <<>>, NoWrite \in W, Tidy(q, NoWrite)
  PROVE  Tidy(Tail(q), Head(q)) /\ Askers(Tail(q), Head(q)) = Askers(q, NoWrite)
<1> DEFINE t == Tail(q)
           h == Head(q)
<1>1. /\ Len(q) \in Nat \ {0} /\ DOMAIN q = 1 .. Len(q) /\ DOMAIN t = 1 .. (Len(q) - 1)
      /\ h = q[1] /\ \A i \in 1 .. (Len(q) - 1) : t[i] = q[i + 1]
  OBVIOUS
<1>2. NoWrite.asks = {}  BY DEF NoWrite
<1> HIDE DEF t, h
<1>3. ToSet(q) = ToSet(t) \cup {h}
  <2>1. \A i \in DOMAIN q : q[i] \in ToSet(t) \cup {h}
    <3> SUFFICES ASSUME NEW i \in DOMAIN q PROVE q[i] \in ToSet(t) \cup {h}
      OBVIOUS
    <3>1. CASE i = 1
      BY <1>1, <3>1
    <3>2. CASE i # 1
      <4>1. i - 1 \in 1 .. (Len(q) - 1) /\ (i - 1) + 1 = i  BY <1>1, <3>2
      <4>2. i - 1 \in DOMAIN t /\ t[i - 1] = q[i]  BY <1>1, <4>1
      <4> QED  BY <4>2 DEF ToSet
    <3> QED  BY <3>1, <3>2
  <2>2. \A i \in DOMAIN t : i + 1 \in DOMAIN q /\ t[i] = q[i + 1]  BY <1>1
  <2>3. 1 \in DOMAIN q  BY <1>1
  <2>4. ToSet(t) \subseteq ToSet(q)  BY <2>2 DEF ToSet
  <2>5. h \in ToSet(q)  BY <1>1, <2>3 DEF ToSet
  <2>6. ToSet(q) \subseteq ToSet(t) \cup {h}  BY <2>1 DEF ToSet
  <2> QED  BY <2>4, <2>5, <2>6
<1>4. Askers(t, h) = Askers(q, NoWrite)  BY <1>2, <1>3 DEF Askers
<1>5. \A w \in ToSet(t) \cup {h} : w.token.asks = w.asks  BY <1>3 DEF Tidy
<1>6. ASSUME NEW i \in DOMAIN t, NEW k \in DOMAIN t, t[i].asks # {}, t[i].token = t[k].token
      PROVE  i = k
  <2>1. i + 1 \in DOMAIN q /\ k + 1 \in DOMAIN q /\ t[i] = q[i + 1] /\ t[k] = q[k + 1]
    BY <1>1
  <2>2. i + 1 = k + 1  BY <1>6, <2>1 DEF Tidy
  <2> QED  BY <1>1, <2>2
<1>7. ASSUME h.asks # {}, NEW i \in DOMAIN t
      PROVE  t[i].token # h.token
  <2>1. i + 1 \in DOMAIN q /\ 1 \in DOMAIN q /\ i + 1 # 1 /\ t[i] = q[i + 1]  BY <1>1
  <2> QED  BY <1>1, <1>7, <2>1 DEF Tidy
<1>8. Tidy(t, h)  BY <1>5, <1>6, <1>7 DEF Tidy
<1> QED  BY <1>4, <1>8 DEF t, h

\* The hand is emptied, or the queue.
LEMMA ReturnTidy ==
  ASSUME NEW q, NEW h, Tidy(q, h)
  PROVE  Tidy(q, NoWrite) /\ Askers(q, NoWrite) = Askers(q, h) \ {h}
<1>1. NoWrite.asks = {} /\ NoWrite.token.asks = {}  BY DEF NoWrite, NoToken
<1>2. Tidy(q, NoWrite)  BY <1>1 DEF Tidy
<1>3. h.asks # {} => h \notin ToSet(q)  BY DEF Tidy, ToSet
<1>4. Askers(q, NoWrite) = Askers(q, h) \ {h}  BY <1>1, <1>3 DEF Askers
<1> QED  BY <1>2, <1>4

LEMMA NothingTidy == Tidy(<<>>, NoWrite) /\ Askers(<<>>, NoWrite) = {}
<1>1. NoWrite.asks = {} /\ NoWrite.token.asks = {}  BY DEF NoWrite, NoToken
<1>2. ToSet(<<>>) = {} /\ DOMAIN <<>> = {}  BY DEF ToSet
<1> QED  BY <1>1, <1>2 DEF Tidy, Askers

(***************************************************************************)
(* Who asks, and who waits for it                                          *)
(***************************************************************************)
Outgoing == UNION {Carries(client[c]) : c \in Clients}
Told     == {r \in results : r.token.asks # {}}
Known    == {w.token : w \in Outgoing} \cup {r.token : r \in Told} \cup {g.gate.token : g \in gates}
Unsent   == pending \cup buffer.asks \cup reading.asks
Armed(w) == w.gate = NoGate \/ [gate |-> w.gate, deliver |-> TRUE] \in gates

WriteInv == \A c \in Clients : Tidied(client[c])

\* A token goes with one write, which only a thread with a job puts behind a gate ...
SentInv ==
  /\ \A w \in Outgoing :
       w.gate = NoGate \/ (w.token.who \in Writers /\ w.gate = [token |-> w.token, part |-> "ask"])
  /\ \A v, w \in Outgoing : v.token = w.token => v = w

\* ... and with one result, when the write is no more.
ToldInv ==
  /\ \A r \in Told : \A w \in Outgoing : r.token # w.token
  /\ \A r, q \in Told : r.token = q.token => r = q

\* A query is in one place.
ApartInv ==
  /\ pending \cap buffer.asks = {} /\ pending \cap reading.asks = {} /\ buffer.asks \cap reading.asks = {}
  /\ \A t \in Writers : job[t].asks \cap Unsent = {}
  /\ \A t, u \in Writers : t # u => job[t].asks \cap job[u].asks = {}
  /\ \A v \in watches :
       /\ v.token.asks \cap Unsent = {} /\ \A t \in Writers : v.token.asks \cap job[t].asks = {}
       /\ \A w \in watches : v # w => v.token.asks \cap w.token.asks = {}

\* Nobody watches or works for nothing.
FullInv ==
  /\ \A v \in watches : v.token.asks # {} /\ v.token.who = Resender
  /\ \A t \in Writers : job[t] # NoJob => job[t].asks # {}

\* What a thread is about to launch has not been heard of.
Fresh(k) ==
  /\ k.asks # {} /\ k.asks \subseteq queries /\ k.who \in Writers \cup {Resender}
  /\ k.who = Reader => k.asks # reading.asks
  /\ k.who \notin timers /\ (k.who \in Writers => k.who <= pauses)
FreshInv == \A k \in Known : Fresh(k)

\* A write that is sent again is watched, and so is its result.
WatchedInv ==
  \A k \in {w.token : w \in Outgoing} \cup {r.token : r \in Told} :
    k.who = Resender => \E v \in watches : v.token = k

\* A write that may be delivered is the one its thread waits for.
AwaitedInv ==
  \A w \in Outgoing : Armed(w) /\ w.token.who # Resender =>
    job[w.token.who].asks = w.asks /\ job[w.token.who].wait = w.token.client

\* What is still held has been asked of nobody, unless the holder is about to
\* hear that it was.
UnaskedInv ==
  /\ Unsent \cap AllAsked = {}
  /\ \A t \in Writers :
       /\ job[t].wait # NoClient => ~job[t].delivered
       /\ job[t].delivered \/ job[t].asks \cap AllAsked = {}
            \/ (job[t].wait # NoClient /\ ResultOf(t, TRUE) \in results)
  /\ \A v \in watches : v.token.asks \cap AllAsked = {} \/ [token |-> v.token, ok |-> TRUE] \in results

AskInv ==
  /\ WriteInv /\ SentInv /\ ToldInv /\ ApartInv /\ FullInv /\ FreshInv /\ WatchedInv /\ AwaitedInv
  /\ UnaskedInv /\ AskedOnce

LEMMA OutgoingIs ==
  ASSUME OutputAssumption, ClientInv, WriteInv, NEW c \in Clients, NEW w \in Carries(client[c])
  PROVE  /\ w \in Outgoing /\ w.token.client = c /\ w.token.asks = w.asks /\ w.asks # {}
         /\ w.asks \subseteq queries /\ w.token # NoToken /\ w.gate \in Gates(queries)
         /\ w.token \in Tokens(queries)
<1>1. w \in ToSet(client[c].queue) \cup {client[c].held} /\ w.asks # {}  BY DEF Carries, Askers
<1>2. client[c].queue \in Seq(Good(c, queries)) /\ client[c].held \in Good(c, queries)
  BY HoldingParts DEF ClientInv
<1>3. w \in Good(c, queries)  BY <1>1, <1>2 DEF ToSet
<1>4. w.token.asks = w.asks  BY <1>1 DEF WriteInv, Tidied, Tidy
<1>5. NoToken.asks = {}  BY DEF NoToken
<1>6. w.token # NoToken  BY <1>1, <1>4, <1>5
<1> QED  BY <1>1, <1>3, <1>4, <1>6 DEF Good, Outgoing

LEMMA NoClientIs ==
  ASSUME OutputAssumption
  PROVE  NoClient \notin Clients
<1> DEFINE n == Cardinality(Clients)
<1>1. IsFiniteSet(Clients) /\ Clients = 1 .. n /\ NoClient = 0  BY DEF OutputAssumption
<1>2. n \in Nat  BY <1>1, FS_CardinalityType
<1> HIDE DEF n
<1> QED  BY <1>1, <1>2

LEMMA OutgoingAre ==
  ASSUME OutputAssumption, ClientInv, WriteInv, NEW w \in Outgoing
  PROVE  /\ w.token.client \in Clients /\ w.token.asks = w.asks /\ w.asks # {}
         /\ w.asks \subseteq queries /\ w.token # NoToken /\ w.gate \in Gates(queries)
         /\ w.token \in Tokens(queries) /\ w.token.client # NoClient
         /\ w \in Carries(client[w.token.client])
<1>1. PICK c \in Clients : w \in Carries(client[c])  BY DEF Outgoing
<1>2. NoClient \notin Clients  BY NoClientIs
<1> QED  BY <1>1, <1>2, OutgoingIs

\* A redraw pause may begin, or timers end.
Timing ==
  \/ timers' \subseteq timers /\ pauses' = pauses
  \/ timers' = timers \cup {pauses'} /\ pauses' = pauses + 1 /\ pauses' <= MaxPauses

\* No more is under way, nobody has asked or holds anything else.
Quiet ==
  /\ Outgoing' \subseteq Outgoing /\ Told' = Told /\ gates' \subseteq gates
  /\ AllAsked' = AllAsked /\ UNCHANGED <<job, watches, pending, queries>>
  /\ buffer'.asks = buffer.asks /\ reading' \in {reading, NoRead} /\ Timing
  /\ \A c \in Clients : client'[c].asked = client[c].asked

LEMMA ToldParts ==
  ASSUME Told' = Told, NEW r, r.token.asks # {}
  PROVE  r \in results' <=> r \in results
BY DEF Told

LEMMA FreshStays ==
  ASSUME OutputAssumption, TimerInv, Timing, queries \subseteq queries',
         NEW k, Fresh(k), reading'.asks \in {reading.asks, {}}
  PROVE  Fresh(k)'
<1>1. /\ k.asks # {} /\ k.asks \subseteq queries /\ k.who \in Writers \cup {Resender}
      /\ k.who = Reader => k.asks # reading.asks
      /\ k.who \notin timers /\ (k.who \in Writers => k.who <= pauses)
  BY DEF Fresh
<1>2. pauses \in Nat /\ MaxPauses \in Nat  BY DEF TimerInv, OutputAssumption
<1>3. k.who \in Writers => k.who \in Nat  BY <1>2 DEF Writers, Reader
<1>4. k.who \notin timers' /\ (k.who \in Writers => k.who <= pauses')
  BY <1>1, <1>2, <1>3 DEF Timing, Resender
<1> QED  BY <1>1, <1>4 DEF Fresh

LEMMA QuietKeeps ==
  ASSUME OutputAssumption, Inv, AskInv, WriteInv', Quiet
  PROVE  AskInv'
<1>0. NoRead.asks = {}  BY DEF NoRead
<1>1. /\ Outgoing' \subseteq Outgoing /\ Told' = Told /\ gates' \subseteq gates
      /\ AllAsked' = AllAsked /\ UNCHANGED <<job, watches, pending, queries>>
      /\ buffer'.asks = buffer.asks /\ reading'.asks \in {reading.asks, {}}
      /\ Unsent' \subseteq Unsent
  BY <1>0 DEF Quiet, Unsent
<1>2. SentInv' /\ ToldInv' /\ FullInv' /\ WatchedInv'
  BY <1>1 DEF AskInv, SentInv, ToldInv, FullInv, WatchedInv
<1>3. ApartInv'  BY <1>1 DEF AskInv, ApartInv
<1>4. FreshInv'
  <2>1. Known' \subseteq Known  BY <1>1 DEF Known
  <2>2. \A k \in Known' : Fresh(k)'
    BY <1>1, <2>1, FreshStays DEF Quiet, Inv, AskInv, FreshInv
  <2> QED  BY <2>2 DEF FreshInv
<1>5. AwaitedInv'
  <2>1. \A w \in Outgoing' : Armed(w)' => Armed(w)  BY <1>1 DEF Armed
  <2> QED  BY <1>1, <2>1 DEF AskInv, AwaitedInv
<1>6. UnaskedInv'
  <2>1. \A t \in Writers : ResultOf(t, TRUE)' = ResultOf(t, TRUE)  BY <1>1 DEF ResultOf
  <2>2. \A t \in Writers : job[t].asks \cap AllAsked = {} \/ (ResultOf(t, TRUE) \in results' <=> ResultOf(t, TRUE) \in results)
    <3>1. \A t \in Writers : ResultOf(t, TRUE).token.asks = job[t].asks  BY DEF ResultOf
    <3> QED  BY <1>1, <3>1, ToldParts
  <2>3. \A v \in watches : [token |-> v.token, ok |-> TRUE] \in results' <=> [token |-> v.token, ok |-> TRUE] \in results
    <3>1. \A v \in watches : v.token.asks # {}  BY DEF AskInv, FullInv
    <3> QED  BY <1>1, <3>1, ToldParts
  <2> QED  BY <1>1, <2>1, <2>2, <2>3 DEF AskInv, UnaskedInv
<1>7. AskedOnce'  BY DEF Quiet, AskInv, AskedOnce
<1> QED  BY <1>2, <1>3, <1>4, <1>5, <1>6, <1>7 DEF AskInv

(***************************************************************************)
(* A write is no more                                                      *)
(***************************************************************************)
LEMMA TokenIs ==
  ASSUME NEW Q, NEW k \in Tokens(Q)
  PROVE  k = [who |-> k.who, asks |-> k.asks, client |-> k.client]
BY DEF Tokens

\* Where the queries of a write that may be delivered are held meanwhile.
ArmedAt(w, a) ==
  \/ \E v \in watches : v.token = w.token /\ v.token.asks = a /\ v.token.who = Resender
  \/ \E t \in Writers : /\ job[t].asks = a /\ ~job[t].delivered /\ job[t].wait # NoClient
                        /\ \A ok \in BOOLEAN : ResultOf(t, ok) = [token |-> w.token, ok |-> ok]

LEMMA ArmedIs ==
  ASSUME OutputAssumption, Inv, AskInv, NEW w \in Outgoing, Armed(w)
  PROVE  ArmedAt(w, w.asks)
<1> DEFINE k == w.token
<1>1. /\ k.client \in Clients /\ k.asks = w.asks /\ k \in Tokens(queries) /\ k.client # NoClient
  BY OutgoingAre DEF Inv, AskInv
<1>2. k \in Known /\ k \in {v.token : v \in Outgoing} \cup {r.token : r \in Told}  BY DEF Known
<1>3. k.who \in Writers \cup {Resender}  BY <1>2 DEF AskInv, FreshInv, Fresh
<1>4. CASE k.who = Resender
  <2>1. PICK v \in watches : v.token = k  BY <1>2, <1>4 DEF AskInv, WatchedInv
  <2> QED  BY <1>1, <1>4, <2>1 DEF ArmedAt
<1>5. CASE k.who # Resender
  <2> DEFINE t == k.who
  <2>1. t \in Writers  BY <1>3, <1>5
  <2>2. job[t].asks = w.asks /\ job[t].wait = k.client  BY <1>5 DEF AskInv, AwaitedInv
  <2>3. k = [who |-> t, asks |-> job[t].asks, client |-> job[t].wait]  BY <1>1, <2>2, TokenIs
  <2>4. \A ok \in BOOLEAN : ResultOf(t, ok) = [token |-> k, ok |-> ok]  BY <2>3 DEF ResultOf
  <2>5. job[t].wait # NoClient /\ ~job[t].delivered  BY <1>1, <2>1, <2>2 DEF AskInv, UnaskedInv
  <2> QED  BY <2>1, <2>2, <2>4, <2>5 DEF ArmedAt
<1> QED  BY <1>4, <1>5

\* It asks what has not been asked ...
LEMMA ArmedUnasked ==
  ASSUME OutputAssumption, Inv, AskInv, NEW w \in Outgoing, Armed(w)
  PROVE  w.asks \cap AllAsked = {}
<1> DEFINE r == [token |-> w.token, ok |-> TRUE]
<1>1. r \notin results
  <2>1. w.token.asks # {}  BY OutgoingAre DEF Inv, AskInv
  <2>2. r.token = w.token  OBVIOUS
  <2> HIDE DEF r
  <2>3. r \in results => r \in Told  BY <2>1, <2>2 DEF Told
  <2> QED  BY <2>2, <2>3 DEF AskInv, ToldInv
<1>2. ArmedAt(w, w.asks)  BY ArmedIs
<1>3. CASE \E v \in watches : v.token = w.token /\ v.token.asks = w.asks
  BY <1>1, <1>3 DEF AskInv, UnaskedInv
<1>4. CASE \E t \in Writers : job[t].asks = w.asks /\ ~job[t].delivered /\ ResultOf(t, TRUE) = r
  BY <1>1, <1>4 DEF AskInv, UnaskedInv
<1> QED  BY <1>2, <1>3, <1>4 DEF ArmedAt

\* ... and whoever holds that as well has waited for the write.
LEMMA ArmedApart ==
  ASSUME OutputAssumption, Inv, AskInv, NEW w \in Outgoing, Armed(w)
  PROVE  /\ w.asks \cap Unsent = {}
         /\ \A t \in Writers : \/ w.asks \cap job[t].asks = {}
                               \/ job[t].wait # NoClient /\ ResultOf(t, TRUE) = [token |-> w.token, ok |-> TRUE]
         /\ \A v \in watches : w.asks \cap v.token.asks = {} \/ v.token = w.token
<1>1. ArmedAt(w, w.asks)  BY ArmedIs
<1>2. CASE \E v \in watches : v.token = w.token /\ v.token.asks = w.asks
  <2>1. PICK v \in watches : v.token = w.token /\ v.token.asks = w.asks  BY <1>2
  <2>2. \A u \in watches : w.asks \cap u.token.asks = {} \/ u = v  BY <2>1 DEF AskInv, ApartInv
  <2>3. w.asks \cap Unsent = {} /\ \A t \in Writers : w.asks \cap job[t].asks = {}
    BY <2>1 DEF AskInv, ApartInv
  <2> QED  BY <2>1, <2>2, <2>3
<1>3. CASE \E t \in Writers : /\ job[t].asks = w.asks /\ job[t].wait # NoClient
                              /\ ResultOf(t, TRUE) = [token |-> w.token, ok |-> TRUE]
  <2>1. PICK t \in Writers : /\ job[t].asks = w.asks /\ job[t].wait # NoClient
                             /\ ResultOf(t, TRUE) = [token |-> w.token, ok |-> TRUE]
    BY <1>3
  <2>2. \A u \in Writers : w.asks \cap job[u].asks = {} \/ u = t  BY <2>1 DEF AskInv, ApartInv
  <2>3. w.asks \cap Unsent = {} /\ \A v \in watches : w.asks \cap v.token.asks = {}
    BY <2>1 DEF AskInv, ApartInv
  <2> QED  BY <2>1, <2>2, <2>3
<1> QED  BY <1>1, <1>2, <1>3 DEF ArmedAt

\* The writes X are no more, and whoever waits for one hears whether it was written.
ResultOn(w, ok) == [token |-> w.token, ok |-> ok]
Reports(X, ok) ==
  /\ X \subseteq Outgoing /\ Outgoing' \subseteq Outgoing \ X
  /\ Told' = Told \cup {ResultOn(w, ok) : w \in X} /\ gates' \subseteq gates
  /\ AllAsked' \subseteq AllAsked \cup (UNION {w.asks : w \in {v \in X : ok}})
  /\ UNCHANGED <<job, watches, pending, queries, buffer, reading, timers, pauses>>
  /\ ok => \A w \in X : Armed(w)

LEMMA ReportKeeps ==
  ASSUME OutputAssumption, Inv, AskInv, WriteInv', AskedOnce', NEW X, NEW ok \in BOOLEAN, Reports(X, ok)
  PROVE  AskInv'
<1>1. /\ X \subseteq Outgoing /\ Outgoing' \subseteq Outgoing \ X
      /\ Told' = Told \cup {ResultOn(w, ok) : w \in X} /\ gates' \subseteq gates
      /\ AllAsked' \subseteq AllAsked \cup (UNION {w.asks : w \in {v \in X : ok}})
      /\ UNCHANGED <<job, watches, pending, queries, buffer, reading, timers, pauses>>
      /\ (ok => \A w \in X : Armed(w))
  BY DEF Reports
<1>2. \A w \in X : ResultOn(w, ok).token = w.token /\ ResultOn(w, ok).ok = ok  BY DEF ResultOn
<1>3. \A r \in Told' : r \in Told \/ \E w \in X : r = ResultOn(w, ok)  BY <1>1
<1>4. SentInv' /\ ApartInv' /\ FullInv'
  <2>1. SentInv'  BY <1>1 DEF AskInv, SentInv
  <2>2. ApartInv'
    <3>1. Unsent' = Unsent  BY <1>1 DEF Unsent
    <3> QED  BY <1>1, <3>1 DEF AskInv, ApartInv
  <2>3. FullInv'  BY <1>1 DEF AskInv, FullInv
  <2> QED  BY <2>1, <2>2, <2>3
<1>5. ToldInv'
  <2>1. \A r \in Told' : \A w \in Outgoing' : r.token # w.token
    <3> SUFFICES ASSUME NEW r \in Told', NEW w \in Outgoing' PROVE r.token # w.token
      OBVIOUS
    <3>1. CASE r \in Told
      BY <1>1, <3>1 DEF AskInv, ToldInv
    <3>2. CASE \E v \in X : r = ResultOn(v, ok)
      <4>1. PICK v \in X : r = ResultOn(v, ok)  BY <3>2
      <4>2. v \in Outgoing /\ w \in Outgoing /\ v # w  BY <1>1
      <4> QED  BY <1>2, <4>1, <4>2 DEF AskInv, SentInv
    <3> QED  BY <1>3, <3>1, <3>2
  <2>2. \A r, q \in Told' : r.token = q.token => r = q
    <3> SUFFICES ASSUME NEW r \in Told', NEW q \in Told', r.token = q.token PROVE r = q
      OBVIOUS
    <3>1. CASE r \in Told /\ q \in Told
      BY <3>1 DEF AskInv, ToldInv
    <3>2. CASE r \in Told /\ \E v \in X : q = ResultOn(v, ok)
      BY <1>1, <1>2, <3>2 DEF AskInv, ToldInv
    <3>3. CASE q \in Told /\ \E v \in X : r = ResultOn(v, ok)
      BY <1>1, <1>2, <3>3 DEF AskInv, ToldInv
    <3>4. CASE (\E v \in X : r = ResultOn(v, ok)) /\ \E v \in X : q = ResultOn(v, ok)
      BY <1>2, <3>4 DEF ResultOn
    <3> QED  BY <1>3, <3>1, <3>2, <3>3, <3>4
  <2> QED  BY <2>1, <2>2 DEF ToldInv
<1> DEFINE T == {w.token : w \in Outgoing} \cup {r.token : r \in Told}
<1>6. T' \subseteq T
  <2>1. \A w \in Outgoing' : w.token \in T  BY <1>1
  <2>2. \A r \in Told' : r.token \in T
    <3> SUFFICES ASSUME NEW r \in Told' PROVE r.token \in T
      OBVIOUS
    <3>1. CASE r \in Told
      BY <3>1
    <3>2. CASE \E v \in X : r = ResultOn(v, ok)
      <4>1. PICK v \in X : r = ResultOn(v, ok)  BY <3>2
      <4> QED  BY <1>1, <1>2, <4>1
    <3> QED  BY <1>3, <3>1, <3>2
  <2> QED  BY <2>1, <2>2
<1>7. FreshInv'
  <2>1. Known = T \cup {g.gate.token : g \in gates} /\ Known' = T' \cup {g.gate.token : g \in gates'}
    BY DEF Known
  <2>2. Known' \subseteq Known  BY <1>1, <1>6, <2>1
  <2> QED  BY <1>1, <2>2 DEF AskInv, FreshInv, Fresh
<1>8. WatchedInv'
  <2>1. \A k \in T : k.who = Resender => \E v \in watches : v.token = k  BY DEF AskInv, WatchedInv
  <2>2. \A k \in T' : k.who = Resender => \E v \in watches' : v.token = k  BY <1>1, <1>6, <2>1
  <2> QED  BY <2>2 DEF WatchedInv
<1>9. AwaitedInv'
  <2>1. \A w \in Outgoing' : Armed(w)' => Armed(w)  BY <1>1 DEF Armed
  <2> QED  BY <1>1, <2>1 DEF AskInv, AwaitedInv
<1>10. UnaskedInv'
  <2>1. \A t \in Writers : ResultOf(t, TRUE)' = ResultOf(t, TRUE)  BY <1>1 DEF ResultOf
  <2>2. \A r \in results : r.token.asks # {} => r \in results'  BY <1>1 DEF Told
  <2>3. CASE ~ok
    <3>1. AllAsked' \subseteq AllAsked  BY <1>1, <2>3
    <3>2. \A t \in Writers : ResultOf(t, TRUE) \in results' \/ ResultOf(t, TRUE) \notin results \/ job[t].asks = {}
      BY <2>2 DEF ResultOf
    <3>3. \A v \in watches : ResultOn(v, TRUE) \in results' \/ ResultOn(v, TRUE) \notin results \/ v.token.asks = {}
      BY <2>2 DEF ResultOn
    <3> QED  BY <1>1, <2>1, <3>1, <3>2, <3>3 DEF AskInv, UnaskedInv, Unsent, ResultOn
  <2>4. CASE ok
    <3>1. \A w \in X : /\ w \in Outgoing /\ Armed(w) /\ w.asks # {} /\ w.token.asks = w.asks
                       /\ ResultOn(w, TRUE) \in results'
      <4> TAKE w \in X
      <4>1. w \in Outgoing /\ Armed(w)  BY <1>1, <2>4
      <4>2. w.asks # {} /\ w.token.asks = w.asks  BY <4>1, OutgoingAre DEF Inv, AskInv
      <4>3. ResultOn(w, TRUE) \in Told'  BY <1>1, <2>4
      <4> QED  BY <4>1, <4>2, <4>3 DEF Told
    <3>2. ASSUME NEW A, A \cap AllAsked = {}, \A w \in X : w.asks \cap A = {}
          PROVE  A \cap AllAsked' = {}
      BY <1>1, <3>2
    <3>3. Unsent' = Unsent  BY <1>1 DEF Unsent
    <3>4. Unsent' \cap AllAsked' = {}
      <4>1. \A w \in X : w.asks \cap Unsent = {}  BY <3>1, ArmedApart
      <4>2. Unsent \cap AllAsked = {}  BY DEF AskInv, UnaskedInv
      <4> QED  BY <3>2, <3>3, <4>1, <4>2
    <3>5. ASSUME NEW t \in Writers
          PROVE  job[t].delivered \/ job[t].asks \cap AllAsked' = {}
                   \/ (job[t].wait # NoClient /\ ResultOf(t, TRUE) \in results')
      <4>1. CASE \E w \in X : job[t].wait # NoClient /\ ResultOf(t, TRUE) = ResultOn(w, TRUE)
        BY <3>1, <4>1
      <4>2. CASE ~\E w \in X : job[t].wait # NoClient /\ ResultOf(t, TRUE) = ResultOn(w, TRUE)
        <5>1. \A w \in X : w.asks \cap job[t].asks = {}  BY <3>1, <4>2, ArmedApart DEF ResultOn
        <5>2. CASE job[t].asks \cap AllAsked = {}
          BY <3>2, <5>1, <5>2
        <5>3. CASE job[t].asks \cap AllAsked # {}
          <6>1. ResultOf(t, TRUE).token.asks = job[t].asks  BY DEF ResultOf
          <6>2. ResultOf(t, TRUE) \in results => ResultOf(t, TRUE) \in results'
            BY <2>2, <5>3, <6>1
          <6> QED  BY <5>3, <6>2 DEF AskInv, UnaskedInv
        <5> QED  BY <5>2, <5>3
      <4> QED  BY <4>1, <4>2
    <3>6. ASSUME NEW v \in watches
          PROVE  v.token.asks \cap AllAsked' = {} \/ ResultOn(v, TRUE) \in results'
      <4>1. CASE \E w \in X : v.token = w.token
        BY <3>1, <4>1 DEF ResultOn
      <4>2. CASE ~\E w \in X : v.token = w.token
        <5>1. \A w \in X : w.asks \cap v.token.asks = {}  BY <3>1, <4>2, ArmedApart
        <5>2. CASE v.token.asks \cap AllAsked = {}
          BY <3>2, <5>1, <5>2
        <5>3. CASE v.token.asks \cap AllAsked # {}
          <6>1. ResultOn(v, TRUE).token.asks = v.token.asks  BY DEF ResultOn
          <6>2. ResultOn(v, TRUE) \in results => ResultOn(v, TRUE) \in results'
            BY <2>2, <5>3, <6>1
          <6> QED  BY <5>3, <6>2 DEF AskInv, UnaskedInv, ResultOn
        <5> QED  BY <5>2, <5>3
      <4> QED  BY <4>1, <4>2
    <3> QED  BY <1>1, <2>1, <3>4, <3>5, <3>6 DEF AskInv, UnaskedInv, ResultOn
  <2> QED  BY <2>3, <2>4
<1> QED  BY <1>4, <1>5, <1>7, <1>8, <1>9, <1>10 DEF AskInv

(***************************************************************************)
(* What one thread held, another does or nobody                            *)
(***************************************************************************)
Anew(w, A, c) == w.asks = A /\ w.gate = NoGate /\ w.token = [who |-> Resender, asks |-> A, client |-> c]

\* Nobody holds the queries A for a moment, and they have not been asked.
Released(A, others) ==
  /\ others \subseteq watches /\ A \subseteq queries /\ A \cap AllAsked = {}
  /\ A \cap (buffer.asks \cup reading.asks) = {} /\ \A v \in others : v.token.asks \cap A = {}
  /\ \A t \in Writers :
       (job'[t] = job[t] /\ job[t].asks \cap A = {}) \/ (job'[t] = NoJob /\ job[t].wait = NoClient)
  /\ Told' \subseteq Told
  /\ \A r \in Told : r \in Told' \/ (r.token.who = Resender /\ \A v \in others : v.token # r.token)
  /\ \A k \in {w.token : w \in Outgoing} \cup {r.token : r \in Told'} :
       k.who = Resender => \E v \in others : v.token = k
  /\ AllAsked' = AllAsked /\ UNCHANGED <<gates, queries, reading>> /\ buffer'.asks = buffer.asks /\ Timing

\* One more goroutine watches one write of them, ...
Rewatched(A, others, c) ==
  /\ A # {} /\ pending' \subseteq pending \ A
  /\ \A w \in Outgoing' : w \in Outgoing \/ Anew(w, A, c)
  /\ \A v, w \in Outgoing' : Anew(v, A, c) /\ Anew(w, A, c) => v = w
  /\ \E f \in BOOLEAN : watches' = others \cup {Watching(A, f, c)}

\* ... or they wait for a client.
Restored(A, others) ==
  Outgoing' \subseteq Outgoing /\ watches' = others /\ pending' \in {pending, pending \cup A}

\* What the threads hold when A is released.
OthersApart(A, others) ==
  /\ \A t \in Writers : job'[t].asks \cap A = {} /\ job'[t].asks \cap Unsent = {}
  /\ \A t, u \in Writers : t # u => job'[t].asks \cap job'[u].asks = {}
  /\ \A v \in others :
       /\ v.token.asks \cap Unsent = {} /\ \A t \in Writers : v.token.asks \cap job'[t].asks = {}
       /\ v.token.asks \cap A = {} /\ \A w \in others : v # w => v.token.asks \cap w.token.asks = {}

\* What they wait for, and what has been asked of what they hold.
OthersWait(others) ==
  /\ \A w \in Outgoing : Armed(w) /\ w.token.who # Resender =>
       job'[w.token.who].asks = w.asks /\ job'[w.token.who].wait = w.token.client
  /\ \A t \in Writers :
       /\ job'[t] # NoJob => job'[t].asks # {}
       /\ job'[t].wait # NoClient => ~job'[t].delivered
       /\ job'[t].delivered \/ job'[t].asks \cap AllAsked = {}
            \/ (job'[t].wait # NoClient /\ ResultOf(t, TRUE)' \in results')
  /\ \A v \in others :
       /\ v.token.asks # {} /\ v.token.who = Resender
       /\ v.token.asks \cap AllAsked = {} \/ ResultOn(v, TRUE) \in results'

LEMMA ReleasedIs ==
  ASSUME OutputAssumption, Inv, AskInv, NEW A, NEW others, Released(A, others)
  PROVE  OthersApart(A, others) /\ OthersWait(others)
<1>1. /\ others \subseteq watches /\ A \cap AllAsked = {}
      /\ A \cap (buffer.asks \cup reading.asks) = {} /\ \A v \in others : v.token.asks \cap A = {}
      /\ \A t \in Writers :
           (job'[t] = job[t] /\ job[t].asks \cap A = {}) \/ (job'[t] = NoJob /\ job[t].wait = NoClient)
      /\ \A r \in Told : r \in Told' \/ (r.token.who = Resender /\ \A v \in others : v.token # r.token)
  BY DEF Released
<1>2. NoJob.asks = {} /\ NoJob.wait = NoClient /\ NoJob.delivered  BY DEF NoJob
<1>3. \A t \in Writers : job'[t].asks \cap A = {} /\ job'[t].asks \subseteq job[t].asks
  BY <1>1, <1>2
<1>4. Resender \notin Writers
  <2>1. MaxPauses \in Nat  BY DEF OutputAssumption
  <2> QED  BY <2>1 DEF Resender, Writers, Reader
<1>5. OthersApart(A, others)
  <2>1. \A t \in Writers : job'[t].asks \cap Unsent = {}  BY <1>3 DEF AskInv, ApartInv
  <2>2. \A t, u \in Writers : t # u => job'[t].asks \cap job'[u].asks = {}
    BY <1>3 DEF AskInv, ApartInv
  <2>3. \A v \in others : \A t \in Writers : v.token.asks \cap job'[t].asks = {}
    BY <1>1, <1>3 DEF AskInv, ApartInv
  <2>4. \A v \in others : v.token.asks \cap Unsent = {} /\ \A w \in others : v # w => v.token.asks \cap w.token.asks = {}
    BY <1>1 DEF AskInv, ApartInv
  <2> QED  BY <1>1, <1>3, <2>1, <2>2, <2>3, <2>4 DEF OthersApart
<1>6. \A w \in Outgoing : Armed(w) /\ w.token.who # Resender =>
        job'[w.token.who].asks = w.asks /\ job'[w.token.who].wait = w.token.client
  <2> SUFFICES ASSUME NEW w \in Outgoing, Armed(w), w.token.who # Resender
               PROVE  job'[w.token.who].asks = w.asks /\ job'[w.token.who].wait = w.token.client
    OBVIOUS
  <2>1. job[w.token.who].asks = w.asks /\ job[w.token.who].wait = w.token.client
    BY DEF AskInv, AwaitedInv
  <2>2. w.token.client # NoClient  BY OutgoingAre DEF Inv, AskInv
  <2>3. w.token.who \in Writers
    <3>1. w.token \in Known  BY DEF Known
    <3> QED  BY <3>1 DEF AskInv, FreshInv, Fresh
  <2>4. job'[w.token.who] = job[w.token.who]  BY <1>1, <2>1, <2>2, <2>3
  <2> QED  BY <2>1, <2>4
<1>7. ASSUME NEW t \in Writers
      PROVE  /\ job'[t] # NoJob => job'[t].asks # {}
             /\ job'[t].wait # NoClient => ~job'[t].delivered
             /\ job'[t].delivered \/ job'[t].asks \cap AllAsked = {}
                  \/ (job'[t].wait # NoClient /\ ResultOf(t, TRUE)' \in results')
  <2>1. CASE job'[t] = NoJob
    BY <1>2, <2>1
  <2>2. CASE job'[t] = job[t]
    <3> DEFINE r == ResultOf(t, TRUE)
    <3>1. r' = r  BY <2>2 DEF ResultOf
    <3>2. r.token.asks = job[t].asks /\ r.token.who = t  BY DEF ResultOf
    <3> HIDE DEF r
    <3>3. job[t].asks = {} \/ (r \in results => r \in results')
      BY <1>1, <1>4, <3>2 DEF Told
    <3>4. /\ job[t] # NoJob => job[t].asks # {}
          /\ job[t].wait # NoClient => ~job[t].delivered
          /\ job[t].delivered \/ job[t].asks \cap AllAsked = {} \/ (job[t].wait # NoClient /\ r \in results)
      BY DEF AskInv, FullInv, UnaskedInv, r
    <3> QED  BY <2>2, <3>1, <3>3, <3>4 DEF r
  <2> QED  BY <1>1, <2>1, <2>2
<1>8. ASSUME NEW v \in others
      PROVE  /\ v.token.asks # {} /\ v.token.who = Resender
             /\ v.token.asks \cap AllAsked = {} \/ ResultOn(v, TRUE) \in results'
  <2> DEFINE r == ResultOn(v, TRUE)
  <2>1. r.token = v.token /\ r = [token |-> v.token, ok |-> TRUE]  BY DEF ResultOn
  <2>2. v \in watches /\ v.token.asks # {} /\ v.token.who = Resender  BY <1>1 DEF AskInv, FullInv
  <2>3. v.token.asks \cap AllAsked = {} \/ r \in results  BY <2>1, <2>2 DEF AskInv, UnaskedInv
  <2> HIDE DEF r
  <2>4. r \in results => r \in results'  BY <1>1, <2>1, <2>2 DEF Told
  <2> QED  BY <2>2, <2>3, <2>4 DEF r
<1>9. OthersWait(others)  BY <1>6, <1>7, <1>8 DEF OthersWait
<1> QED  BY <1>5, <1>9

\* Tokens are as fresh as they were.
LEMMA KnownStaysFresh ==
  ASSUME OutputAssumption, TimerInv, Timing, queries' = queries, reading' = reading, FreshInv,
         NEW k \in Known
  PROVE  Fresh(k)'
BY FreshStays DEF FreshInv

LEMMA RestoredKeeps ==
  ASSUME OutputAssumption, Inv, AskInv, WriteInv', AskedOnce', NEW A, NEW others,
         Released(A, others), Restored(A, others)
  PROVE  AskInv'
<1>1. /\ others \subseteq watches /\ A \cap AllAsked = {}
      /\ A \cap (buffer.asks \cup reading.asks) = {} /\ Told' \subseteq Told
      /\ \A k \in {w.token : w \in Outgoing} \cup {r.token : r \in Told'} :
           k.who = Resender => \E v \in others : v.token = k
      /\ AllAsked' = AllAsked /\ UNCHANGED <<gates, queries, reading>> /\ buffer'.asks = buffer.asks /\ Timing
      /\ Outgoing' \subseteq Outgoing /\ watches' = others /\ pending' \in {pending, pending \cup A}
  BY DEF Released, Restored
<1>2. OthersApart(A, others) /\ OthersWait(others)  BY ReleasedIs
<1>3. Unsent' \subseteq Unsent \cup A /\ buffer'.asks \cup reading'.asks \subseteq Unsent /\ pending \subseteq Unsent
  BY <1>1 DEF Unsent
<1>4. SentInv' /\ ToldInv'  BY <1>1 DEF AskInv, SentInv, ToldInv
<1>5. ApartInv'
  <2>1. /\ pending' \cap buffer'.asks = {} /\ pending' \cap reading'.asks = {}
        /\ buffer'.asks \cap reading'.asks = {}
    BY <1>1 DEF AskInv, ApartInv
  <2>2. \A t \in Writers : job'[t].asks \cap Unsent' = {}  BY <1>2, <1>3 DEF OthersApart
  <2>3. \A v \in others : v.token.asks \cap Unsent' = {}  BY <1>2, <1>3 DEF OthersApart
  <2> QED  BY <1>1, <1>2, <2>1, <2>2, <2>3 DEF ApartInv, OthersApart
<1>6. FullInv'  BY <1>1, <1>2 DEF FullInv, OthersWait
<1>7. FreshInv'
  <2>1. Known' \subseteq Known  BY <1>1 DEF Known
  <2>2. \A k \in Known' : Fresh(k)'  BY <1>1, <2>1, KnownStaysFresh DEF Inv, AskInv
  <2> QED  BY <2>2 DEF FreshInv
<1>8. WatchedInv'
  <2>1. {w.token : w \in Outgoing'} \subseteq {w.token : w \in Outgoing}  BY <1>1
  <2> QED  BY <1>1, <2>1 DEF WatchedInv
<1>9. AwaitedInv'
  <2>1. \A w \in Outgoing' : Armed(w)' => Armed(w)  BY <1>1 DEF Armed
  <2> QED  BY <1>1, <1>2, <2>1 DEF AwaitedInv, OthersWait
<1>10. UnaskedInv'
  <2>1. Unsent' \cap AllAsked' = {}  BY <1>1, <1>3 DEF AskInv, UnaskedInv
  <2> QED  BY <1>1, <1>2, <2>1 DEF UnaskedInv, OthersWait, ResultOn
<1> QED  BY <1>4, <1>5, <1>6, <1>7, <1>8, <1>9, <1>10 DEF AskInv

LEMMA RewatchedKeeps ==
  ASSUME OutputAssumption, Inv, AskInv, WriteInv', AskedOnce', NEW A, NEW others, NEW c \in Clients,
         Released(A, others), Rewatched(A, others, c)
  PROVE  AskInv'
<1>1. /\ others \subseteq watches /\ A \subseteq queries /\ A \cap AllAsked = {} /\ A # {}
      /\ A \cap (buffer.asks \cup reading.asks) = {} /\ Told' \subseteq Told
      /\ \A k \in {w.token : w \in Outgoing} \cup {r.token : r \in Told'} :
           k.who = Resender => \E v \in others : v.token = k
      /\ AllAsked' = AllAsked /\ UNCHANGED <<gates, queries, reading>> /\ buffer'.asks = buffer.asks /\ Timing
      /\ pending' \subseteq pending \ A
      /\ \A w \in Outgoing' : w \in Outgoing \/ Anew(w, A, c)
      /\ \A v, w \in Outgoing' : Anew(v, A, c) /\ Anew(w, A, c) => v = w
  BY DEF Released, Rewatched
<1>2. PICK f \in BOOLEAN : watches' = others \cup {Watching(A, f, c)}  BY DEF Rewatched
<1> DEFINE u == Watching(A, f, c)
           k0 == [who |-> Resender, asks |-> A, client |-> c]
<1>3. u.token = k0
  <2>1. u = [token |-> k0, flight |-> f]  BY <1>1, WatchingIs
  <2> HIDE DEF u, k0
  <2> QED  BY <2>1
<1>4. k0.asks = A /\ k0.who = Resender /\ k0.client = c  OBVIOUS
<1>5. \A w : Anew(w, A, c) => w.token = k0 /\ w.asks = A /\ w.gate = NoGate  BY DEF Anew
<1> HIDE DEF k0
<1>6. watches' = others \cup {u} /\ u.token.asks = A /\ u.token.who = Resender  BY <1>2, <1>3, <1>4
<1> HIDE DEF u
<1>7. OthersApart(A, others) /\ OthersWait(others)  BY ReleasedIs
<1>8. Unsent' \subseteq Unsent \ A
  <2>1. Unsent' = pending' \cup buffer'.asks \cup reading'.asks  BY DEF Unsent
  <2>2. Unsent = pending \cup buffer.asks \cup reading.asks  BY DEF Unsent
  <2> QED  BY <1>1, <2>1, <2>2
<1>9. Resender \notin Writers
  <2>1. MaxPauses \in Nat  BY DEF OutputAssumption
  <2> QED  BY <2>1 DEF Resender, Writers, Reader
\* The token of the new write is new.
<1>10. k0 \notin {w.token : w \in Outgoing} \cup {r.token : r \in Told'}
  <2> SUFFICES ASSUME k0 \in {w.token : w \in Outgoing} \cup {r.token : r \in Told'} PROVE FALSE
    OBVIOUS
  <2>1. PICK v \in others : v.token = k0  BY <1>1, <1>4
  <2> QED  BY <1>1, <1>4, <1>7, <2>1 DEF OthersApart
<1>11. SentInv'
  <2>1. \A w \in Outgoing' :
          w.gate = NoGate \/ (w.token.who \in Writers /\ w.gate = [token |-> w.token, part |-> "ask"])
    BY <1>1, <1>5 DEF AskInv, SentInv
  <2>2. ASSUME NEW v \in Outgoing', NEW w \in Outgoing', v.token = w.token
        PROVE  v = w
    <3>1. CASE v \in Outgoing /\ w \in Outgoing
      BY <2>2, <3>1 DEF AskInv, SentInv
    <3>2. CASE v \in Outgoing /\ Anew(w, A, c)
      BY <1>5, <1>10, <2>2, <3>2
    <3>3. CASE w \in Outgoing /\ Anew(v, A, c)
      BY <1>5, <1>10, <2>2, <3>3
    <3>4. CASE Anew(v, A, c) /\ Anew(w, A, c)
      BY <1>1, <3>4
    <3> QED  BY <1>1, <3>1, <3>2, <3>3, <3>4
  <2> QED  BY <2>1, <2>2 DEF SentInv
<1>12. ToldInv'
  <2>1. \A r \in Told' : \A w \in Outgoing' : r.token # w.token
    <3> SUFFICES ASSUME NEW r \in Told', NEW w \in Outgoing' PROVE r.token # w.token
      OBVIOUS
    <3>1. CASE w \in Outgoing
      BY <1>1, <3>1 DEF AskInv, ToldInv
    <3>2. CASE Anew(w, A, c)
      BY <1>5, <1>10, <3>2
    <3> QED  BY <1>1, <3>1, <3>2
  <2>2. \A r, q \in Told' : r.token = q.token => r = q  BY <1>1 DEF AskInv, ToldInv
  <2> QED  BY <2>1, <2>2 DEF ToldInv
<1>13. ApartInv'
  <2>1. /\ pending' \cap buffer'.asks = {} /\ pending' \cap reading'.asks = {}
        /\ buffer'.asks \cap reading'.asks = {}
    BY <1>1 DEF AskInv, ApartInv
  <2>2. \A t \in Writers : job'[t].asks \cap Unsent' = {}  BY <1>7, <1>8 DEF OthersApart
  <2>3. ASSUME NEW v \in watches'
        PROVE  /\ v.token.asks \cap Unsent' = {} /\ \A t \in Writers : v.token.asks \cap job'[t].asks = {}
               /\ \A w \in watches' : v # w => v.token.asks \cap w.token.asks = {}
    <3>1. CASE v = u
      BY <1>6, <1>7, <1>8, <3>1 DEF OthersApart
    <3>2. CASE v \in others
      BY <1>6, <1>7, <1>8, <3>2 DEF OthersApart
    <3> QED  BY <1>6, <3>1, <3>2
  <2> QED  BY <1>7, <2>1, <2>2, <2>3 DEF ApartInv, OthersApart
<1>14. FullInv'  BY <1>1, <1>6, <1>7 DEF FullInv, OthersWait
<1>15. FreshInv'
  <2>1. \A k \in Known' : k \in Known \/ k = k0
    <3>1. \A w \in Outgoing' : w.token \in Known \/ w.token = k0  BY <1>1, <1>5 DEF Known
    <3>2. \A r \in Told' : r.token \in Known  BY <1>1 DEF Known
    <3>3. \A g \in gates' : g.gate.token \in Known  BY <1>1 DEF Known
    <3> QED  BY <3>1, <3>2, <3>3 DEF Known
  <2>2. Fresh(k0)'
    <3>1. pauses \in Nat /\ MaxPauses \in Nat /\ timers \subseteq Writers
      BY TimersWrite DEF Inv, TimerInv, OutputAssumption
    <3>2. Resender \notin timers'  BY <1>1, <1>9, <3>1 DEF Timing, Resender
    <3>4. Reader \in Writers  BY DEF Writers
    <3> QED  BY <1>1, <1>4, <1>9, <3>2, <3>4 DEF Fresh
  <2>3. \A k \in Known : Fresh(k)'  BY <1>1, KnownStaysFresh DEF Inv, AskInv
  <2> QED  BY <2>1, <2>2, <2>3 DEF FreshInv
<1>16. WatchedInv'
  <2>1. \A w \in Outgoing' : w.token.who = Resender => \E v \in watches' : v.token = w.token
    <3> SUFFICES ASSUME NEW w \in Outgoing', w.token.who = Resender
                 PROVE  \E v \in watches' : v.token = w.token
      OBVIOUS
    <3>1. CASE w \in Outgoing
      BY <1>1, <1>6, <3>1
    <3>2. CASE Anew(w, A, c)
      BY <1>3, <1>5, <1>6, <3>2
    <3> QED  BY <1>1, <3>1, <3>2
  <2>2. \A r \in Told' : r.token.who = Resender => \E v \in watches' : v.token = r.token
    BY <1>1, <1>6
  <2> QED  BY <2>1, <2>2 DEF WatchedInv
<1>17. AwaitedInv'
  <2>1. \A w \in Outgoing' : Armed(w)' => Armed(w)  BY <1>1 DEF Armed
  <2>2. \A w \in Outgoing' : w.token.who # Resender => w \in Outgoing  BY <1>1, <1>4, <1>5
  <2> QED  BY <1>7, <2>1, <2>2 DEF AwaitedInv, OthersWait
<1>18. UnaskedInv'
  <2>1. Unsent' \cap AllAsked' = {}  BY <1>1, <1>8 DEF AskInv, UnaskedInv
  <2>2. \A v \in watches' : v.token.asks \cap AllAsked' = {} \/ ResultOn(v, TRUE) \in results'
    BY <1>1, <1>6, <1>7 DEF OthersWait
  <2> QED  BY <1>1, <1>7, <2>1, <2>2 DEF UnaskedInv, OthersWait, ResultOn
<1> QED  BY <1>11, <1>12, <1>13, <1>14, <1>15, <1>16, <1>17, <1>18 DEF AskInv

(***************************************************************************)
(* A query is to be asked of one client, or of another                     *)
(***************************************************************************)
\* What is sent on for thread t: without a gate only what it waits for.
Sent(w, t, A, to) ==
  /\ w.asks = A /\ w.token = [who |-> t, asks |-> A, client |-> w.token.client]
  /\ (w.gate = NoGate /\ w.token.client = to) \/ w.gate = [token |-> w.token, part |-> "ask"]

\* The queries A that were kept or read are in the writes of a job of t.
Launches(t, A, j) ==
  /\ t \in Writers /\ job[t] = NoJob /\ job' = [job EXCEPT ![t] = j]
  /\ A # {} /\ A \subseteq Unsent /\ Unsent' \subseteq Unsent \ A
  /\ \A k \in Known : k.who = t => k.asks # A
  /\ t \notin timers' /\ t <= pauses
  /\ j.asks = A /\ ~j.delivered
  /\ \A w \in Outgoing' : w \in Outgoing \/ Sent(w, t, A, j.wait)
  /\ \A v, w \in Outgoing' : Sent(v, t, A, j.wait) /\ Sent(w, t, A, j.wait) /\ v.token = w.token => v = w
  /\ Told' = Told /\ AllAsked' = AllAsked /\ UNCHANGED <<gates, results, watches, pending, queries>>
  /\ buffer'.asks \in {buffer.asks, {}} /\ reading' \in {reading, NoRead}
  /\ timers' \subseteq timers /\ pauses' = pauses

LEMMA LaunchKeeps ==
  ASSUME OutputAssumption, Inv, AskInv, WriteInv', AskedOnce', NEW t, NEW A, NEW j, Launches(t, A, j)
  PROVE  AskInv'
<1>1. /\ t \in Writers /\ job[t] = NoJob /\ A # {} /\ A \subseteq Unsent /\ Unsent' \subseteq Unsent \ A
      /\ t \notin timers' /\ t <= pauses /\ j.asks = A /\ ~j.delivered
      /\ \A w \in Outgoing' : w \in Outgoing \/ Sent(w, t, A, j.wait)
      /\ Told' = Told /\ AllAsked' = AllAsked /\ UNCHANGED <<gates, results, watches, pending, queries>>
      /\ buffer'.asks \in {buffer.asks, {}} /\ reading' \in {reading, NoRead}
      /\ timers' \subseteq timers /\ pauses' = pauses
  BY DEF Launches
<1>2. \A u \in Writers : job'[u] = IF u = t THEN j ELSE job[u]  BY DEF Launches, Inv, JobInv
<1>3. \A w : Sent(w, t, A, j.wait) => w.asks = A /\ w.token.asks = A /\ w.token.who = t
               /\ ((w.gate = NoGate /\ w.token.client = j.wait) \/ w.gate = [token |-> w.token, part |-> "ask"])
  BY DEF Sent
<1>4. NoRead.asks = {} /\ NoJob.asks = {}  BY DEF NoRead, NoJob
<1>5. reading'.asks \in {reading.asks, {}}  BY <1>1, <1>4
<1>6. Resender \notin Writers
  <2>1. MaxPauses \in Nat  BY DEF OutputAssumption
  <2> QED  BY <2>1 DEF Resender, Writers, Reader
<1>7. \A w : Sent(w, t, A, j.wait) => w.token \notin Known
  BY <1>3 DEF Launches
<1>8. A \subseteq queries
  <2>1. pending \subseteq queries /\ buffer.asks \subseteq queries /\ reading.asks \subseteq queries
    BY DEF Inv, QueryInv, PlaceInv, ReadInv, Reads
  <2> QED  BY <1>1, <2>1 DEF Unsent
<1>9. (\A w \in Outgoing : w.token \in Known) /\ (\A r \in Told : r.token \in Known)
      /\ \A g \in gates : g.gate.token \in Known
  BY DEF Known
<1>10. SentInv'
  <2>1. \A w \in Outgoing' :
          w.gate = NoGate \/ (w.token.who \in Writers /\ w.gate = [token |-> w.token, part |-> "ask"])
    BY <1>1, <1>3 DEF AskInv, SentInv
  <2>2. ASSUME NEW v \in Outgoing', NEW w \in Outgoing', v.token = w.token
        PROVE  v = w
    <3>1. CASE v \in Outgoing /\ w \in Outgoing
      BY <2>2, <3>1 DEF AskInv, SentInv
    <3>2. CASE v \in Outgoing /\ Sent(w, t, A, j.wait)
      BY <1>7, <1>9, <2>2, <3>2
    <3>3. CASE w \in Outgoing /\ Sent(v, t, A, j.wait)
      BY <1>7, <1>9, <2>2, <3>3
    <3>4. CASE Sent(v, t, A, j.wait) /\ Sent(w, t, A, j.wait)
      BY <2>2, <3>4 DEF Launches
    <3> QED  BY <1>1, <3>1, <3>2, <3>3, <3>4
  <2> QED  BY <2>1, <2>2 DEF SentInv
<1>11. ToldInv'
  <2>1. \A r \in Told' : \A w \in Outgoing' : r.token # w.token
    BY <1>1, <1>7, <1>9 DEF AskInv, ToldInv
  <2>2. \A r, q \in Told' : r.token = q.token => r = q  BY <1>1 DEF AskInv, ToldInv
  <2> QED  BY <2>1, <2>2 DEF ToldInv
<1>12. ApartInv'
  <2>1. /\ pending' \cap buffer'.asks = {} /\ pending' \cap reading'.asks = {}
        /\ buffer'.asks \cap reading'.asks = {}
    BY <1>1, <1>5 DEF AskInv, ApartInv
  <2>2. \A u \in Writers : job'[u].asks \cap Unsent' = {}  BY <1>1, <1>2 DEF AskInv, ApartInv
  <2>3. ASSUME NEW u \in Writers, NEW s \in Writers, u # s
        PROVE  job'[u].asks \cap job'[s].asks = {}
    <3>1. \A x \in Writers : job[x].asks \cap A = {}  BY <1>1 DEF AskInv, ApartInv
    <3> QED  BY <1>1, <1>2, <2>3, <3>1 DEF AskInv, ApartInv
  <2>4. \A v \in watches' :
          /\ v.token.asks \cap Unsent' = {} /\ \A u \in Writers : v.token.asks \cap job'[u].asks = {}
          /\ \A w \in watches' : v # w => v.token.asks \cap w.token.asks = {}
    BY <1>1, <1>2 DEF AskInv, ApartInv
  <2> QED  BY <2>1, <2>2, <2>3, <2>4 DEF ApartInv
<1>13. FullInv'  BY <1>1, <1>2 DEF AskInv, FullInv
<1>14. FreshInv'
  <2>1. \A k \in Known' : k \in Known \/ (k.who = t /\ k.asks = A)
    <3>1. \A w \in Outgoing' : w.token \in Known \/ (w.token.who = t /\ w.token.asks = A)
      BY <1>1, <1>3, <1>9
    <3>2. \A r \in Told' : r.token \in Known  BY <1>1, <1>9
    <3>3. \A g \in gates' : g.gate.token \in Known  BY <1>1, <1>9
    <3> QED  BY <3>1, <3>2, <3>3 DEF Known
  <2>2. ASSUME NEW k, k.who = t, k.asks = A
        PROVE  Fresh(k)'
    <3>1. reading'.asks # A  BY <1>1 DEF Unsent
    <3> QED  BY <1>1, <1>8, <2>2, <3>1 DEF Fresh
  <2>3. \A k \in Known : Fresh(k)'
    <3>1. Timing  BY <1>1 DEF Timing
    <3> QED  BY <1>1, <1>5, <3>1, FreshStays DEF Inv, AskInv, FreshInv
  <2> QED  BY <2>1, <2>2, <2>3 DEF FreshInv
<1>15. WatchedInv'
  <2>1. \A w \in Outgoing' : w.token.who = Resender => w \in Outgoing
    BY <1>1, <1>3, <1>6
  <2>2. \A w \in Outgoing : w.token.who = Resender => \E v \in watches : v.token = w.token
    BY DEF AskInv, WatchedInv
  <2>3. \A r \in Told : r.token.who = Resender => \E v \in watches : v.token = r.token
    BY DEF AskInv, WatchedInv
  <2>4. (\A w \in Outgoing' : w.token.who = Resender => \E v \in watches' : v.token = w.token)
        /\ \A r \in Told' : r.token.who = Resender => \E v \in watches' : v.token = r.token
    BY <1>1, <2>1, <2>2, <2>3
  <2> QED  BY <2>4 DEF WatchedInv
<1>16. AwaitedInv'
  <2> SUFFICES ASSUME NEW w \in Outgoing', Armed(w)', w.token.who # Resender
               PROVE  job'[w.token.who].asks = w.asks /\ job'[w.token.who].wait = w.token.client
    BY DEF AwaitedInv
  <2>1. Armed(w)  BY <1>1 DEF Armed
  <2>2. CASE w \in Outgoing
    <3>1. job[w.token.who].asks = w.asks /\ job[w.token.who].wait = w.token.client
      BY <2>1, <2>2 DEF AskInv, AwaitedInv
    <3>2. w.asks # {}  BY <2>2, OutgoingAre DEF Inv, AskInv
    <3>3. w.token.who \in Writers /\ w.token.who # t
      BY <1>1, <1>4, <1>9, <2>2, <3>1, <3>2 DEF AskInv, FreshInv, Fresh
    <3> QED  BY <1>2, <3>1, <3>3
  <2>3. CASE Sent(w, t, A, j.wait)
    <3>1. w.gate = [token |-> w.token, part |-> "ask"] => [gate |-> w.gate, deliver |-> TRUE] \notin gates
      <4> DEFINE g == [gate |-> w.gate, deliver |-> TRUE]
      <4>1. g.gate = w.gate  OBVIOUS
      <4> HIDE DEF g
      <4>2. w.gate = [token |-> w.token, part |-> "ask"] /\ g \in gates => w.token \in Known
        BY <1>9, <4>1
      <4> QED  BY <1>7, <2>3, <4>2 DEF g
    <3>2. w.gate = NoGate \/ w.gate # [token |-> w.token, part |-> "ask"]
      BY <2>1, <3>1 DEF Armed
    <3>3. w.token.client = j.wait
      <4>1. NoGate.part = "none"  BY DEF NoGate
      <4>2. w.gate = [token |-> w.token, part |-> "ask"] => w.gate.part = "ask"  OBVIOUS
      <4> QED  BY <1>3, <2>3, <3>2, <4>1, <4>2
    <3> QED  BY <1>1, <1>2, <1>3, <2>3, <3>3
  <2> QED  BY <1>1, <2>2, <2>3
<1>17. UnaskedInv'
  <2>1. Unsent' \cap AllAsked' = {} /\ A \cap AllAsked = {}
    BY <1>1 DEF AskInv, UnaskedInv
  <2>2. ASSUME NEW u \in Writers
        PROVE  /\ job'[u].wait # NoClient => ~job'[u].delivered
               /\ job'[u].delivered \/ job'[u].asks \cap AllAsked' = {}
                    \/ (job'[u].wait # NoClient /\ ResultOf(u, TRUE)' \in results')
    <3>1. CASE u = t
      BY <1>1, <1>2, <2>1, <3>1
    <3>2. CASE u # t
      <4>1. job'[u] = job[u]  BY <1>2, <3>2
      <4>2. ResultOf(u, TRUE)' = ResultOf(u, TRUE)  BY <4>1 DEF ResultOf
      <4> QED  BY <1>1, <4>1, <4>2 DEF AskInv, UnaskedInv
    <3> QED  BY <3>1, <3>2
  <2>3. \A v \in watches' : v.token.asks \cap AllAsked' = {} \/ [token |-> v.token, ok |-> TRUE] \in results'
    BY <1>1 DEF AskInv, UnaskedInv
  <2> QED  BY <2>1, <2>2, <2>3 DEF UnaskedInv
<1> QED  BY <1>10, <1>11, <1>12, <1>13, <1>14, <1>15, <1>16, <1>17 DEF AskInv

\* No write of t may be delivered meanwhile, and only the one it turns to is let through.
Turns(t, j) ==
  /\ t \in Writers /\ job[t] # NoJob /\ job' = [job EXCEPT ![t] = j]
  /\ \A w \in Outgoing : Armed(w) => w.token.who # t
  /\ j = NoJob \/ j.asks = job[t].asks
  /\ j.wait # NoClient => ~j.delivered
  /\ j.delivered \/ j.asks \cap AllAsked = {}
  /\ Outgoing' = Outgoing /\ AllAsked' = AllAsked /\ Told' \subseteq Told
  /\ \A r \in Told : r \in Told' \/ r.token.who = t
  /\ \A g \in gates' : g \in gates \/
       (/\ g.gate.token.who = t /\ g.gate.token.asks = job[t].asks
        /\ g.deliver /\ g.gate.part = "ask" => j.asks = job[t].asks /\ g.gate.token.client = j.wait)
  /\ UNCHANGED <<watches, pending, queries, buffer, reading, timers, pauses>>

LEMMA TurnKeeps ==
  ASSUME OutputAssumption, Inv, AskInv, WriteInv', AskedOnce', NEW t, NEW j, Turns(t, j)
  PROVE  AskInv'
<1>1. /\ t \in Writers /\ job[t] # NoJob /\ \A w \in Outgoing : Armed(w) => w.token.who # t
      /\ j = NoJob \/ j.asks = job[t].asks
      /\ j.wait # NoClient => ~j.delivered
      /\ j.delivered \/ j.asks \cap AllAsked = {}
      /\ Outgoing' = Outgoing /\ AllAsked' = AllAsked /\ Told' \subseteq Told
      /\ \A r \in Told : r \in Told' \/ r.token.who = t
      /\ UNCHANGED <<watches, pending, queries, buffer, reading, timers, pauses>>
  BY DEF Turns
<1>2. \A u \in Writers : job'[u] = IF u = t THEN j ELSE job[u]  BY DEF Turns, Inv, JobInv
<1>3. \A g \in gates' : g \in gates \/
        (/\ g.gate.token.who = t /\ g.gate.token.asks = job[t].asks
         /\ g.deliver /\ g.gate.part = "ask" => j.asks = job[t].asks /\ g.gate.token.client = j.wait)
  BY DEF Turns
<1>4. NoJob.asks = {}  BY DEF NoJob
<1>5. job[t].asks # {} /\ j.asks \in {job[t].asks, {}} /\ job[t].asks \subseteq queries
  BY <1>1, <1>4, JobParts DEF AskInv, FullInv
<1>6. Resender \notin Writers
  <2>1. MaxPauses \in Nat  BY DEF OutputAssumption
  <2> QED  BY <2>1 DEF Resender, Writers, Reader
<1>7. \A w \in Outgoing : /\ w.token \in Known /\ w.token.who \in Writers \cup {Resender}
                          /\ w.token.asks = w.asks /\ w.asks # {}
  <2> TAKE w \in Outgoing
  <2>1. w.token \in Known  BY DEF Known
  <2>2. w.token.who \in Writers \cup {Resender}  BY <2>1 DEF AskInv, FreshInv, Fresh
  <2>3. w.token.asks = w.asks /\ w.asks # {}  BY OutgoingAre DEF Inv, AskInv
  <2> QED  BY <2>1, <2>2, <2>3
<1>8. SentInv' /\ ToldInv'  BY <1>1 DEF AskInv, SentInv, ToldInv
<1>9. ApartInv'
  <2>1. \A u \in Writers : job'[u].asks \subseteq job[u].asks  BY <1>2, <1>5
  <2>2. Unsent' = Unsent  BY <1>1 DEF Unsent
  <2>3. \A u \in Writers : job'[u].asks \cap Unsent' = {}  BY <2>1, <2>2 DEF AskInv, ApartInv
  <2>4. \A u, s \in Writers : u # s => job'[u].asks \cap job'[s].asks = {}
    BY <2>1 DEF AskInv, ApartInv
  <2>5. \A v \in watches' :
          /\ v.token.asks \cap Unsent' = {} /\ \A u \in Writers : v.token.asks \cap job'[u].asks = {}
          /\ \A w \in watches' : v # w => v.token.asks \cap w.token.asks = {}
    BY <1>1, <2>1, <2>2 DEF AskInv, ApartInv
  <2> QED  BY <1>1, <2>3, <2>4, <2>5 DEF AskInv, ApartInv
<1>10. FullInv'  BY <1>1, <1>2, <1>5 DEF AskInv, FullInv
<1>11. FreshInv'
  <2>1. \A k \in Known' : k \in Known \/ (k.who = t /\ k.asks = job[t].asks)
    <3>1. \A w \in Outgoing' : w.token \in Known  BY <1>1 DEF Known
    <3>2. \A r \in Told' : r.token \in Known  BY <1>1 DEF Known
    <3>3. \A g \in gates' : g.gate.token \in Known \/ (g.gate.token.who = t /\ g.gate.token.asks = job[t].asks)
      BY <1>3 DEF Known
    <3> QED  BY <3>1, <3>2, <3>3 DEF Known
  <2>2. ASSUME NEW k, k.who = t, k.asks = job[t].asks
        PROVE  Fresh(k)'
    <3>1. job[t].asks # reading.asks  BY <1>1, <1>5 DEF AskInv, ApartInv, Unsent
    <3>2. t \notin timers /\ ~(t > pauses)  BY <1>1 DEF Inv, TimerInv
    <3>3. t \in Nat /\ pauses \in Nat
      <4>1. MaxPauses \in Nat /\ pauses \in Nat  BY DEF OutputAssumption, Inv, TimerInv
      <4> QED  BY <1>1, <4>1 DEF Writers, Reader
    <3>4. t <= pauses  BY <3>2, <3>3
    <3> QED  BY <1>1, <1>5, <2>2, <3>1, <3>2, <3>4 DEF Fresh
  <2>3. \A k \in Known : Fresh(k)'  BY <1>1 DEF AskInv, FreshInv, Fresh
  <2> QED  BY <2>1, <2>2, <2>3 DEF FreshInv
<1>12. WatchedInv'  BY <1>1 DEF AskInv, WatchedInv
<1>13. AwaitedInv'
  <2> SUFFICES ASSUME NEW w \in Outgoing, Armed(w)', w.token.who # Resender
               PROVE  job'[w.token.who].asks = w.asks /\ job'[w.token.who].wait = w.token.client
    BY <1>1 DEF AwaitedInv
  <2>1. CASE Armed(w)
    <3>1. job[w.token.who].asks = w.asks /\ job[w.token.who].wait = w.token.client
      BY <2>1 DEF AskInv, AwaitedInv
    <3>2. w.token.who # t /\ w.token.who \in Writers  BY <1>1, <1>7, <2>1
    <3> QED  BY <1>2, <3>1, <3>2
  <2>2. CASE ~Armed(w)
    <3> DEFINE g == [gate |-> w.gate, deliver |-> TRUE]
    <3>1. g \in gates' /\ g \notin gates /\ w.gate # NoGate  BY <2>2 DEF Armed
    <3>2. w.gate = [token |-> w.token, part |-> "ask"]  BY <3>1 DEF AskInv, SentInv
    <3>3. g.gate = w.gate /\ g.deliver = TRUE  OBVIOUS
    <3> HIDE DEF g
    <3>4. g.gate.token = w.token /\ g.gate.part = "ask"  BY <3>2, <3>3
    <3>5. /\ w.token.who = t /\ w.token.asks = job[t].asks /\ j.asks = job[t].asks /\ w.token.client = j.wait
      BY <1>3, <3>1, <3>3, <3>4
    <3> QED  BY <1>1, <1>2, <1>7, <3>5
  <2> QED  BY <2>1, <2>2
<1>14. UnaskedInv'
  <2>1. Unsent' \cap AllAsked' = {}  BY <1>1 DEF AskInv, UnaskedInv, Unsent
  <2>2. ASSUME NEW u \in Writers
        PROVE  /\ job'[u].wait # NoClient => ~job'[u].delivered
               /\ job'[u].delivered \/ job'[u].asks \cap AllAsked' = {}
                    \/ (job'[u].wait # NoClient /\ ResultOf(u, TRUE)' \in results')
    <3>1. CASE u = t
      BY <1>1, <1>2, <3>1
    <3>2. CASE u # t
      <4> DEFINE r == ResultOf(u, TRUE)
      <4>1. job'[u] = job[u]  BY <1>2, <3>2
      <4>2. r' = r  BY <4>1 DEF ResultOf
      <4>3. r.token.who = u /\ r.token.asks = job[u].asks  BY DEF ResultOf
      <4> HIDE DEF r
      <4>4. job[u].asks = {} \/ (r \in results => r \in results')  BY <1>1, <3>2, <4>3 DEF Told
      <4>5. /\ job[u].wait # NoClient => ~job[u].delivered
            /\ job[u].delivered \/ job[u].asks \cap AllAsked = {} \/ (job[u].wait # NoClient /\ r \in results)
        BY DEF AskInv, UnaskedInv, r
      <4> QED  BY <1>1, <4>1, <4>2, <4>4, <4>5 DEF r
    <3> QED  BY <3>1, <3>2
  <2>3. ASSUME NEW v \in watches'
        PROVE  v.token.asks \cap AllAsked' = {} \/ ResultOn(v, TRUE) \in results'
    <3> DEFINE r == ResultOn(v, TRUE)
    <3>1. r.token = v.token /\ r = [token |-> v.token, ok |-> TRUE]  BY DEF ResultOn
    <3>2. v \in watches /\ v.token.asks # {} /\ v.token.who = Resender  BY <1>1 DEF AskInv, FullInv
    <3>3. v.token.asks \cap AllAsked = {} \/ r \in results  BY <3>1, <3>2 DEF AskInv, UnaskedInv
    <3> HIDE DEF r
    <3>4. r \in results => r \in results'  BY <1>1, <1>6, <3>1, <3>2 DEF Told
    <3> QED  BY <1>1, <3>3, <3>4 DEF r
  <2> QED  BY <2>1, <2>2, <2>3 DEF UnaskedInv, ResultOn
<1> QED  BY <1>8, <1>9, <1>10, <1>11, <1>12, <1>13, <1>14 DEF AskInv

(***************************************************************************)
(* The steps of the clients                                                *)
(***************************************************************************)
LEMMA SameAsked ==
  ASSUME AskInv, \A c \in Clients : client'[c].asked = client[c].asked
  PROVE  AllAsked' = AllAsked /\ AskedOnce'
BY DEF AllAsked, AskInv, AskedOnce

LEMMA OneClient ==
  ASSUME OutputAssumption, ClientInv, WriteInv, NEW c \in Clients, NEW p,
         client' = [client EXCEPT ![c] = p], Tidied(p)
  PROVE  /\ WriteInv' /\ Outgoing' \subseteq (Outgoing \ Carries(client[c])) \cup Carries(p)
         /\ client'[c] = p /\ \A d \in Clients \ {c} : client'[d] = client[d]
<1>1. client'[c] = p /\ \A d \in Clients \ {c} : client'[d] = client[d]  BY DEF ClientInv
<1>2. WriteInv'  BY <1>1 DEF WriteInv
<1>3. ASSUME NEW d \in Clients, NEW w \in Carries(client'[d])
      PROVE  w \in (Outgoing \ Carries(client[c])) \cup Carries(p)
  <2>1. CASE d = c
    BY <1>1, <1>3, <2>1
  <2>2. CASE d # c
    <3>1. w \in Carries(client[d])  BY <1>1, <1>3, <2>2
    <3>2. w \in Outgoing /\ w.token.client = d  BY <3>1, OutgoingIs
    <3>3. \A v \in Carries(client[c]) : v.token.client = c  BY OutgoingIs
    <3> QED  BY <2>2, <3>2, <3>3
  <2> QED  BY <2>1, <2>2
<1>4. \A w \in Outgoing' : \E d \in Clients : w \in Carries(client'[d])  BY DEF Outgoing
<1> QED  BY <1>1, <1>2, <1>3, <1>4

\* A client step that takes nothing away but what has been taken.
LEMMA QuietClient ==
  ASSUME OutputAssumption, Inv, AskInv, UNCHANGED <<windowVars, job, queryVars, pauseVars>>,
         gates' \subseteq gates, Told' = Told,
         NEW c \in Clients, NEW p, client' = [client EXCEPT ![c] = p], Tidied(p),
         Carries(p) \subseteq Carries(client[c]), p.asked = client[c].asked
  PROVE  AskInv'
<1>1. /\ WriteInv' /\ Outgoing' \subseteq (Outgoing \ Carries(client[c])) \cup Carries(p)
      /\ client'[c] = p /\ \A d \in Clients \ {c} : client'[d] = client[d]
  BY OneClient DEF Inv, AskInv
<1>2. Outgoing' \subseteq Outgoing  BY <1>1 DEF Outgoing
<1>3. \A d \in Clients : client'[d].asked = client[d].asked  BY <1>1
<1>4. UNCHANGED <<queries, reading, job, watches, pending, buffer, timers, pauses>>
  BY DEF windowVars, queryVars, pauseVars
<1>5. AllAsked' = AllAsked  BY <1>3, SameAsked
<1>6. Quiet  BY <1>2, <1>3, <1>4, <1>5 DEF Quiet, Timing
<1> QED  BY <1>1, <1>6, QuietKeeps

\* Put back for the sake of its bytes, or put aside for another of its parts.
LEMMA SameBooks ==
  ASSUME NEW r, NEW p, p.queue = r.queue, p.held = r.held
  PROVE  (Tidied(r) => Tidied(p)) /\ Carries(p) = Carries(r)
BY DEF Tidied, Carries

LEMMA TakeWriteAsks ==
  ASSUME OutputAssumption, Inv, AskInv, NEW c \in Clients, TakeWrite(c)
  PROVE  AskInv'
<1> DEFINE r == client[c]
           p == [r EXCEPT !.held = Head(r.queue), !.queue = Tail(r.queue)]
<1>1. r.held = NoWrite /\ r.queue # <<>> /\ client' = [client EXCEPT ![c] = p]
  <2>1. client' = [client EXCEPT ![c].held = Head(r.queue), ![c].queue = Tail(r.queue)]
    BY DEF TakeWrite
  <2>2. client' = [client EXCEPT ![c] = p]  BY <2>1 DEF Inv, ClientInv
  <2> QED  BY <2>2 DEF TakeWrite
<1>2. UNCHANGED <<windowVars, job, queryVars, pauseVars>> /\ gates' \subseteq gates /\ Told' = Told
  BY DEF TakeWrite, Told
<1>3. r \in Holdings(c, queries) /\ Tidied(r)  BY DEF Inv, ClientInv, AskInv, WriteInv
<1>4. p.held = Head(r.queue) /\ p.queue = Tail(r.queue) /\ p.asked = r.asked  BY <1>3 DEF Holdings
<1> HIDE DEF r, p
<1>5. r.queue \in Seq(Good(c, queries)) /\ NoWrite \in Good(c, queries) /\ Tidy(r.queue, NoWrite)
  BY <1>1, <1>3, HoldingParts, NoWriteGood DEF Tidied
<1>6. Tidy(Tail(r.queue), Head(r.queue)) /\ Askers(Tail(r.queue), Head(r.queue)) = Askers(r.queue, NoWrite)
  BY <1>1, <1>5, TakeTidy
<1>7. Tidied(p) /\ Carries(p) = Carries(r)  BY <1>1, <1>4, <1>6 DEF Tidied, Carries
<1> QED  BY <1>1, <1>2, <1>4, <1>7, QuietClient DEF r

LEMMA ReturnedTidy ==
  ASSUME OutputAssumption, NEW c \in Clients, NEW Q, NEW r \in Holdings(c, Q), Tidied(r),
         NEW p, p.queue = Returned(r).queue, p.held = Returned(r).held
  PROVE  Tidied(p) /\ Carries(p) = Carries(r) \ {r.held}
<1>1. p.queue = r.queue /\ p.held = NoWrite  BY ReturnedHolds
<1>2. Tidy(r.queue, NoWrite) /\ Askers(r.queue, NoWrite) = Askers(r.queue, r.held) \ {r.held}
  BY ReturnTidy DEF Tidied
<1> QED  BY <1>1, <1>2 DEF Tidied, Carries

LEMMA SkipWriteAsks ==
  ASSUME OutputAssumption, Inv, AskInv, NEW c \in Clients, SkipWrite(c)
  PROVE  AskInv'
<1> DEFINE p == Returned(client[c])
<1>1. /\ client' = [client EXCEPT ![c] = p] /\ UNCHANGED <<windowVars, job, queryVars, pauseVars>>
      /\ gates' \subseteq gates /\ Told' = Told
  BY DEF SkipWrite, Told
<1>2. client[c] \in Holdings(c, queries) /\ Tidied(client[c])  BY DEF Inv, ClientInv, AskInv, WriteInv
<1>3. p.asked = client[c].asked  BY <1>2, ReturnedHolds
<1>4. Tidied(p) /\ Carries(p) \subseteq Carries(client[c])  BY <1>2, ReturnedTidy
<1> HIDE DEF p
<1> QED  BY <1>1, <1>3, <1>4, QuietClient

LEMMA ReportTold ==
  ASSUME NEW w, w.token.asks = w.asks, NEW ok, Report(w, ok)
  PROVE  Told' = Told \cup {ResultOn(v, ok) : v \in {u \in {w} : u.asks # {}}}
<1>1. NoToken.asks = {}  BY DEF NoToken
<1>2. ResultOn(w, ok).token = w.token  BY DEF ResultOn
<1>3. CASE w.asks = {}
  <2>1. results' \in {results, results \cup {ResultOn(w, ok)}}  BY DEF Report, ResultOn
  <2>2. Told' = Told  BY <1>2, <1>3, <2>1 DEF Told
  <2> QED  BY <1>3, <2>2
<1>4. CASE w.asks # {}
  <2>1. results' = results \cup {ResultOn(w, ok)}  BY <1>1, <1>4 DEF Report, ResultOn
  <2>2. Told' = Told \cup {ResultOn(w, ok)}  BY <1>2, <1>4, <2>1 DEF Told
  <2> QED  BY <1>4, <2>2
<1> QED  BY <1>3, <1>4

\* The write in hand is written, or fails.
LEMMA HeldReports ==
  ASSUME OutputAssumption, Inv, AskInv, UNCHANGED <<windowVars, job, queryVars, pauseVars>>,
         gates' \subseteq gates, NEW c \in Clients, NEW p, client' = [client EXCEPT ![c] = p],
         p.queue = Returned(client[c]).queue, p.held = Returned(client[c]).held, NEW ok \in BOOLEAN,
         Report(client[c].held, ok), ok => (client[c].held.asks # {} => Armed(client[c].held)),
         p.asked = client[c].asked \cup (IF ok THEN client[c].held.asks ELSE {})
  PROVE  AskInv'
<1> DEFINE w == client[c].held
           X == {u \in {w} : u.asks # {}}
<1>1. client[c] \in Holdings(c, queries) /\ Tidied(client[c])  BY DEF Inv, ClientInv, AskInv, WriteInv
<1>2. Tidied(p) /\ Carries(p) = Carries(client[c]) \ {w}  BY <1>1, ReturnedTidy
<1>3. w.token.asks = w.asks  BY <1>1 DEF Tidied, Tidy
<1>4. X \subseteq Carries(client[c])  BY DEF Carries, Askers
<1>5. X \subseteq Outgoing  BY <1>4 DEF Outgoing
<1>6. /\ WriteInv' /\ Outgoing' \subseteq (Outgoing \ Carries(client[c])) \cup Carries(p)
      /\ client'[c] = p /\ \A d \in Clients \ {c} : client'[d] = client[d]
  BY <1>2, OneClient DEF Inv, AskInv
<1>7. Outgoing' \subseteq Outgoing \ X
  <2>1. Carries(client[c]) \subseteq Outgoing  BY DEF Outgoing
  <2> HIDE DEF w
  <2> QED  BY <1>2, <1>4, <1>6, <2>1
<1>8. Told' = Told \cup {ResultOn(v, ok) : v \in X}  BY <1>3, ReportTold
<1>9. UNCHANGED <<job, watches, pending, queries, buffer, reading, timers, pauses>>
  BY DEF windowVars, queryVars, pauseVars
<1>10. AllAsked' \subseteq AllAsked \cup (UNION {v.asks : v \in {u \in X : ok}})
  <2> SUFFICES ASSUME NEW d \in Clients, NEW x \in client'[d].asked
               PROVE  x \in AllAsked \/ (ok /\ w.asks # {} /\ x \in w.asks)
    BY DEF AllAsked
  <2>1. CASE d = c
    BY <1>6, <2>1 DEF AllAsked
  <2>2. CASE d # c
    BY <1>6, <2>2 DEF AllAsked
  <2> QED  BY <2>1, <2>2
<1>11. ok => \A v \in X : Armed(v)  OBVIOUS
<1>12. AskedOnce'
  <2>1. ok /\ w.asks # {} => w.asks \cap AllAsked = {}
    <3>1. w.asks # {} => w \in X  OBVIOUS
    <3> QED  BY <1>5, <1>11, <3>1, ArmedUnasked
  <2>2. client'[c].asked \subseteq client[c].asked \cup w.asks
        /\ (client'[c].asked = client[c].asked \/ w.asks \cap AllAsked = {})
    BY <1>6, <2>1
  <2>3. \A d \in Clients \ {c} : client'[d].asked = client[d].asked /\ client[d].asked \subseteq AllAsked
    BY <1>6 DEF AllAsked
  <2> HIDE DEF w
  <2>4. \A d, e \in Clients : d # e => client[d].asked \cap client[e].asked = {}  BY DEF AskInv, AskedOnce
  <2>5. \A d \in Clients \ {c} : client'[d].asked \cap client'[c].asked = {}  BY <2>2, <2>3, <2>4
  <2>6. \A d, e \in Clients \ {c} : d # e => client'[d].asked \cap client'[e].asked = {}
    BY <2>3, <2>4
  <2> QED  BY <2>5, <2>6 DEF AskedOnce
<1> HIDE DEF X, w
<1>13. Reports(X, ok)  BY <1>5, <1>7, <1>8, <1>9, <1>10, <1>11 DEF Reports
<1> QED  BY <1>6, <1>12, <1>13, ReportKeeps

LEMMA DeliverWriteAsks ==
  ASSUME OutputAssumption, Inv, AskInv, NEW c \in Clients, DeliverWrite(c)
  PROVE  AskInv'
<1> DEFINE r == client[c]
           q == Returned(r)
           p == [q EXCEPT !.saw = q.saw \cup r.held.shows, !.asked = q.asked \cup r.held.asks]
<1>1. /\ client' = [client EXCEPT ![c] = p] /\ UNCHANGED <<windowVars, job, queryVars, pauseVars>>
      /\ gates' \subseteq gates /\ Report(r.held, TRUE)
      /\ (r.held.gate # NoGate => [gate |-> r.held.gate, deliver |-> TRUE] \in gates)
  <2>1. client' = [client EXCEPT ![c] = p]  BY DEF DeliverWrite
  <2>2. /\ UNCHANGED <<windowVars, job, queryVars, pauseVars>> /\ gates' \subseteq gates /\ Report(r.held, TRUE)
        /\ (r.held.gate # NoGate => [gate |-> r.held.gate, deliver |-> TRUE] \in gates)
    BY DEF DeliverWrite
  <2> QED  BY <2>1, <2>2
<1>2. Armed(r.held)  BY <1>1 DEF Armed
<1>3. r \in Holdings(c, queries)  BY DEF Inv, ClientInv
<1>4. q \in Holdings(c, queries) /\ q.asked = r.asked  BY <1>3, ReturnedHolds
<1> HIDE DEF q
<1>5. p.queue = q.queue /\ p.held = q.held /\ p.asked = r.asked \cup r.held.asks
  BY <1>4 DEF Holdings
<1> HIDE DEF p
<1> QED  BY <1>1, <1>2, <1>5, HeldReports DEF q

LEMMA FailWriteAsks ==
  ASSUME OutputAssumption, Inv, AskInv, NEW c \in Clients, FailWrite(c)
  PROVE  AskInv'
<1> DEFINE q == Returned(client[c])
           p == [q EXCEPT !.gone = TRUE]
<1>1. /\ client' = [client EXCEPT ![c] = p] /\ UNCHANGED <<windowVars, job, queryVars, pauseVars>>
      /\ gates' \subseteq gates /\ Report(client[c].held, FALSE)
  <2>1. client' = [client EXCEPT ![c] = p] /\ Report(client[c].held, FALSE)  BY DEF FailWrite
  <2>2. UNCHANGED <<windowVars, job, queryVars, pauseVars>> /\ gates' \subseteq gates  BY DEF FailWrite
  <2> QED  BY <2>1, <2>2
<1>2. client[c] \in Holdings(c, queries)  BY DEF Inv, ClientInv
<1>3. q \in Holdings(c, queries) /\ q.asked = client[c].asked  BY <1>2, ReturnedHolds
<1> HIDE DEF q
<1>4. p.queue = q.queue /\ p.held = q.held /\ p.asked = client[c].asked \cup {}  BY <1>3 DEF Holdings
<1> HIDE DEF p
<1> QED  BY <1>1, <1>4, HeldReports DEF q

LEMMA FailQueuedAsks ==
  ASSUME OutputAssumption, Inv, AskInv, NEW c \in Clients, FailQueued(c)
  PROVE  AskInv'
<1> DEFINE r == client[c]
           p == [r EXCEPT !.queue = <<>>, !.gone = TRUE, !.bytes = r.bytes - Bytes(r.queue)]
           X == Carries(r)
           lost == {[token |-> w.token, ok |-> FALSE] : w \in {v \in ToSet(r.queue) : v.token # NoToken}}
<1>1. /\ client' = [client EXCEPT ![c] = p] /\ results' = results \cup lost /\ r.held = NoWrite
      /\ UNCHANGED <<windowVars, job, queryVars, pauseVars>> /\ gates' = gates
  <2>1. client' = [client EXCEPT ![c] = p] /\ results' = results \cup lost  BY DEF FailQueued
  <2>2. r.held = NoWrite /\ UNCHANGED <<windowVars, job, queryVars, pauseVars>> /\ gates' = gates
    BY DEF FailQueued
  <2> QED  BY <2>1, <2>2
<1>2. r \in Holdings(c, queries) /\ Tidied(r)  BY DEF Inv, ClientInv, AskInv, WriteInv
<1>3. p.queue = <<>> /\ p.held = NoWrite /\ p.asked = r.asked  BY <1>1, <1>2 DEF Holdings
<1> HIDE DEF r, p
<1>4. Tidied(p) /\ Carries(p) = {}  BY <1>3, NothingTidy DEF Tidied, Carries
<1>5. NoWrite.asks = {} /\ NoToken.asks = {}  BY DEF NoWrite, NoToken
<1>6. Told' = Told \cup {ResultOn(w, FALSE) : w \in X}
  <2>1. \A w \in ToSet(r.queue) : w.token.asks = w.asks  BY <1>2 DEF Tidied, Tidy
  <2>2. \A w \in ToSet(r.queue) : w \in X <=> w.asks # {}  BY DEF Carries, Askers
  <2>3. \A w \in X : w \in ToSet(r.queue)  BY <1>1, <1>5 DEF Carries, Askers
  <2>4. \A w : ResultOn(w, FALSE) = [token |-> w.token, ok |-> FALSE] /\ ResultOn(w, FALSE).token = w.token
    BY DEF ResultOn
  <2> HIDE DEF X
  <2>5. \A x \in lost : x.token.asks # {} => x \in {ResultOn(w, FALSE) : w \in X}
    <3> SUFFICES ASSUME NEW w \in ToSet(r.queue), w.token # NoToken, ResultOn(w, FALSE).token.asks # {}
                 PROVE  w \in X
      BY <2>4
    <3> QED  BY <2>1, <2>2, <2>4
  <2>6. \A w \in X : ResultOn(w, FALSE) \in lost /\ ResultOn(w, FALSE).token.asks # {}
    <3> TAKE w \in X
    <3>1. w \in ToSet(r.queue) /\ w.token.asks # {} /\ w.token # NoToken  BY <1>5, <2>1, <2>2, <2>3
    <3> QED  BY <2>4, <3>1
  <2> HIDE DEF lost
  <2> QED  BY <1>1, <2>5, <2>6 DEF Told
<1>7. /\ WriteInv' /\ Outgoing' \subseteq (Outgoing \ X) \cup {}
      /\ client'[c] = p /\ \A d \in Clients \ {c} : client'[d] = client[d]
  BY <1>1, <1>4, OneClient DEF Inv, AskInv, r
<1>8. AllAsked' = AllAsked /\ AskedOnce'
  <2>1. \A d \in Clients : client'[d].asked = client[d].asked  BY <1>3, <1>7 DEF r
  <2> QED  BY <2>1, SameAsked
<1>9. X \subseteq Outgoing  BY DEF Outgoing, r
<1>10. UNCHANGED <<job, watches, pending, queries, buffer, reading, timers, pauses>>
  BY <1>1 DEF windowVars, queryVars, pauseVars
<1> HIDE DEF X
<1>11. Reports(X, FALSE)  BY <1>1, <1>6, <1>7, <1>8, <1>9, <1>10 DEF Reports
<1> QED  BY <1>7, <1>8, <1>11, ReportKeeps

(***************************************************************************)
(* Clients come and go, and redraws begin                                  *)
(***************************************************************************)
LEMMA PausesFit ==
  ASSUME OutputAssumption, Inv'
  PROVE  pauses' <= MaxPauses
<1> DEFINE n == pauses'
           p == Paid'
           f == Cardinality(Flushing')
           o == Owed'
           h == Hidden'
<1>1. n \in Nat /\ MaxPauses \in Nat /\ n + p + f + o + h <= MaxPauses
  BY DEF Inv, TimerInv, BudgetInv, OutputAssumption
<1>2. p \in Nat
  <2>1. budget'.attach \in Nat /\ budget'.focus \in Nat /\ budget'.pause \in Nat /\ budget'.switch \in Nat
    BY DEF Inv, PlaceInv, Budgets
  <2> QED  BY <2>1, SumOfFour DEF Paid
<1>3. f \in Nat
  <2>1. IsFiniteSet(Clients) /\ Flushing' \subseteq Clients  BY DEF OutputAssumption, Flushing
  <2>2. IsFiniteSet(Flushing')  BY <2>1, FS_Subset
  <2> QED  BY <2>2, FS_CardinalityType
<1>4. o \in Nat /\ h \in Nat  BY DEF Owed, Hidden
<1> HIDE DEF n, p, f, o, h
<1>5. n <= MaxPauses  BY <1>1, <1>2, <1>3, <1>4
<1> QED  BY <1>5 DEF n

LEMMA PauseTimed ==
  ASSUME OutputAssumption, Inv', Paused \/ UNCHANGED pauseVars
  PROVE  Timing /\ buffer'.asks = buffer.asks
<1>1. CASE Paused
  <2>1. pauses' <= MaxPauses  BY PausesFit
  <2> QED  BY <1>1, <2>1 DEF Paused, Timing
<1>2. CASE UNCHANGED pauseVars
  BY <1>2 DEF pauseVars, Timing
<1> QED  BY <1>1, <1>2

\* A step that leaves the clients as they are.
LEMMA QuietElsewhere ==
  ASSUME OutputAssumption, Inv, AskInv, UNCHANGED <<client, job, gates, results, pending, watches, queries, reading>>,
         buffer'.asks = buffer.asks, Timing
  PROVE  AskInv'
<1>1. Outgoing' = Outgoing /\ Told' = Told /\ WriteInv'  BY DEF Outgoing, Told, AskInv, WriteInv
<1>2. AllAsked' = AllAsked  BY DEF AllAsked
<1>3. Quiet  BY <1>1, <1>2 DEF Quiet
<1> QED  BY <1>1, <1>3, QuietKeeps

LEMMA ClosedAsks ==
  ASSUME OutputAssumption, Inv, AskInv, UNCHANGED <<windowVars, job, gates, results, queryVars, pauseVars>>,
         NEW c \in Clients, client' = [client EXCEPT ![c].open = FALSE]
  PROVE  AskInv'
<1> DEFINE p == [client[c] EXCEPT !.open = FALSE]
<1>1. client' = [client EXCEPT ![c] = p]  BY DEF Inv, ClientInv
<1>2. client[c] \in Holdings(c, queries) /\ Tidied(client[c])  BY DEF Inv, ClientInv, AskInv, WriteInv
<1>3. p.held = client[c].held /\ p.queue = client[c].queue /\ p.asked = client[c].asked
  BY <1>2 DEF Holdings
<1> HIDE DEF p
<1>4. Tidied(p) /\ Carries(p) = Carries(client[c])  BY <1>2, <1>3, SameBooks
<1>5. Told' = Told /\ gates' \subseteq gates  BY DEF Told
<1> QED  BY <1>1, <1>3, <1>4, <1>5, QuietClient

LEMMA CloseClientAsks ==
  ASSUME OutputAssumption, Inv, AskInv, NEW c \in Clients, CloseClient(c)
  PROVE  AskInv'
BY ClosedAsks DEF CloseClient

LEMMA LeaveAsks ==
  ASSUME OutputAssumption, Inv, AskInv, NEW c \in Clients, Leave(c)
  PROVE  AskInv'
BY ClosedAsks DEF Leave

\* The replay for a client that attaches is waited for, and asks nothing.
LEMMA AttachAsks ==
  ASSUME OutputAssumption, Inv, AskInv, NEW c \in Clients, Attach(c)
  PROVE  AskInv'
<1> DEFINE k == [who |-> Attacher, asks |-> {}, client |-> c]
           w == [Replay EXCEPT !.token = k]
           u == [client[c] EXCEPT !.mark = emitted, !.flush = TRUE]
           p == IF shown THEN Put(u, w) ELSE client[c]
<1>1. client' = [client EXCEPT ![c] = p] /\ UNCHANGED <<windowVars, job, queryVars, pauseVars>>
      /\ gates' \subseteq gates /\ Told' = Told
  <2>1. client' = [client EXCEPT ![c] =
          IF shown THEN Put([@ EXCEPT !.mark = emitted, !.flush = TRUE], w) ELSE @]
    BY DEF Attach
  <2>2. client' = [client EXCEPT ![c] = p]  BY <2>1 DEF Inv, ClientInv
  <2> HIDE DEF p
  <2> QED  BY <2>2 DEF Attach, Told
<1>2. client[c] \in Holdings(c, queries) /\ Tidied(client[c]) /\ emitted \in Nat
  BY DEF Inv, ClientInv, AskInv, WriteInv, PlaceInv
<1>3. w \in Good(c, queries) /\ w.asks = {} /\ w.token.asks = {}
  <2>1. Replay \in Good(c, queries) /\ Replay.asks = {}  BY FrameGood DEF Inv
  <2>2. Attacher \in Nat  BY DEF OutputAssumption, Attacher
  <2>3. k \in Tokens(queries) /\ k.client = c /\ k.asks = {}  BY <2>2 DEF Tokens
  <2> HIDE DEF k
  <2>4. w.token = k /\ w.asks = {}  BY <2>1 DEF Good
  <2> QED  BY <2>1, <2>3, <2>4 DEF Good
<1>4. u \in Holdings(c, queries) /\ u.asked = client[c].asked
      /\ u.queue = client[c].queue /\ u.held = client[c].held
  <2>1. u = Marked(client[c], emitted, TRUE)  BY DEF Marked
  <2>2. MarkWell(c, queries, client[c], emitted, TRUE)  BY <1>2, MarkHolds
  <2>3. u.queue = client[c].queue /\ u.held = client[c].held  BY <1>2 DEF Holdings
  <2> QED  BY <2>1, <2>2, <2>3 DEF MarkWell
<1>5. Tidied(u) /\ Carries(u) = Carries(client[c])  BY <1>2, <1>4, SameBooks
<1> HIDE DEF u, w
<1>6. Tidied(Put(u, w)) /\ Carries(Put(u, w)) \subseteq Carries(u) \cup {x \in {w} : w.asks # {} /\ Fits(u, w)}
  BY <1>3, <1>4, <1>5, PutTidy DEF PutsTidily
<1>7. Put(u, w).asked = u.asked  BY <1>3, <1>4, PutGrows DEF Grown
<1>8. Tidied(p) /\ Carries(p) \subseteq Carries(client[c]) /\ p.asked = client[c].asked
  BY <1>2, <1>3, <1>4, <1>5, <1>6, <1>7
<1> HIDE DEF p
<1> QED  BY <1>1, <1>8, QuietClient

LEMMA FocusAsks ==
  ASSUME OutputAssumption, Inv, AskInv, NEW c \in Clients, Focus(c)
  PROVE  AskInv'
<1>1. UNCHANGED <<client, job, gates, results, pending, watches, queries, reading>>
      /\ buffer'.asks = buffer.asks /\ Timing
  BY DEF Focus, windowVars, queryVars, pauseVars, Timing
<1> QED  BY <1>1, QuietElsewhere

LEMMA HideAsks ==
  ASSUME OutputAssumption, Inv, AskInv, Hide
  PROVE  AskInv'
<1>1. UNCHANGED <<client, job, gates, results, pending, watches, queries, reading>>
      /\ buffer'.asks = buffer.asks /\ Timing
  BY DEF Hide, queryVars, pauseVars, Timing
<1> QED  BY <1>1, QuietElsewhere

LEMMA PauseAsks ==
  ASSUME OutputAssumption, Inv, AskInv, Inv', Pause
  PROVE  AskInv'
<1>1. UNCHANGED <<client, job, gates, results, pending, watches, queries, reading>> /\ Paused
  BY DEF Pause, windowVars, queryVars
<1>2. buffer'.asks = buffer.asks /\ Timing  BY <1>1, PauseTimed
<1> QED  BY <1>1, <1>2, QuietElsewhere

LEMMA UnchangedAsks ==
  ASSUME OutputAssumption, Inv, AskInv, UNCHANGED vars
  PROVE  AskInv'
<1>1. UNCHANGED <<client, job, gates, results, pending, watches, queries, reading>>
      /\ buffer'.asks = buffer.asks /\ Timing
  BY DEF vars, windowVars, queryVars, pauseVars, Timing
<1> QED  BY <1>1, QuietElsewhere

(***************************************************************************)
(* The steps of a job                                                      *)
(***************************************************************************)
\* No write of a thread that waits for none may be delivered, ...
LEMMA NoneArmed ==
  ASSUME OutputAssumption, Inv, AskInv, NEW t \in Writers,
         \/ job[t].wait = NoClient
         \/ \E ok \in BOOLEAN : job[t] # NoJob /\ ResultOf(t, ok) \in results
  PROVE  \A w \in Outgoing : Armed(w) => w.token.who # t
<1> SUFFICES ASSUME NEW w \in Outgoing, Armed(w), w.token.who = t PROVE FALSE
  OBVIOUS
<1>1. t # Resender
  <2>1. MaxPauses \in Nat  BY DEF OutputAssumption
  <2> QED  BY <2>1 DEF Resender, Writers, Reader
<1>2. job[t].asks = w.asks /\ job[t].wait = w.token.client  BY <1>1 DEF AskInv, AwaitedInv
<1>3. w.token.client # NoClient /\ w.token \in Tokens(queries) /\ w.token.asks = w.asks
  BY OutgoingAre DEF Inv, AskInv
<1>4. PICK ok \in BOOLEAN : job[t] # NoJob /\ ResultOf(t, ok) \in results  BY <1>2, <1>3
<1>5. ResultOf(t, ok).token = w.token
  <2>1. w.token = [who |-> t, asks |-> job[t].asks, client |-> job[t].wait]  BY <1>2, <1>3, TokenIs
  <2> QED  BY <2>1 DEF ResultOf
<1>6. ResultOf(t, ok) \in Told
  <2>1. w.token.asks # {}  BY <1>2, <1>3, <1>4 DEF AskInv, FullInv
  <2> QED  BY <1>4, <1>5, <2>1 DEF Told
<1> QED  BY <1>5, <1>6 DEF AskInv, ToldInv

\* ... and one that hears its write has failed knows nobody was asked.
LEMMA FailedUnasked ==
  ASSUME OutputAssumption, Inv, AskInv, NEW t \in Writers, Waiting(t), NEW ok \in BOOLEAN,
         ResultOf(t, ok) \in results
  PROVE  ok \/ job[t].asks \cap AllAsked = {}
<1> SUFFICES ASSUME ok = FALSE PROVE job[t].asks \cap AllAsked = {}
  OBVIOUS
<1>1. job[t].wait # NoClient /\ job[t].asks # {}  BY DEF Waiting, AskInv, FullInv
<1>2. \A b \in BOOLEAN : /\ ResultOf(t, b).token = [who |-> t, asks |-> job[t].asks, client |-> job[t].wait]
                         /\ ResultOf(t, b).ok = b /\ ResultOf(t, b).token.asks = job[t].asks
  BY DEF ResultOf
<1>3. ResultOf(t, TRUE) \notin results
  <2>1. SUFFICES ASSUME ResultOf(t, TRUE) \in results PROVE FALSE
    OBVIOUS
  <2>2. ResultOf(t, TRUE) \in Told /\ ResultOf(t, FALSE) \in Told  BY <1>1, <1>2, <2>1 DEF Told
  <2>3. ResultOf(t, TRUE) = ResultOf(t, FALSE)  BY <1>2, <2>2 DEF AskInv, ToldInv
  <2> QED  BY <1>2, <2>3
<1> QED  BY <1>1, <1>3 DEF AskInv, UnaskedInv

\* A job goes on, and the gates of its writes.
Onward(t, j) ==
  /\ job[t] # NoJob /\ job' = [job EXCEPT ![t] = j] /\ j.asks = job[t].asks
  /\ j.wait # NoClient => ~j.delivered
  /\ j.delivered \/ job[t].asks \cap AllAsked = {}
  /\ results' = results \/ \E ok \in BOOLEAN : results' = results \ {ResultOf(t, ok)}
  /\ \A g \in gates' : g \in gates \/
       (/\ g.gate.token.who = t /\ g.gate.token.asks = job[t].asks
        /\ g.deliver /\ g.gate.part = "ask" => g.gate.token.client = j.wait)

LEMMA OnwardKeeps ==
  ASSUME OutputAssumption, Inv, AskInv, UNCHANGED <<client, windowVars, queryVars, pauseVars>>,
         NEW t \in Writers, NEW j, Onward(t, j),
         \/ job[t].wait = NoClient
         \/ \E ok \in BOOLEAN : job[t] # NoJob /\ ResultOf(t, ok) \in results
  PROVE  AskInv'
<1>1. Outgoing' = Outgoing /\ AllAsked' = AllAsked /\ WriteInv' /\ AskedOnce'
  BY DEF Outgoing, AllAsked, AskInv, WriteInv, AskedOnce
<1>2. Told' \subseteq Told /\ \A r \in Told : r \in Told' \/ r.token.who = t
  <2>1. \A ok \in BOOLEAN : ResultOf(t, ok).token.who = t  BY DEF ResultOf
  <2> QED  BY <2>1 DEF Onward, Told
<1>3. \A w \in Outgoing : Armed(w) => w.token.who # t  BY NoneArmed
<1>4. UNCHANGED <<watches, pending, queries, buffer, reading, timers, pauses>>
  BY DEF windowVars, queryVars, pauseVars
<1>5. Turns(t, j)  BY <1>1, <1>2, <1>3, <1>4 DEF Turns, Onward
<1> QED  BY <1>1, <1>5, TurnKeeps

LEMMA AwaitPrimaryAsks ==
  ASSUME OutputAssumption, Inv, AskInv, NEW t \in Writers, AwaitPrimary(t)
  PROVE  AskInv'
<1>1. PICK ok \in BOOLEAN :
        /\ ResultOf(t, ok) \in results /\ results' = results \ {ResultOf(t, ok)}
        /\ job' = [job EXCEPT ![t].wait = NoClient, ![t].delivered = ok]
  BY DEF AwaitPrimary
<1> DEFINE j == [job[t] EXCEPT !.wait = NoClient, !.delivered = ok]
<1>2. job' = [job EXCEPT ![t] = j]  BY <1>1 DEF Inv, JobInv
<1>3. Waiting(t) /\ job[t] # NoJob /\ UNCHANGED <<client, windowVars, queryVars, pauseVars, gates>>
  BY DEF AwaitPrimary, Waiting
<1>4. job[t] \in Jobs(queries)  BY JobParts
<1>5. j.delivered = ok /\ j.asks = job[t].asks /\ j.wait = NoClient  BY <1>4 DEF Jobs
<1>6. ok \/ job[t].asks \cap AllAsked = {}  BY <1>1, <1>3, FailedUnasked
<1> HIDE DEF j
<1>7. Onward(t, j)  BY <1>1, <1>2, <1>3, <1>5, <1>6 DEF Onward
<1> QED  BY <1>1, <1>3, <1>7, OnwardKeeps

LEMMA AwaitFallbackAsks ==
  ASSUME OutputAssumption, Inv, AskInv, NEW t \in Writers, AwaitFallback(t)
  PROVE  AskInv'
<1> DEFINE c == Head(job[t].rest)
<1>1. PICK ok \in BOOLEAN :
        /\ ResultOf(t, ok) \in results /\ results' = results \ {ResultOf(t, ok)}
        /\ job' = [job EXCEPT ![t].wait = NoClient, ![t].rest = Tail(@), ![t].delivered = ok]
  BY DEF AwaitFallback
<1> DEFINE j == [job[t] EXCEPT !.wait = NoClient, !.rest = Tail(job[t].rest), !.delivered = ok]
<1>2. job' = [job EXCEPT ![t] = j]  BY <1>1 DEF Inv, JobInv
<1>3. Waiting(t) /\ job[t] # NoJob /\ UNCHANGED <<client, windowVars, queryVars, pauseVars>>
      /\ gates' = gates \cup RestDecided(t, c, FALSE)
  BY DEF AwaitFallback, Waiting
<1>4. job[t] \in Jobs(queries)  BY JobParts
<1>5. j.delivered = ok /\ j.asks = job[t].asks /\ j.wait = NoClient  BY <1>4 DEF Jobs
<1>6. ok \/ job[t].asks \cap AllAsked = {}  BY <1>1, <1>3, FailedUnasked
<1>7. \A g \in RestDecided(t, c, FALSE) :
        g.gate.token.who = t /\ g.gate.token.asks = job[t].asks /\ g.gate.part = "rest"
  BY DEF RestDecided, Decided, GateOf
<1> HIDE DEF j, c
<1>8. \A g \in gates' : g \in gates \/
        (/\ g.gate.token.who = t /\ g.gate.token.asks = job[t].asks
         /\ g.deliver /\ g.gate.part = "ask" => g.gate.token.client = j.wait)
  BY <1>3, <1>7
<1>9. Onward(t, j)  BY <1>1, <1>2, <1>3, <1>5, <1>6, <1>8 DEF Onward
<1> QED  BY <1>1, <1>3, <1>9, OnwardKeeps

LEMMA PassFallbackAsks ==
  ASSUME OutputAssumption, Inv, AskInv, NEW t \in Writers, PassFallback(t)
  PROVE  AskInv'
<1> DEFINE c == Head(job[t].rest)
           j == [job[t] EXCEPT !.rest = Tail(job[t].rest)]
           G == {Decided(t, c, "ask", FALSE)} \cup RestDecided(t, c, TRUE)
<1>1. /\ job' = [job EXCEPT ![t] = j] /\ job[t].rest # <<>> /\ results' = results
      /\ job[t].wait = NoClient /\ job[t].delivered /\ gates' = gates \cup G
      /\ UNCHANGED <<client, windowVars, queryVars, pauseVars>>
  BY DEF PassFallback, Inv, JobInv
<1>2. job[t] # NoJob  BY <1>1 DEF NoJob
<1>3. job[t] \in Jobs(queries)  BY JobParts
<1>4. (j.delivered <=> job[t].delivered) /\ j.asks = job[t].asks /\ j.wait = job[t].wait
  BY <1>3 DEF Jobs
<1>5. \A g \in G : /\ g.gate.token.who = t /\ g.gate.token.asks = job[t].asks
                   /\ ~(g.deliver /\ g.gate.part = "ask")
  BY DEF RestDecided, Decided, GateOf
<1> HIDE DEF j, c, G
<1>6. \A g \in gates' : g \in gates \/
        (/\ g.gate.token.who = t /\ g.gate.token.asks = job[t].asks
         /\ g.deliver /\ g.gate.part = "ask" => g.gate.token.client = j.wait)
  BY <1>1, <1>5
<1>7. Onward(t, j)  BY <1>1, <1>2, <1>4, <1>6 DEF Onward
<1> QED  BY <1>1, <1>7, OnwardKeeps

LEMMA TryFallbackAsks ==
  ASSUME OutputAssumption, Inv, AskInv, NEW t \in Writers, TryFallback(t)
  PROVE  AskInv'
<1> DEFINE c == Head(job[t].rest)
           j == [job[t] EXCEPT !.wait = c]
           h == Decided(t, c, "ask", TRUE)
<1>1. /\ job' = [job EXCEPT ![t] = j] /\ job[t].rest # <<>> /\ results' = results
      /\ job[t].wait = NoClient /\ ~job[t].delivered /\ gates' = gates \cup {h}
      /\ UNCHANGED <<client, windowVars, queryVars, pauseVars>>
  BY DEF TryFallback, Inv, JobInv
<1>2. job[t] # NoJob  BY <1>1 DEF NoJob
<1>3. job[t] \in Jobs(queries)  BY JobParts
<1>4. (j.delivered <=> job[t].delivered) /\ j.asks = job[t].asks /\ j.wait = c
  BY <1>3 DEF Jobs
<1>5. h.gate.token.who = t /\ h.gate.token.asks = job[t].asks /\ h.gate.token.client = c
  BY DEF Decided, GateOf
<1>6. job[t].asks \cap AllAsked = {}  BY <1>1 DEF AskInv, UnaskedInv
<1> HIDE DEF j, c, h
<1>7. Onward(t, j)  BY <1>1, <1>2, <1>4, <1>5, <1>6 DEF Onward
<1> QED  BY <1>1, <1>7, OnwardKeeps

LEMMA EndJobDelivered ==
  ASSUME OutputAssumption, Inv, AskInv, NEW t \in Writers, EndJob(t), job[t].delivered
  PROVE  AskInv'
<1>1. /\ job[t] # NoJob /\ job[t].wait = NoClient /\ job' = [job EXCEPT ![t] = NoJob]
      /\ UNCHANGED <<client, queryVars, windowVars, gates, results, pauseVars>>
  BY DEF EndJob
<1>2. Outgoing' = Outgoing /\ AllAsked' = AllAsked /\ WriteInv' /\ AskedOnce' /\ Told' = Told
  BY <1>1 DEF Outgoing, AllAsked, AskInv, WriteInv, AskedOnce, Told
<1>3. \A w \in Outgoing : Armed(w) => w.token.who # t  BY <1>1, NoneArmed
<1>4. UNCHANGED <<watches, pending, queries, buffer, reading, timers, pauses, gates>>
  BY <1>1 DEF windowVars, queryVars, pauseVars
<1>5. NoJob.delivered /\ NoJob.wait = NoClient  BY DEF NoJob
<1>6. Turns(t, NoJob)  BY <1>1, <1>2, <1>3, <1>4, <1>5 DEF Turns
<1> QED  BY <1>2, <1>6, TurnKeeps

(***************************************************************************)
(* Queries are sent again                                                  *)
(***************************************************************************)
LEMMA DataSize ==
  ASSUME NEW asks
  PROVE  Data({}, asks).size \in Nat
<1>1. IsFiniteSet({"shows"}) /\ IsFiniteSet({"asks"})  BY FS_Singleton
<1>2. IsFiniteSet({s \in {"shows"} : FALSE}) /\ IsFiniteSet({a \in {"asks"} : asks # {}})
  BY <1>1, FS_Subset
<1>3. Cardinality({s \in {"shows"} : FALSE}) \in Nat /\ Cardinality({a \in {"asks"} : asks # {}}) \in Nat
  BY <1>2, FS_CardinalityType
<1> QED  BY <1>3 DEF Data, NoWrite

\* Client c is as tidy as it was, and the one that takes w has that.
TidyStill(cs, f, w, ds, c) ==
  /\ Tidied(ds[c]) /\ ds[c].asked = cs[c].asked
  /\ Carries(ds[c]) \subseteq Carries(cs[c]) \cup {x \in {w} : Taker(cs, f, w) # 0 /\ c = f[Taker(cs, f, w)]}

MayTake(cs, f, w, c, Q) ==
  Taker(cs, f, w) # 0 /\ c = f[Taker(cs, f, w)] =>
    w \in Good(c, Q) /\ w.token.asks = w.asks /\ \A v \in Carries(cs[c]) : v.token # w.token

LEMMA OfferedTidy ==
  ASSUME OutputAssumption, NEW Q, NEW cs, NEW f, NEW w, NEW ds, OfferedWell(cs, f, w, Q, ds),
         NEW c \in Clients, cs[c] \in Holdings(c, Q), Tidied(cs[c]), MayTake(cs, f, w, c, Q)
  PROVE  TidyStill(cs, f, w, ds, c)
<1> DEFINE taken == Taker(cs, f, w) # 0 /\ c = f[Taker(cs, f, w)]
           q == cs[c].queue
           h == cs[c].held
<1>1. /\ ds[c].held = h /\ ds[c].asked = cs[c].asked
      /\ ds[c].queue = q \/ (taken /\ ds[c].queue = Appended(q, w))
  BY DEF OfferedWell, Grown
<1>2. q \in Seq(Good(c, Q)) /\ Tidy(q, h)  BY HoldingParts DEF Tidied
<1>3. CASE ds[c].queue = q
  <2>1. Tidied(ds[c]) /\ Carries(ds[c]) = Carries(cs[c])  BY <1>1, <1>3, SameBooks
  <2> QED  BY <1>1, <2>1 DEF TidyStill
<1>4. CASE taken /\ ds[c].queue = Appended(q, w)
  <2>1. w \in Good(c, Q) /\ w.token.asks = w.asks /\ \A v \in Askers(q, h) : v.token # w.token
    BY <1>4 DEF Carries, MayTake
  <2> HIDE DEF q, h, taken
  <2>2. /\ Tidy(Appended(q, w), h)
        /\ Askers(Appended(q, w), h) = Askers(q, h) \cup {x \in {w} : w.asks # {}}
    BY <1>2, <2>1, TidyAppended
  <2>3. Tidied(ds[c]) /\ Carries(ds[c]) \subseteq Askers(q, h) \cup {w}
    BY <1>1, <1>4, <2>2 DEF Tidied, Carries
  <2>4. Askers(q, h) = Carries(cs[c])  BY DEF Carries, q, h
  <2> QED  BY <1>1, <1>4, <2>3, <2>4 DEF taken, TidyStill
<1> QED  BY <1>1, <1>3, <1>4

\* What the clients have become before something is offered: nothing new asks.
Spare(cs) ==
  /\ cs = [c \in Clients |-> cs[c]]
  /\ \A c \in Clients : /\ cs[c] \in Holdings(c, queries) /\ Tidied(cs[c])
                        /\ Carries(cs[c]) \subseteq Carries(client[c]) /\ cs[c].asked = client[c].asked
Idle == WriteInv' /\ AskedOnce' /\ AllAsked' = AllAsked /\ Outgoing' \subseteq Outgoing
        /\ \A c \in Clients : client'[c].asked = client[c].asked

LEMMA IdleIs ==
  ASSUME AskInv,
         \A c \in Clients : /\ Tidied(client'[c]) /\ Carries(client'[c]) \subseteq Carries(client[c])
                            /\ client'[c].asked = client[c].asked
  PROVE  Idle
<1>1. AllAsked' = AllAsked /\ AskedOnce'  BY SameAsked
<1>2. WriteInv'  BY DEF WriteInv
<1>3. Outgoing' \subseteq Outgoing  BY DEF Outgoing
<1> QED  BY <1>1, <1>2, <1>3 DEF Idle

\* Nobody takes it.
LEMMA OfferedInVain ==
  ASSUME OutputAssumption, AskInv, NEW cs, Spare(cs), NEW f \in Seq(Clients), NEW asks,
         Taker(cs, f, Data({}, asks)) = 0, client' = Offered(cs, f, Data({}, asks))
  PROVE  Idle
<1> DEFINE v == Data({}, asks)
<1>1. v.size \in Nat  BY DataSize
<1> HIDE DEF v
<1>2. OfferedWell(cs, f, v, queries, client')
  <2>1. \A c \in Clients : cs[c] \in Holdings(c, queries)  BY DEF Spare
  <2>2. Taker(cs, f, v) = 0 /\ client' = Offered(cs, f, v)  BY DEF v
  <2> QED  BY <1>1, <2>1, <2>2, OfferedHolds
<1>3. ASSUME NEW c \in Clients
      PROVE  /\ Tidied(client'[c]) /\ Carries(client'[c]) \subseteq Carries(client[c])
             /\ client'[c].asked = client[c].asked
  <2>1. /\ cs[c] \in Holdings(c, queries) /\ Tidied(cs[c])
        /\ Carries(cs[c]) \subseteq Carries(client[c]) /\ cs[c].asked = client[c].asked
    BY DEF Spare
  <2>2. Taker(cs, f, v) = 0  BY DEF v
  <2>3. MayTake(cs, f, v, c, queries)  BY <2>2 DEF MayTake
  <2>4. TidyStill(cs, f, v, client', c)  BY <1>2, <2>1, <2>3, OfferedTidy
  <2> QED  BY <2>1, <2>2, <2>4 DEF TidyStill
<1> QED  BY <1>3, IdleIs

\* Client c does.
TakenAgain(A, c) ==
  /\ c \in Clients /\ WriteInv' /\ AskedOnce' /\ AllAsked' = AllAsked
  /\ \A w \in Outgoing' : w \in Outgoing \/ Anew(w, A, c)
  /\ \A v, w \in Outgoing' : Anew(v, A, c) /\ Anew(w, A, c) => v = w

LEMMA OfferedAgain ==
  ASSUME OutputAssumption, AskInv, NEW A \in SUBSET queries,
         \A w \in Outgoing : w.token.who = Resender => w.token.asks # A,
         NEW cs, Spare(cs), NEW f \in Seq(Clients), NEW i, i = Taker(cs, f, Data({}, A)), i # 0,
         client' = Offered(cs, f, Again(A, f[i]))
  PROVE  TakenAgain(A, f[i])
<1> DEFINE v == Data({}, A)
           c == f[i]
           w == Again(A, c)
<1>1. v.size \in Nat  BY DataSize
<1>2. c \in Clients
  <2>1. TakenAt(Taker(cs, f, v), cs, f, v)  BY TakerIs
  <2> QED  BY <2>1 DEF TakenAt
<1>3. /\ w \in Good(c, queries) /\ w.size = v.size /\ w.asks = A /\ w.gate = NoGate
      /\ w.token = [who |-> Resender, asks |-> A, client |-> c]
  BY <1>2, AgainGood DEF AgainWell
<1>4. Taker(cs, f, w) = i  BY <1>3, TakerBySize
<1>5. client' = Offered(cs, f, w)  OBVIOUS
<1> HIDE DEF v, w
<1>6. \A d \in Clients : /\ cs[d] \in Holdings(d, queries) /\ Tidied(cs[d])
                         /\ Carries(cs[d]) \subseteq Carries(client[d]) /\ cs[d].asked = client[d].asked
  BY DEF Spare
<1>7. OfferedWell(cs, f, w, queries, client')
  BY <1>1, <1>3, <1>4, <1>5, <1>6, OfferedHolds
<1>8. w.token.who = Resender /\ w.token.asks = A  BY <1>3
<1>9. ASSUME NEW d \in Clients
      PROVE  /\ Tidied(client'[d]) /\ client'[d].asked = client[d].asked
             /\ Carries(client'[d]) \subseteq Carries(client[d]) \cup {w}
  <2>1. MayTake(cs, f, w, d, queries)
    <3>1. \A x \in Carries(cs[d]) : x \in Outgoing  BY <1>6 DEF Outgoing
    <3>2. \A x \in Carries(cs[d]) : x.token # w.token  BY <1>8, <3>1
    <3> QED  BY <1>3, <1>4, <1>8, <3>2 DEF MayTake
  <2>2. cs[d] \in Holdings(d, queries) /\ Tidied(cs[d])  BY <1>6
  <2>3. TidyStill(cs, f, w, client', d)  BY <1>7, <2>1, <2>2, OfferedTidy
  <2> QED  BY <1>6, <2>3 DEF TidyStill
<1>10. WriteInv' /\ AskedOnce' /\ AllAsked' = AllAsked
  <2>1. WriteInv'  BY <1>9 DEF WriteInv
  <2> QED  BY <1>9, <2>1, SameAsked
<1>11. \A x \in Outgoing' : x \in Outgoing \/ x = w  BY <1>9 DEF Outgoing
<1>12. Anew(w, A, c)  BY <1>3 DEF Anew
<1>13. \A x \in Outgoing : ~Anew(x, A, c)
  <2>1. \A x : Anew(x, A, c) => x.token.who = Resender /\ x.token.asks = A  BY DEF Anew
  <2> QED  BY <2>1
<1> HIDE DEF c
<1>14. TakenAgain(A, c)  BY <1>2, <1>10, <1>11, <1>12, <1>13 DEF TakenAgain
<1> QED  BY <1>14 DEF c

LEMMA SpareClient ==
  ASSUME ClientInv, WriteInv
  PROVE  Spare(client)
BY DEF ClientInv, WriteInv, Spare

LEMMA RedeliveredAsks ==
  ASSUME OutputAssumption, Inv, AskInv, NEW A \in SUBSET queries, A # {}, A \cap Unsent = {},
         \A w \in Outgoing : w.token.who = Resender => w.token.asks # A,
         NEW flight \in BOOLEAN, NEW others, Redeliver(A, flight, others),
         AllAsked' = AllAsked => Released(A, others)
  PROVE  AskInv'
<1> DEFINE v == Data({}, A)
           t == Taker(client, focus, v)
<1>1. t \in Nat
  <2>1. focus \in Seq(Clients)  BY DEF Inv, PlaceInv
  <2>2. TakenAt(t, client, focus, v)  BY <2>1, TakerIs
  <2> QED  BY <2>2 DEF TakenAt
<1>2. Spare(client) /\ focus \in Seq(Clients)  BY SpareClient DEF Inv, AskInv, PlaceInv
<1>3. CASE shown /\ t # 0
  <2> DEFINE c == focus[t]
  <2>1. /\ client' = Offered(client, focus, Again(A, c)) /\ pending' = pending
        /\ watches' = others \cup {Watching(A, flight, c)}
    BY <1>1, <1>3 DEF Redeliver
  <2>2. TakenAgain(A, c)  BY <1>2, <1>3, <2>1, OfferedAgain
  <2> HIDE DEF c
  <2>3. c \in Clients /\ WriteInv' /\ AskedOnce' /\ Released(A, others)  BY <2>2 DEF TakenAgain
  <2>4. pending' \subseteq pending \ A  BY <2>1 DEF Unsent
  <2>5. Rewatched(A, others, c)  BY <2>1, <2>2, <2>4 DEF Rewatched, TakenAgain
  <2> QED  BY <2>3, <2>5, RewatchedKeeps
<1>4. CASE ~(shown /\ t # 0)
  <2>1. /\ client' = IF shown THEN Offered(client, focus, v) ELSE client
        /\ watches' = others /\ pending' \in {pending, pending \cup A}
    BY <1>1, <1>4 DEF Redeliver, PutBack, Store, Stored
  <2>2. Idle
    <3>1. CASE shown
      <4>1. t = 0 /\ client' = Offered(client, focus, v)  BY <1>4, <2>1, <3>1
      <4> QED  BY <1>2, <4>1, OfferedInVain
    <3>2. CASE ~shown
      <4>1. client' = client  BY <2>1, <3>2
      <4> QED  BY <1>2, <4>1, IdleIs DEF Spare
    <3> QED  BY <3>1, <3>2
  <2>3. WriteInv' /\ AskedOnce' /\ Released(A, others) /\ Restored(A, others)
    BY <2>1, <2>2 DEF Idle, Restored
  <2> QED  BY <2>3, RestoredKeeps
<1> QED  BY <1>3, <1>4

\* The write of a query that was sent again has failed.
LEMMA QueryFailedAsks ==
  ASSUME OutputAssumption, Inv, AskInv, NEW w \in watches, QueryFailed(w)
  PROVE  AskInv'
<1> DEFINE r == [token |-> w.token, ok |-> FALSE]
           s == [token |-> w.token, ok |-> TRUE]
           A == w.token.asks
           others == watches \ {w}
<1>1. /\ r \in results /\ results' = results \ {r} /\ Redeliver(A, w.flight, others)
      /\ UNCHANGED <<windowVars, job, gates, pauseVars>>
  BY DEF QueryFailed
<1>2. UNCHANGED <<queries, reading, buffer, timers, pauses>>  BY <1>1 DEF windowVars, pauseVars
<1>3. A # {} /\ w.token.who = Resender /\ A \in SUBSET queries /\ w.flight \in BOOLEAN
  BY DEF AskInv, FullInv, Inv, QueryInv, Watchings, Tokens
<1>4. r.token = w.token /\ s.token = w.token /\ r.ok = FALSE /\ s.ok = TRUE  OBVIOUS
<1>5. A \cap Unsent = {} /\ (\A t \in Writers : job[t].asks \cap A = {})
      /\ \A v \in others : v.token.asks \cap A = {}
  BY DEF AskInv, ApartInv
<1>6. A \cap AllAsked = {} \/ s \in results  BY DEF AskInv, UnaskedInv
<1>7. others \subseteq watches /\ \A v \in watches : v \in others \/ v = w  OBVIOUS
<1> HIDE DEF r, s, A, others
<1>8. r \in Told /\ s \notin Told
  <2>1. r \in Told  BY <1>1, <1>3, <1>4 DEF Told, A
  <2> QED  BY <1>4, <2>1 DEF AskInv, ToldInv
<1>9. A \cap AllAsked = {}  BY <1>3, <1>4, <1>6, <1>8 DEF Told, A
<1>10. Told' = Told \ {r}  BY <1>1 DEF Told
<1>11. \A v \in others : v.token # w.token
  BY <1>3, <1>5 DEF A
<1>12. \A k \in {x.token : x \in Outgoing} \cup {x.token : x \in Told'} : k # w.token
  <2>1. \A x \in Outgoing : x.token # w.token  BY <1>4, <1>8 DEF AskInv, ToldInv
  <2>2. \A x \in Told' : x.token # w.token  BY <1>4, <1>8, <1>10 DEF AskInv, ToldInv
  <2> QED  BY <2>1, <2>2
<1>13. \A k \in {x.token : x \in Outgoing} \cup {x.token : x \in Told'} :
         k.who = Resender => \E v \in others : v.token = k
  <2> SUFFICES ASSUME NEW k \in {x.token : x \in Outgoing} \cup {x.token : x \in Told'}, k.who = Resender
               PROVE  \E v \in others : v.token = k
    OBVIOUS
  <2>1. k \in {x.token : x \in Outgoing} \cup {x.token : x \in Told}  BY <1>10
  <2>2. PICK v \in watches : v.token = k  BY <2>1 DEF AskInv, WatchedInv
  <2> QED  BY <1>7, <1>12, <2>2
<1>14. \A x \in Outgoing : x.token.who = Resender => x.token.asks # A
  <2> SUFFICES ASSUME NEW x \in Outgoing, x.token.who = Resender PROVE x.token.asks # A
    OBVIOUS
  <2>1. PICK v \in others : v.token = x.token  BY <1>13
  <2> QED  BY <1>3, <1>5, <2>1
<1>15. AllAsked' = AllAsked => Released(A, others)
  <2>1. A \cap (buffer.asks \cup reading.asks) = {}  BY <1>5 DEF Unsent
  <2>2. \A x \in Told : x \in Told' \/ (x.token.who = Resender /\ \A v \in others : v.token # x.token)
    BY <1>3, <1>4, <1>10, <1>11
  <2>3. Timing  BY <1>2 DEF Timing
  <2>4. Told' \subseteq Told /\ gates' = gates /\ job' = job  BY <1>1, <1>10
  <2> QED  BY <1>2, <1>3, <1>5, <1>7, <1>9, <1>13, <2>1, <2>2, <2>3, <2>4 DEF Released
<1> QED  BY <1>1, <1>3, <1>5, <1>14, <1>15, RedeliveredAsks

\* Nobody was asked what a job was for.
LEMMA EndJobAsks ==
  ASSUME OutputAssumption, Inv, AskInv, NEW t \in Writers, EndJob(t)
  PROVE  AskInv'
<1> SUFFICES ASSUME ~job[t].delivered PROVE AskInv'
  BY EndJobDelivered
<1> DEFINE A == job[t].asks
<1>1. /\ job[t] # NoJob /\ job[t].wait = NoClient /\ job' = [job EXCEPT ![t] = NoJob]
      /\ Redeliver(A, FALSE, watches) /\ UNCHANGED <<windowVars, gates, results, pauseVars>>
  BY DEF EndJob
<1>2. UNCHANGED <<queries, reading, buffer, timers, pauses>>  BY <1>1 DEF windowVars, pauseVars
<1>3. A # {} /\ A \in SUBSET queries  BY <1>1, JobParts DEF AskInv, FullInv
<1>4. /\ A \cap Unsent = {} /\ (\A u \in Writers : u # t => job[u].asks \cap A = {})
      /\ \A v \in watches : v.token.asks \cap A = {}
  BY DEF AskInv, ApartInv
<1>5. A \cap AllAsked = {}  BY <1>1 DEF AskInv, UnaskedInv
<1> HIDE DEF A
<1>6. \A k \in {x.token : x \in Outgoing} \cup {x.token : x \in Told} :
        k.who = Resender => \E v \in watches : v.token = k
  BY DEF AskInv, WatchedInv
<1>7. \A x \in Outgoing : x.token.who = Resender => x.token.asks # A
  <2> SUFFICES ASSUME NEW x \in Outgoing, x.token.who = Resender PROVE x.token.asks # A
    OBVIOUS
  <2>1. PICK v \in watches : v.token = x.token  BY <1>6
  <2> QED  BY <1>3, <1>4, <2>1
<1>8. AllAsked' = AllAsked => Released(A, watches)
  <2>1. A \cap (buffer.asks \cup reading.asks) = {}  BY <1>4 DEF Unsent
  <2>2. Told' = Told  BY <1>1 DEF Told
  <2>3. Timing  BY <1>2 DEF Timing
  <2>4. \A u \in Writers : (job'[u] = job[u] /\ job[u].asks \cap A = {}) \/ (job'[u] = NoJob /\ job[u].wait = NoClient)
    <3>1. \A u \in Writers : job'[u] = IF u = t THEN NoJob ELSE job[u]  BY <1>1 DEF Inv, JobInv
    <3> QED  BY <1>1, <1>4, <3>1
  <2> QED  BY <1>1, <1>2, <1>3, <1>4, <1>5, <1>6, <2>1, <2>2, <2>3, <2>4 DEF Released
<1> QED  BY <1>1, <1>3, <1>4, <1>7, <1>8, RedeliveredAsks

\* The write of a query that was sent again has been made.
LEMMA QuerySentAsks ==
  ASSUME OutputAssumption, Inv, AskInv, NEW w \in watches, QuerySent(w)
  PROVE  AskInv'
<1> DEFINE s == [token |-> w.token, ok |-> TRUE]
           others == watches \ {w}
<1>1. /\ s \in results /\ results' = results \ {s} /\ watches' = others
      /\ UNCHANGED <<client, windowVars, job, gates, pending, pauseVars>>
  BY DEF QuerySent
<1>2. UNCHANGED <<queries, reading, buffer, timers, pauses>>  BY <1>1 DEF windowVars, pauseVars
<1>3. w.token.asks # {} /\ w.token.who = Resender  BY DEF AskInv, FullInv
<1>4. s.token = w.token  OBVIOUS
<1>5. \A v \in others : v.token.asks \cap w.token.asks = {}  BY DEF AskInv, ApartInv
<1>6. others \subseteq watches /\ \A v \in watches : v \in others \/ v = w  OBVIOUS
<1> HIDE DEF s, others
<1>7. s \in Told /\ Told' = Told \ {s}  BY <1>1, <1>3, <1>4 DEF Told
<1>8. Idle
  <2>1. client' = client  BY <1>1
  <2>2. Spare(client)  BY SpareClient DEF Inv, AskInv
  <2> QED  BY <2>1, <2>2, IdleIs DEF Spare
<1>9. \A k \in {x.token : x \in Outgoing} \cup {x.token : x \in Told'} :
        k.who = Resender => \E v \in others : v.token = k
  <2> SUFFICES ASSUME NEW k \in {x.token : x \in Outgoing} \cup {x.token : x \in Told'}, k.who = Resender
               PROVE  \E v \in others : v.token = k
    OBVIOUS
  <2>1. k # w.token  BY <1>4, <1>7 DEF AskInv, ToldInv
  <2>2. k \in {x.token : x \in Outgoing} \cup {x.token : x \in Told}  BY <1>7
  <2>3. PICK v \in watches : v.token = k  BY <2>2 DEF AskInv, WatchedInv
  <2> QED  BY <1>6, <2>1, <2>3
<1>10. Released({}, others)
  <2>1. \A x \in Told : x \in Told' \/ (x.token.who = Resender /\ \A v \in others : v.token # x.token)
    BY <1>3, <1>4, <1>5, <1>7
  <2>2. Timing  BY <1>2 DEF Timing
  <2>3. Told' \subseteq Told /\ AllAsked' = AllAsked  BY <1>7, <1>8 DEF Idle
  <2> QED  BY <1>1, <1>2, <1>6, <1>9, <2>1, <2>2, <2>3 DEF Released
<1>11. WriteInv' /\ AskedOnce' /\ Restored({}, others)  BY <1>1, <1>8 DEF Idle, Restored
<1> QED  BY <1>10, <1>11, RestoredKeeps

(***************************************************************************)
(* Replays, and the queries that waited for them                           *)
(***************************************************************************)
LEMMA FlushedAsks ==
  ASSUME OutputAssumption, Inv, AskInv, NEW cs, Spare(cs), NEW c, Flushed(cs, c), focus' \in Seq(Clients),
         UNCHANGED <<job, gates, queries, reading>>, Told' = Told, buffer'.asks = buffer.asks, Timing
  PROVE  AskInv'
<1> DEFINE A == pending
           f == focus'
           i == Taker(cs, f, Data({}, A))
<1>1. CASE Idle /\ UNCHANGED queryVars
  <2>1. WriteInv' /\ Outgoing' \subseteq Outgoing /\ AllAsked' = AllAsked
        /\ \A d \in Clients : client'[d].asked = client[d].asked
    BY <1>1 DEF Idle
  <2>2. Quiet  BY <1>1, <2>1 DEF Quiet, queryVars
  <2> QED  BY <2>1, <2>2, QuietKeeps
<1>2. CASE client' = cs /\ UNCHANGED queryVars
  <2>1. Idle  BY <1>2, IdleIs DEF Spare
  <2> QED  BY <1>1, <1>2, <2>1
<1>3. CASE client' = Offered(cs, f, Data({}, A)) /\ UNCHANGED queryVars /\ i = 0
  <2>1. Idle  BY <1>3, OfferedInVain
  <2> QED  BY <1>1, <1>3, <2>1
<1>4. CASE /\ client' = Offered(cs, f, Again(A, f[i])) /\ i # 0 /\ A # {}
           /\ pending' = {} /\ watches' = watches \cup {Watching(A, TRUE, f[i])}
  <2> DEFINE d == f[i]
  <2>1. A \in SUBSET queries  BY DEF Inv, QueryInv
  <2>2. A \subseteq Unsent  BY DEF Unsent
  <2>3. \A v \in watches : v.token.asks \cap A = {}  BY <2>2 DEF AskInv, ApartInv
  <2>4. \A k \in {w.token : w \in Outgoing} \cup {r.token : r \in Told} :
          k.who = Resender => \E v \in watches : v.token = k
    BY DEF AskInv, WatchedInv
  <2>5. \A w \in Outgoing : w.token.who = Resender => w.token.asks # A
    <3> SUFFICES ASSUME NEW w \in Outgoing, w.token.who = Resender PROVE w.token.asks # A
      OBVIOUS
    <3>1. PICK v \in watches : v.token = w.token  BY <2>4
    <3> QED  BY <1>4, <2>3, <3>1
  <2>6. TakenAgain(A, d)  BY <1>4, <2>1, <2>5, OfferedAgain
  <2>7. watches' = watches \cup {Watching(A, TRUE, d)} /\ pending' = {}  BY <1>4
  <2> HIDE DEF d
  <2>8. d \in Clients /\ WriteInv' /\ AskedOnce' /\ AllAsked' = AllAsked  BY <2>6 DEF TakenAgain
  <2>9. Released(A, watches)
    <3>1. A \cap AllAsked = {}  BY <2>2 DEF AskInv, UnaskedInv
    <3>2. A \cap (buffer.asks \cup reading.asks) = {}  BY DEF AskInv, ApartInv
    <3>3. \A t \in Writers : job'[t] = job[t] /\ job[t].asks \cap A = {}
      BY <2>2 DEF AskInv, ApartInv
    <3> QED  BY <2>1, <2>3, <2>4, <2>8, <3>1, <3>2, <3>3 DEF Released
  <2>10. TRUE \in BOOLEAN  OBVIOUS
  <2>11. Rewatched(A, watches, d)  BY <1>4, <2>6, <2>7, <2>10 DEF Rewatched, TakenAgain
  <2> QED  BY <2>8, <2>9, <2>11, RewatchedKeeps
<1> QED  BY <1>2, <1>3, <1>4 DEF Flushed

LEMMA PausedAsks ==
  ASSUME OutputAssumption, Inv', NEW p, PausedIf(p)
  PROVE  Timing /\ buffer'.asks = buffer.asks
BY PauseTimed DEF PausedIf

\* One client has changed, and what it has to ask has not.
SpareAt(cs, c, p) ==
  /\ cs = [client EXCEPT ![c] = p] /\ p \in Holdings(c, queries) /\ Tidied(p)
  /\ Carries(p) \subseteq Carries(client[c]) /\ p.asked = client[c].asked

LEMMA SpareOne ==
  ASSUME Inv, AskInv, NEW c \in Clients, NEW p, NEW cs, SpareAt(cs, c, p)
  PROVE  Spare(cs)
<1>1. cs = [d \in Clients |-> cs[d]] /\ \A d \in Clients : cs[d] = IF d = c THEN p ELSE client[d]
  BY DEF SpareAt, Inv, ClientInv
<1>2. \A d \in Clients : client[d] \in Holdings(d, queries) /\ Tidied(client[d])
  BY DEF Inv, ClientInv, AskInv, WriteInv
<1> QED  BY <1>1, <1>2 DEF SpareAt, Spare

LEMMA FlushAttachedAsks ==
  ASSUME OutputAssumption, Inv, AskInv, Inv', NEW c \in Clients, FlushAttached(c)
  PROVE  AskInv'
<1> DEFINE k == [who |-> Attacher, asks |-> {}, client |-> c]
           p == [client[c] EXCEPT !.flush = FALSE]
           cs == [client EXCEPT ![c] = p]
<1>1. PICK ok \in BOOLEAN : /\ results' = results \ {[token |-> k, ok |-> ok]}
                            /\ PausedIf(ok /\ c \in Registered)
  BY DEF FlushAttached
<1>2. UNCHANGED <<attachVars, windowVars, job, gates>> /\ Flushed(cs, c)
  <2>1. cs = [client EXCEPT ![c].flush = FALSE]  BY DEF Inv, ClientInv
  <2> QED  BY <2>1 DEF FlushAttached
<1>3. UNCHANGED <<job, gates, queries, reading, focus>>  BY <1>2 DEF attachVars, windowVars
<1>4. Told' = Told
  <2> DEFINE r == [token |-> k, ok |-> ok]
  <2>1. r.token.asks = {} /\ results' = results \ {r}  BY <1>1
  <2> HIDE DEF r
  <2> QED  BY <2>1 DEF Told
<1>5. client[c] \in Holdings(c, queries) /\ Tidied(client[c])  BY DEF Inv, ClientInv, AskInv, WriteInv
<1>6. /\ p \in Holdings(c, queries) /\ p.asked = client[c].asked
      /\ p.queue = client[c].queue /\ p.held = client[c].held
  <2>1. client[c].mark \in Nat  BY <1>5 DEF Holdings
  <2>2. MarkWell(c, queries, client[c], client[c].mark, FALSE)  BY <1>5, <2>1, MarkHolds
  <2>3. p = Marked(client[c], client[c].mark, FALSE)  BY <1>5 DEF Marked, Holdings
  <2>4. p.queue = client[c].queue /\ p.held = client[c].held  BY <1>5 DEF Holdings
  <2> QED  BY <2>2, <2>3, <2>4 DEF MarkWell
<1> HIDE DEF p
<1>7. Tidied(p) /\ Carries(p) = Carries(client[c])  BY <1>5, <1>6, SameBooks
<1>8. SpareAt(cs, c, p)  BY <1>6, <1>7 DEF SpareAt
<1> HIDE DEF cs
<1>9. Spare(cs)  BY <1>8, SpareOne
<1>10. Timing /\ buffer'.asks = buffer.asks  BY <1>1, PausedAsks
<1>11. focus' \in Seq(Clients)  BY <1>3 DEF Inv, PlaceInv
<1> QED  BY <1>2, <1>3, <1>4, <1>9, <1>10, <1>11, FlushedAsks

\* A write that asks nothing.
LEMMA PutNothing ==
  ASSUME OutputAssumption, NEW c \in Clients, NEW r \in Holdings(c, queries), Tidied(r),
         NEW w \in Good(c, queries), w.asks = {}, w.token = NoToken
  PROVE  /\ Put(r, w) \in Holdings(c, queries) /\ Tidied(Put(r, w)) /\ Carries(Put(r, w)) \subseteq Carries(r)
         /\ Put(r, w).asked = r.asked
<1>1. w.token.asks = w.asks  BY DEF NoToken
<1>2. PutsTidily(r, w)  BY <1>1, PutTidy
<1>3. Put(r, w) \in Holdings(c, queries) /\ Grown(r, Put(r, w))  BY PutGrows
<1> QED  BY <1>2, <1>3 DEF PutsTidily, Grown

LEMMA ReplayFocusedAsks ==
  ASSUME OutputAssumption, Inv, AskInv, Inv', ReplayFocused
  PROVE  AskInv'
<1> DEFINE c == awaited
           u == [client[c] EXCEPT !.mark = emitted]
           p == Put(u, Replay)
           cs == [client EXCEPT ![c] = p]
<1>1. /\ awaited # NoClient
      /\ UNCHANGED <<focus, arrived, windowVars, job, gates, results, budget>>
      /\ (Fits(client[c], Replay) => PausedIf(TRUE) /\ Flushed(cs, c))
      /\ (~Fits(client[c], Replay) =>
            client' = [cs EXCEPT ![c].mark = 0] /\ UNCHANGED <<queryVars, pauseVars>>)
  <2>1. cs = [client EXCEPT ![c] = Put([@ EXCEPT !.mark = emitted], Replay)]
    BY DEF Inv, ClientInv
  <2> QED  BY <2>1 DEF ReplayFocused
<1>2. UNCHANGED <<queries, reading>> /\ Told' = Told  BY <1>1 DEF windowVars, Told
<1>3. c \in Clients  BY <1>1, KnownClients DEF Inv, PlaceInv
<1>4. client[c] \in Holdings(c, queries) /\ Tidied(client[c]) /\ emitted \in Nat
  BY <1>3 DEF Inv, ClientInv, AskInv, WriteInv, PlaceInv
<1>5. /\ u \in Holdings(c, queries) /\ u.asked = client[c].asked
      /\ u.queue = client[c].queue /\ u.held = client[c].held
  <2>1. u.queue = client[c].queue /\ u.held = client[c].held  BY <1>4 DEF Holdings
  <2> QED  BY <1>4, <2>1, RemarkHolds DEF MarkWell
<1> HIDE DEF u
<1>6. Tidied(u) /\ Carries(u) = Carries(client[c])  BY <1>4, <1>5, SameBooks
<1>7. /\ p \in Holdings(c, queries) /\ Tidied(p) /\ Carries(p) \subseteq Carries(client[c])
      /\ p.asked = client[c].asked
  <2>1. Replay \in Good(c, queries) /\ Replay.asks = {} /\ Replay.token = NoToken
    BY <1>3, FrameGood DEF Inv
  <2> QED  BY <1>3, <1>5, <1>6, <2>1, PutNothing
<1> HIDE DEF p
<1>8. CASE Fits(client[c], Replay)
  <2>1. SpareAt(cs, c, p)  BY <1>7 DEF SpareAt
  <2>2. PausedIf(TRUE) /\ Flushed(cs, c)  BY <1>1, <1>8
  <2> HIDE DEF cs, c
  <2>3. Spare(cs)  BY <1>3, <2>1, SpareOne
  <2>4. Timing /\ buffer'.asks = buffer.asks  BY <2>2, PausedAsks
  <2>5. focus' \in Seq(Clients)  BY <1>1 DEF Inv, PlaceInv
  <2> QED  BY <1>1, <1>2, <2>2, <2>3, <2>4, <2>5, FlushedAsks
<1>9. CASE ~Fits(client[c], Replay)
  <2> DEFINE q == [p EXCEPT !.mark = 0]
  <2>1. q.asked = p.asked /\ q.queue = p.queue /\ q.held = p.held  BY <1>7 DEF Holdings
  <2>2. client' = [client EXCEPT ![c] = q]  BY <1>1, <1>3, <1>9 DEF Inv, ClientInv
  <2> HIDE DEF q, c
  <2>3. Tidied(q) /\ Carries(q) = Carries(p)  BY <1>7, <2>1, SameBooks
  <2>4. Carries(q) \subseteq Carries(client[c]) /\ q.asked = client[c].asked /\ gates' \subseteq gates
        /\ UNCHANGED <<windowVars, job, queryVars, pauseVars>>
    BY <1>1, <1>7, <1>9, <2>1, <2>3
  <2> QED  BY <1>2, <1>3, <2>2, <2>3, <2>4, QuietClient
<1> QED  BY <1>8, <1>9

LEMMA ShowAsks ==
  ASSUME OutputAssumption, Inv, AskInv, Inv', Show
  PROVE  AskInv'
<1> DEFINE cs == PutTo(IF redraws THEN {} ELSE Registered, Replay)
<1>1. /\ PausedIf(TRUE) /\ UNCHANGED <<focus, queries, reading, job, gates, results>>
      /\ Flushed(cs, Primary)
  BY DEF Show
<1>2. focus' \in Seq(Clients) /\ Told' = Told  BY <1>1 DEF Inv, PlaceInv, Told
<1>3. Spare(cs)
  <2>1. cs = [c \in Clients |-> cs[c]]  BY DEF PutTo
  <2>2. \A c \in Clients : cs[c] \in {client[c], Put(client[c], Replay)}  BY DEF PutTo
  <2> HIDE DEF cs
  <2>3. ASSUME NEW c \in Clients
        PROVE  /\ cs[c] \in Holdings(c, queries) /\ Tidied(cs[c])
               /\ Carries(cs[c]) \subseteq Carries(client[c]) /\ cs[c].asked = client[c].asked
    <3>1. client[c] \in Holdings(c, queries) /\ Tidied(client[c])
      BY DEF Inv, ClientInv, AskInv, WriteInv
    <3>2. Replay \in Good(c, queries) /\ Replay.asks = {} /\ Replay.token = NoToken
      BY FrameGood DEF Inv
    <3> QED  BY <2>2, <3>1, <3>2, PutNothing
  <2> QED  BY <2>1, <2>3 DEF Spare
<1> HIDE DEF cs
<1>4. Timing /\ buffer'.asks = buffer.asks  BY <1>1, PausedAsks
<1> QED  BY <1>1, <1>2, <1>3, <1>4, FlushedAsks

(***************************************************************************)
(* Queries are sent for the first time                                     *)
(***************************************************************************)
AskedWell(t, c, shows, asks) ==
  LET k == [who |-> t, asks |-> asks, client |-> c] IN
  /\ Asked(t, c, shows, asks) \in Good(c, queries) /\ Asked(t, c, shows, asks).asks = asks
  /\ Asked(t, c, shows, asks).token = k /\ Asked(t, c, shows, asks).gate = NoGate
  /\ AskGated(t, c, shows, asks) \in Good(c, queries) /\ AskGated(t, c, shows, asks).asks = asks
  /\ AskGated(t, c, shows, asks).token = k
  /\ AskGated(t, c, shows, asks).gate = [token |-> k, part |-> "ask"]
  /\ RestGated(t, c, shows, asks) \in Good(c, queries) /\ RestGated(t, c, shows, asks).asks = {}
  /\ RestGated(t, c, shows, asks).token = NoToken

LEMMA AskedIs ==
  ASSUME OutputAssumption, NEW c \in Clients, NEW t \in Writers, NEW shows \in SUBSET Nat,
         NEW asks \in SUBSET queries
  PROVE  AskedWell(t, c, shows, asks)
<1> DEFINE v == Data(shows, asks)
           u == Data(shows, {})
           k == [who |-> t, asks |-> asks, client |-> c]
           W == [shows : SUBSET Nat, asks : SUBSET queries, size : Nat, token : Tokens(queries),
                 gate : Gates(queries)]
<1>1. \A x \in SUBSET queries : DataWell(c, queries, shows, x)  BY DataGood
<1>2. v \in W /\ v.asks = asks /\ v.gate = NoGate  BY <1>1 DEF DataWell, Good
<1>3. u \in W /\ u.asks = {} /\ u.token = NoToken
  <2>1. DataWell(c, queries, shows, {})  BY <1>1
  <2> QED  BY <2>1 DEF DataWell, Good
<1>4. /\ Asked(t, c, shows, asks) \in Good(c, queries) /\ AskGated(t, c, shows, asks) \in Good(c, queries)
      /\ RestGated(t, c, shows, asks) \in Good(c, queries)
  BY AskedGood
<1> HIDE DEF v, u, k
<1> DEFINE a == [v EXCEPT !.token = k]
           g == [token |-> k, part |-> "ask"]
<1>5. a.asks = asks /\ a.token = k /\ a.gate = NoGate  BY <1>2
<1>6. Asked(t, c, shows, asks) = a  BY DEF Asked, v, k
<1>7. AskGated(t, c, shows, asks) = [a EXCEPT !.gate = g]  BY <1>6 DEF AskGated, GateOf, k
<1>9. [a EXCEPT !.gate = g].asks = asks /\ [a EXCEPT !.gate = g].token = k /\ [a EXCEPT !.gate = g].gate = g
  BY <1>2
<1>10. RestGated(t, c, shows, asks).asks = {} /\ RestGated(t, c, shows, asks).token = NoToken
  BY <1>3 DEF RestGated, u
<1> HIDE DEF a, g
<1> QED  BY <1>4, <1>5, <1>6, <1>7, <1>9, <1>10 DEF AskedWell, k, g

\* A client is sent one write of them at most.
OneSent(c, t, A, to) ==
  /\ Tidied(client'[c]) /\ client'[c].asked = client[c].asked
  /\ \/ Carries(client'[c]) \subseteq Carries(client[c])
     \/ \E w : /\ Sent(w, t, A, to) /\ w.token.client = c
               /\ Carries(client'[c]) \subseteq Carries(client[c]) \cup {w}

Launching(t, A, j) ==
  /\ job' = [job EXCEPT ![t] = j] /\ j.asks = A /\ ~j.delivered
  /\ \A c \in Clients : OneSent(c, t, A, j.wait)

LEMMA LaunchIs ==
  ASSUME OutputAssumption, Inv, AskInv, NEW t \in Writers, NEW first, NEW others,
         NEW shows \in [Clients -> SUBSET Nat], NEW A \in SUBSET queries, A # {},
         \A k \in Known : k.who = t => k.asks # A, Launch(t, first, others, shows, A)
  PROVE  \E j : Launching(t, A, j)
<1> DEFINE takes(c) == Fits(client[c], AskGated(t, c, shows[c], A))
           asked(c) == Put(client[c], AskGated(t, c, shows[c], A))
           rest(c)  == takes(c) /\ Fits(asked(c), RestGated(t, c, shows[c], A)) /\ shows[c] # {}
           to == IF first # NoClient /\ Fits(client[first], Asked(t, first, shows[first], A))
                   THEN first ELSE NoClient
           kept == Kept(others, {c \in Clients : takes(c)})
           gated == {c \in ToSet(others) : rest(c)}
           j == [asks |-> A, delivered |-> FALSE, wait |-> to, rest |-> kept, gated |-> gated]
<1>1. client' = [c \in Clients |->
        IF c = first THEN Put(client[c], Asked(t, c, shows[c], A))
        ELSE IF c \notin ToSet(others) THEN client[c]
        ELSE IF takes(c) THEN Put(asked(c), RestGated(t, c, shows[c], A))
        ELSE asked(c)]
  BY DEF Launch
<1>2. job' = [job EXCEPT ![t] = j]  BY DEF Launch
<1>3. j.asks = A /\ ~j.delivered /\ j.wait = to
  <2> HIDE DEF to, kept, gated
  <2> QED  OBVIOUS
<1> HIDE DEF j
<1>4. ASSUME NEW c \in Clients
      PROVE  OneSent(c, t, A, to)
  <2> DEFINE r == client[c]
             a == Asked(t, c, shows[c], A)
             b == AskGated(t, c, shows[c], A)
             d == RestGated(t, c, shows[c], A)
             k == [who |-> t, asks |-> A, client |-> c]
             g == [token |-> k, part |-> "ask"]
  <2>1. client'[c] \in {r, Put(Put(r, b), d), Put(r, b)} \/ (c = first /\ client'[c] = Put(r, a))
    BY <1>1
  <2>2. c = first /\ Fits(r, a) => to = c
    <3>1. c # NoClient  BY NoClientIs
    <3> QED  BY <3>1
  <2>3. r \in Holdings(c, queries) /\ Tidied(r)  BY DEF Inv, ClientInv, AskInv, WriteInv
  <2>4. shows[c] \in SUBSET Nat  OBVIOUS
  <2>5. AskedWell(t, c, shows[c], A)  BY <2>4, AskedIs
  <2>6. /\ a \in Good(c, queries) /\ a.asks = A /\ a.token = k /\ a.gate = NoGate
        /\ b \in Good(c, queries) /\ b.asks = A /\ b.token = k /\ b.gate = g
        /\ d \in Good(c, queries) /\ d.asks = {} /\ d.token = NoToken
    BY <2>5 DEF AskedWell
  <2>7. k.who = t /\ k.asks = A /\ k.client = c /\ k = [who |-> t, asks |-> A, client |-> c]  OBVIOUS
  <2>8. g = [token |-> k, part |-> "ask"]  OBVIOUS
  <2>9. \A v \in Carries(r) : v.token # k
    <3>1. \A v \in Carries(r) : v.token \in Known  BY DEF Known, Outgoing
    <3> QED  BY <2>7, <3>1
  <2>10. Carries(r) = Carries(client[c]) /\ r.asked = client[c].asked  OBVIOUS
  <2> HIDE DEF r, a, b, d, k, g, to
  <2>11. PutsTidily(r, a)  BY <2>3, <2>6, <2>7, <2>9, PutTidy
  <2>12. PutsTidily(r, b)  BY <2>3, <2>6, <2>7, <2>9, PutTidy
  <2>13. Put(r, a).asked = r.asked /\ Put(r, b).asked = r.asked /\ Put(r, b) \in Holdings(c, queries)
    BY <2>3, <2>6, PutGrows DEF Grown
  <2> DEFINE p == Put(r, b)
  <2>14. p \in Holdings(c, queries) /\ Tidied(p) /\ Carries(p) \subseteq Carries(r) \cup {b} /\ p.asked = r.asked
    BY <2>12, <2>13 DEF PutsTidily
  <2> HIDE DEF p
  <2>15. /\ Tidied(Put(p, d)) /\ Carries(Put(p, d)) \subseteq Carries(r) \cup {b} /\ Put(p, d).asked = r.asked
    BY <2>6, <2>14, PutNothing
  <2>16. Sent(b, t, A, to) /\ b.token.client = c  BY <2>6, <2>7, <2>8 DEF Sent
  <2>17. CASE client'[c] = r
    BY <2>3, <2>10, <2>17 DEF OneSent
  <2>18. CASE client'[c] = p
    BY <2>10, <2>14, <2>16, <2>18 DEF OneSent
  <2>19. CASE client'[c] = Put(p, d)
    BY <2>10, <2>15, <2>16, <2>19 DEF OneSent
  <2>20. CASE c = first /\ client'[c] = Put(r, a)
    <3>1. Tidied(Put(r, a)) /\ Carries(Put(r, a)) \subseteq Carries(r) \cup {x \in {a} : a.asks # {} /\ Fits(r, a)}
      BY <2>11 DEF PutsTidily
    <3>2. CASE Fits(r, a)
      <4>1. Sent(a, t, A, to) /\ a.token.client = c  BY <2>2, <2>6, <2>7, <2>20, <3>2 DEF Sent
      <4> QED  BY <2>10, <2>13, <2>20, <3>1, <4>1 DEF OneSent
    <3>3. CASE ~Fits(r, a)
      <4>1. Carries(Put(r, a)) \subseteq Carries(r)  BY <3>1, <3>3
      <4> QED  BY <2>10, <2>13, <2>20, <3>1, <4>1 DEF OneSent
    <3> QED  BY <3>2, <3>3
  <2> QED  BY <2>1, <2>17, <2>18, <2>19, <2>20 DEF p
<1> HIDE DEF to
<1>5. \A c \in Clients : OneSent(c, t, A, j.wait)  BY <1>3, <1>4
<1>6. Launching(t, A, j)  BY <1>2, <1>3, <1>5 DEF Launching
<1> QED  BY <1>6

\* No two writes of a launch have one token.
LEMMA LaunchApart ==
  ASSUME OutputAssumption, Inv, AskInv, NEW t, NEW A, NEW j, Launching(t, A, j),
         \A k \in Known : k.who = t => k.asks # A
  PROVE  /\ WriteInv' /\ AskedOnce' /\ AllAsked' = AllAsked
         /\ \A w \in Outgoing' : w \in Outgoing \/ Sent(w, t, A, j.wait)
         /\ \A v, w \in Outgoing' : Sent(v, t, A, j.wait) /\ Sent(w, t, A, j.wait) /\ v.token = w.token => v = w
<1> DEFINE S(w) == Sent(w, t, A, j.wait)
<1>1. ASSUME NEW c \in Clients
      PROVE  /\ Tidied(client'[c]) /\ client'[c].asked = client[c].asked
             /\ \/ Carries(client'[c]) \subseteq Carries(client[c])
                \/ \E w : S(w) /\ w.token.client = c /\ Carries(client'[c]) \subseteq Carries(client[c]) \cup {w}
  BY DEF Launching, OneSent
<1>2. AskedOnce' /\ AllAsked' = AllAsked  BY <1>1, SameAsked
<1>3. WriteInv'  BY <1>1 DEF WriteInv
<1>4. \A w \in Outgoing' : \E c \in Clients : w \in Carries(client'[c])  BY DEF Outgoing
<1>5. \A c \in Clients : Carries(client[c]) \subseteq Outgoing  BY DEF Outgoing
<1>6. \A w \in Outgoing : ~S(w)
  <2>1. \A w : S(w) => w.token.who = t /\ w.token.asks = A  BY DEF Sent
  <2>2. \A w \in Outgoing : w.token \in Known  BY DEF Known
  <2> QED  BY <2>1, <2>2
<1> HIDE DEF S
<1>7. ASSUME NEW w \in Outgoing', w \notin Outgoing
      PROVE  S(w)
  <2>1. PICK c \in Clients : w \in Carries(client'[c])  BY <1>4
  <2>2. w \notin Carries(client[c])  BY <1>5, <1>7
  <2>3. PICK x : S(x) /\ Carries(client'[c]) \subseteq Carries(client[c]) \cup {x}
    BY <1>1, <2>1, <2>2
  <2> QED  BY <2>1, <2>2, <2>3
<1>8. ASSUME NEW v \in Outgoing', NEW w \in Outgoing', S(v), S(w), v.token = w.token
      PROVE  v = w
  <2>1. PICK c \in Clients : v \in Carries(client'[c])  BY <1>4
  <2>2. PICK d \in Clients : w \in Carries(client'[d])  BY <1>4
  <2>3. v \notin Carries(client[c]) /\ w \notin Carries(client[d])  BY <1>5, <1>6, <1>8
  <2>4. v.token.client = c  BY <1>1, <2>1, <2>3
  <2>5. w.token.client = d  BY <1>1, <2>2, <2>3
  <2>6. w \in Carries(client'[c])  BY <1>8, <2>2, <2>4, <2>5
  <2>7. w \notin Carries(client[c])  BY <1>5, <1>6, <1>8
  <2>8. PICK x : Carries(client'[c]) \subseteq Carries(client[c]) \cup {x}  BY <1>1
  <2> QED  BY <2>1, <2>3, <2>6, <2>7, <2>8
<1> QED  BY <1>2, <1>3, <1>7, <1>8 DEF S

\* A step that changes what clients are shown, and no more.
LEMMA ShowsAsks ==
  ASSUME OutputAssumption, Inv, AskInv, Idle, UNCHANGED <<job, gates, results, pending, watches, queries>>,
         buffer'.asks = buffer.asks, reading' \in {reading, NoRead}, Timing
  PROVE  AskInv'
<1>1. WriteInv' /\ Outgoing' \subseteq Outgoing /\ AllAsked' = AllAsked
      /\ \A d \in Clients : client'[d].asked = client[d].asked
  BY DEF Idle
<1>2. Told' = Told  BY DEF Told
<1>3. Quiet  BY <1>1, <1>2 DEF Quiet
<1> QED  BY <1>1, <1>3, QuietKeeps

LEMMA WriteOutputAsks ==
  ASSUME OutputAssumption, Inv, AskInv, WriteOutput
  PROVE  AskInv'
<1> DEFINE n == reading.chunk
           A == reading.asks
           known == {c \in Registered : Sequence(c) <= reading.latest}
           first == IF reading.primary \in known THEN reading.primary ELSE NoClient
           shows == [c \in Clients |-> IF c \in known /\ ~Suppresses(c, n) THEN {n} ELSE {}]
           others == Kept(Reverse(focus), Clients \ {first})
<1>1. /\ reading # NoRead /\ reading' = NoRead
      /\ UNCHANGED <<queries, gates, results, pending, watches, pauseVars>>
      /\ (~shown => UNCHANGED <<client, job>>)
      /\ (shown /\ A = {} => UNCHANGED job
            /\ client' = [c \in Clients |->
                 IF c \in known THEN Informed(c, Data({n}, {}), n) ELSE client[c]])
      /\ (shown /\ A # {} => Launch(Reader, first, others, shows, A))
  BY DEF WriteOutput
<1>2. UNCHANGED <<pending, watches, buffer, timers, pauses>>  BY <1>1 DEF pauseVars
<1>3. reading \in Reads(queries) /\ job[Reader] = NoJob  BY <1>1 DEF Inv, ReadInv
<1>4. n \in Nat /\ A \in SUBSET queries  BY <1>3 DEF Reads
<1>5. shows \in [Clients -> SUBSET Nat]  BY <1>4
<1>6. Timing  BY <1>2 DEF Timing
<1>7. CASE ~shown
  <2>1. client' = client /\ job' = job  BY <1>1, <1>7
  <2>2. Idle
    <3>1. Spare(client)  BY SpareClient DEF Inv, AskInv
    <3> QED  BY <2>1, <3>1, IdleIs DEF Spare
  <2> QED  BY <1>1, <1>2, <1>6, <2>1, <2>2, ShowsAsks
<1>8. CASE shown /\ A = {}
  <2> HIDE DEF n, known
  <2>1. Idle
    <3>1. ASSUME NEW c \in Clients
          PROVE  /\ Tidied(client'[c]) /\ Carries(client'[c]) \subseteq Carries(client[c])
                 /\ client'[c].asked = client[c].asked
      <4>1. client[c] \in Holdings(c, queries) /\ Tidied(client[c])
        BY DEF Inv, ClientInv, AskInv, WriteInv
      <4>2. \A x \in SUBSET queries : DataWell(c, queries, {n}, x)  BY <1>4, DataGood
      <4>3. DataWell(c, queries, {n}, {})  BY <4>2
      <4>4. /\ Data({n}, {}) \in Good(c, queries) /\ Data({n}, {}).asks = {}
            /\ Data({n}, {}).token = NoToken
        BY <4>3 DEF DataWell
      <4> DEFINE w == Data({n}, {})
      <4>5. client'[c] \in {client[c], Put(client[c], w)}
        BY <1>1, <1>8 DEF Informed
      <4>6. w \in Good(c, queries) /\ w.asks = {} /\ w.token = NoToken  BY <4>4
      <4> HIDE DEF w
      <4> QED  BY <4>1, <4>5, <4>6, PutNothing
    <3> QED  BY <3>1, IdleIs
  <2> QED  BY <1>1, <1>2, <1>6, <1>8, <2>1, ShowsAsks
<1>9. CASE shown /\ A # {}
  <2>1. Launch(Reader, first, others, shows, A)  BY <1>1, <1>9
  <2>2. Reader \in Writers  BY DEF Writers
  <2>3. \A k \in Known : k.who = Reader => k.asks # A  BY DEF AskInv, FreshInv, Fresh
  <2>4. NoRead.asks = {}  BY DEF NoRead
  <2>5. A \subseteq Unsent /\ Unsent' \subseteq Unsent \ A
    <3>1. Unsent' = pending \cup buffer.asks  BY <1>1, <1>2, <2>4 DEF Unsent
    <3>2. pending \cap A = {} /\ buffer.asks \cap A = {}  BY DEF AskInv, ApartInv
    <3> QED  BY <3>1, <3>2 DEF Unsent
  <2> HIDE DEF first, others, shows, A
  <2>6. PICK j : Launching(Reader, A, j)
    BY <1>4, <1>5, <1>9, <2>1, <2>2, <2>3, LaunchIs
  <2>7. /\ WriteInv' /\ AskedOnce' /\ AllAsked' = AllAsked
        /\ \A w \in Outgoing' : w \in Outgoing \/ Sent(w, Reader, A, j.wait)
        /\ \A v, w \in Outgoing' :
             Sent(v, Reader, A, j.wait) /\ Sent(w, Reader, A, j.wait) /\ v.token = w.token => v = w
    BY <2>3, <2>6, LaunchApart
  <2>8. Reader \notin timers' /\ Reader <= pauses
    <3>1. pauses \in Nat /\ timers \subseteq Writers \ {Reader}  BY TimersWrite DEF Inv, TimerInv
    <3> QED  BY <1>2, <3>1 DEF Reader
  <2>9. Told' = Told  BY <1>1 DEF Told
  <2>10. Launches(Reader, A, j)
    BY <1>1, <1>2, <1>3, <1>9, <2>2, <2>3, <2>5, <2>6, <2>7, <2>8, <2>9 DEF Launching, Launches
  <2> QED  BY <2>7, <2>10, LaunchKeeps
<1> QED  BY <1>7, <1>8, <1>9

LEMMA ResumeAsks ==
  ASSUME OutputAssumption, Inv, AskInv, NEW g \in timers, Resume(g)
  PROVE  AskInv'
<1> DEFINE first == IF ~shown THEN NoClient
                    ELSE IF buffer.primary \in Registered THEN buffer.primary ELSE Primary
           others == IF shown THEN Kept(Reverse(focus), Clients \ {first}) ELSE <<>>
           shows == [c \in Clients |-> History]
           cs == IF shown THEN Registered ELSE {}
           ends == paused /\ g = pauses
           A == buffer.asks
<1>1. /\ timers' = timers \ {g} /\ pauses' = pauses
      /\ UNCHANGED <<windowVars, gates, results, queryVars>>
      /\ (ends => buffer' = NoBuffer)
      /\ (ends /\ A # {} => Launch(g, first, others, shows, A))
      /\ (ends /\ A = {} => client' = PutTo(cs, Frame(History)) /\ UNCHANGED job)
      /\ (~ends => UNCHANGED <<client, job, buffer>>)
  BY DEF Resume, ResumeWrites
<1>2. UNCHANGED <<pending, watches, queries, reading>>  BY <1>1 DEF windowVars, queryVars
<1>3. g \in Writers \ {Reader} /\ job[g] = NoJob
  BY TimersWrite DEF Inv, TimerInv
<1>4. A \in SUBSET queries  BY DEF Inv, PlaceInv
<1>5. History \in SUBSET Nat /\ shows \in [Clients -> SUBSET Nat]
  <2>1. History \in SUBSET Nat  BY DEF Inv, PlaceInv, History
  <2> QED  BY <2>1
<1>6. Timing /\ NoBuffer.asks = {}  BY <1>1 DEF Timing, NoBuffer
<1>7. CASE ~ends
  <2>1. UNCHANGED <<client, job, gates, results, pending, watches, queries, reading>>
        /\ buffer'.asks = buffer.asks
    BY <1>1, <1>2, <1>7
  <2> QED  BY <1>6, <2>1, QuietElsewhere
<1>8. CASE ends /\ A = {}
  <2> HIDE DEF cs
  <2>1. Idle
    <3>1. ASSUME NEW c \in Clients
          PROVE  /\ Tidied(client'[c]) /\ Carries(client'[c]) \subseteq Carries(client[c])
                 /\ client'[c].asked = client[c].asked
      <4>1. client[c] \in Holdings(c, queries) /\ Tidied(client[c])
        BY DEF Inv, ClientInv, AskInv, WriteInv
      <4>2. /\ Frame(History) \in Good(c, queries) /\ Frame(History).asks = {}
            /\ Frame(History).token = NoToken
        BY <1>5, FrameGood DEF Inv
      <4>3. client'[c] \in {client[c], Put(client[c], Frame(History))}  BY <1>1, <1>8 DEF PutTo
      <4> QED  BY <4>1, <4>2, <4>3, PutNothing
    <3> QED  BY <3>1, IdleIs
  <2>2. buffer'.asks = buffer.asks /\ job' = job  BY <1>1, <1>6, <1>8
  <2> QED  BY <1>1, <1>2, <1>6, <2>1, <2>2, ShowsAsks
<1>9. CASE ends /\ A # {}
  <2>1. Launch(g, first, others, shows, A) /\ buffer' = NoBuffer  BY <1>1, <1>9
  <2>2. \A k \in Known : k.who # g  BY DEF AskInv, FreshInv, Fresh
  <2>3. A \subseteq Unsent /\ Unsent' \subseteq Unsent \ A
    <3>1. Unsent' = pending \cup reading.asks  BY <1>2, <1>6, <2>1 DEF Unsent
    <3>2. pending \cap A = {} /\ A \cap reading.asks = {}  BY DEF AskInv, ApartInv
    <3> QED  BY <3>1, <3>2 DEF Unsent
  <2>4. g <= pauses /\ g \notin timers' /\ timers' \subseteq timers
    <3>1. pauses \in Nat  BY DEF Inv, TimerInv
    <3> QED  BY <1>1, <1>9, <3>1
  <2>5. buffer'.asks \in {buffer.asks, {}}  BY <1>6, <2>1
  <2> HIDE DEF first, others, shows, A, ends
  <2>6. PICK j : Launching(g, A, j)
    BY <1>3, <1>4, <1>5, <1>9, <2>1, <2>2, LaunchIs
  <2>7. /\ WriteInv' /\ AskedOnce' /\ AllAsked' = AllAsked
        /\ \A w \in Outgoing' : w \in Outgoing \/ Sent(w, g, A, j.wait)
        /\ \A v, w \in Outgoing' :
             Sent(v, g, A, j.wait) /\ Sent(w, g, A, j.wait) /\ v.token = w.token => v = w
    BY <2>2, <2>6, LaunchApart
  <2>8. Told' = Told  BY <1>1 DEF Told
  <2>9. Launches(g, A, j)
    BY <1>1, <1>2, <1>3, <1>9, <2>2, <2>3, <2>4, <2>5, <2>6, <2>7, <2>8 DEF Launching, Launches
  <2> QED  BY <2>7, <2>9, LaunchKeeps
<1> QED  BY <1>7, <1>8, <1>9

(***************************************************************************)
(* Every step                                                              *)
(***************************************************************************)
\* A new query is in one place.
LEMMA EmitAsks ==
  ASSUME OutputAssumption, Inv, AskInv, Emit
  PROVE  AskInv'
<1> DEFINE n == emitted + 1
           asks == IF budget.asking[n] THEN {n} ELSE {}
<1>0. /\ (Watched /\ ~paused =>
            reading' = [chunk |-> n, asks |-> asks, primary |-> Primary, latest |-> Len(arrived)])
      /\ (~(Watched /\ ~paused) => reading' = reading)
      /\ (Watched /\ paused => buffer' = [buffer EXCEPT !.asks = buffer.asks \cup asks])
      /\ (~(Watched /\ paused) => buffer' = buffer)
      /\ (Watched => UNCHANGED pending)
      /\ (~Watched => pending' \in {pending, pending \cup asks})
      /\ reading = NoRead /\ queries' = queries \cup asks
      /\ UNCHANGED <<client, job, gates, results, watches, timers, pauses>>
  BY DEF Emit, Store, Stored
<1>1. /\ reading = NoRead /\ queries' = queries \cup asks
      /\ UNCHANGED <<client, job, gates, results, watches, timers, pauses>>
      /\ \/ reading'.asks = asks /\ UNCHANGED <<buffer, pending>>
         \/ buffer' = [buffer EXCEPT !.asks = buffer.asks \cup asks] /\ UNCHANGED <<reading, pending>>
         \/ pending' = pending \cup asks /\ UNCHANGED <<reading, buffer>>
         \/ UNCHANGED <<reading, buffer, pending>>
  <2> HIDE DEF asks, n
  <2>1. CASE Watched /\ ~paused
    BY <1>0, <2>1
  <2>2. CASE Watched /\ paused
    BY <1>0, <2>2
  <2>3. CASE ~Watched
    BY <1>0, <2>3
  <2> QED  BY <1>0, <2>1, <2>2, <2>3
<1>2. asks \cap queries = {}
  <2>1. emitted \in Nat /\ queries \subseteq 1 .. emitted  BY DEF Inv, PlaceInv, History
  <2> QED  BY <2>1
<1> HIDE DEF asks
<1>3. reading.asks = {}  BY <1>1 DEF NoRead
<1>4. /\ pending \subseteq queries /\ buffer.asks \subseteq queries
      /\ (\A t \in Writers : job[t].asks \subseteq queries) /\ \A v \in watches : v.token.asks \subseteq queries
  <2>1. buffer.asks \subseteq queries /\ pending \subseteq queries  BY DEF Inv, PlaceInv, QueryInv
  <2>2. \A v \in watches : v.token.asks \subseteq queries  BY DEF Inv, QueryInv, Watchings, Tokens
  <2> QED  BY <2>1, <2>2, JobParts
<1>5. AllAsked \subseteq queries
  <2>1. \A c \in Clients : client[c].asked \subseteq queries  BY DEF Inv, ClientInv, Holdings
  <2> QED  BY <2>1 DEF AllAsked
<1>6. /\ pending \subseteq pending' /\ pending' \subseteq pending \cup asks
      /\ buffer.asks \subseteq buffer'.asks /\ buffer'.asks \subseteq buffer.asks \cup asks
      /\ reading'.asks \in {asks, {}}
      /\ pending' \cap buffer'.asks = {} /\ pending' \cap reading'.asks = {}
      /\ buffer'.asks \cap reading'.asks = {}
  <2>1. pending \cap buffer.asks = {}  BY DEF AskInv, ApartInv
  <2>2. buffer'.asks \in {buffer.asks, buffer.asks \cup asks}
        /\ (buffer'.asks = buffer.asks \/ UNCHANGED <<reading, pending>>)
    <3>1. buffer \in [asks : SUBSET queries, primary : Somebody]  BY DEF Inv, PlaceInv
    <3> QED  BY <1>1, <3>1
  <2>3. CASE reading'.asks = asks /\ UNCHANGED <<buffer, pending>>
    BY <1>2, <1>4, <2>1, <2>3
  <2>4. CASE buffer' = [buffer EXCEPT !.asks = buffer.asks \cup asks] /\ UNCHANGED <<reading, pending>>
    BY <1>2, <1>3, <1>4, <2>1, <2>2, <2>4
  <2>5. CASE pending' = pending \cup asks /\ UNCHANGED <<reading, buffer>>
    BY <1>2, <1>3, <1>4, <2>1, <2>5
  <2>6. CASE UNCHANGED <<reading, buffer, pending>>
    BY <1>3, <2>1, <2>6
  <2> QED  BY <1>1, <2>3, <2>4, <2>5, <2>6
<1>7. Unsent' \subseteq Unsent \cup asks  BY <1>6 DEF Unsent
<1>8. Outgoing' = Outgoing /\ Told' = Told /\ AllAsked' = AllAsked /\ WriteInv' /\ AskedOnce'
  BY <1>1 DEF Outgoing, Told, AllAsked, AskInv, WriteInv, AskedOnce
<1>9. SentInv' /\ ToldInv' /\ FullInv'  BY <1>1, <1>8 DEF AskInv, SentInv, ToldInv, FullInv
<1>10. WatchedInv'  BY <1>1, <1>8 DEF AskInv, WatchedInv
<1>11. AwaitedInv'
  <2>1. \A w \in Outgoing : Armed(w)' <=> Armed(w)  BY <1>1 DEF Armed
  <2> QED  BY <1>1, <1>8, <2>1 DEF AskInv, AwaitedInv
<1>12. ApartInv'
  <2>1. \A t \in Writers : job[t].asks \cap Unsent' = {}
    BY <1>2, <1>4, <1>7 DEF AskInv, ApartInv
  <2>2. \A v \in watches : v.token.asks \cap Unsent' = {}
    BY <1>2, <1>4, <1>7 DEF AskInv, ApartInv
  <2> QED  BY <1>1, <1>6, <2>1, <2>2 DEF AskInv, ApartInv
<1>13. FreshInv'
  <2>1. Known' = Known  BY <1>1, <1>8 DEF Known
  <2>2. ASSUME NEW k \in Known
        PROVE  Fresh(k)'
    <3>1. Fresh(k)  BY DEF AskInv, FreshInv
    <3>2. k.asks # reading'.asks  BY <1>2, <1>6, <3>1 DEF Fresh
    <3> QED  BY <1>1, <3>1, <3>2 DEF Fresh
  <2> QED  BY <2>1, <2>2 DEF FreshInv
<1>14. UnaskedInv'
  <2>1. Unsent' \cap AllAsked' = {}  BY <1>2, <1>5, <1>7, <1>8 DEF AskInv, UnaskedInv
  <2>2. \A t \in Writers : ResultOf(t, TRUE)' = ResultOf(t, TRUE)  BY <1>1 DEF ResultOf
  <2> QED  BY <1>1, <1>8, <2>1, <2>2 DEF AskInv, UnaskedInv
<1> QED  BY <1>8, <1>9, <1>10, <1>11, <1>12, <1>13, <1>14 DEF AskInv

LEMMA InitAsks ==
  ASSUME OutputAssumption, Init
  PROVE  AskInv
<1>1. /\ client = [c \in Clients |-> Away] /\ reading = NoRead /\ buffer = NoBuffer
      /\ job = [t \in Writers |-> NoJob] /\ gates = {} /\ results = {}
      /\ pending = {} /\ watches = {}
  BY DEF Init
<1>2. NoRead.asks = {} /\ NoBuffer.asks = {}  BY DEF NoRead, NoBuffer
<1>3. \A t \in Writers : job[t].asks = {} /\ job[t].wait = NoClient /\ job[t].delivered /\ job[t] = NoJob
  BY <1>1 DEF NoJob
<1>4. \A c \in Clients : client[c].queue = <<>> /\ client[c].held = NoWrite /\ client[c].asked = {}
  BY <1>1 DEF Away
<1>5. WriteInv /\ Outgoing = {}  BY <1>4, NothingTidy DEF WriteInv, Outgoing, Tidied, Carries
<1>6. Told = {} /\ Unsent = {} /\ AllAsked = {} /\ AskedOnce
  BY <1>1, <1>2, <1>4 DEF Told, Unsent, AllAsked, AskedOnce
<1>7. Known = {}  BY <1>1, <1>5, <1>6 DEF Known
<1>8. SentInv /\ ToldInv /\ FreshInv /\ AwaitedInv
  BY <1>5, <1>6, <1>7 DEF SentInv, ToldInv, FreshInv, AwaitedInv
<1>9. WatchedInv  BY <1>5, <1>6 DEF WatchedInv
<1>10. ApartInv /\ FullInv  BY <1>1, <1>2, <1>3, <1>6 DEF ApartInv, FullInv
<1>11. UnaskedInv  BY <1>1, <1>3, <1>6 DEF UnaskedInv
<1> QED  BY <1>5, <1>6, <1>8, <1>9, <1>10, <1>11 DEF AskInv

LEMMA NextAsks ==
  ASSUME OutputAssumption, Inv, AskInv, [Next]_vars
  PROVE  AskInv'
<1>0. Inv'  BY NextWell DEF StepWell
<1>1. CASE Outside
  <2>1. CASE Emit  BY <2>1, EmitAsks
  <2>2. CASE \E c \in Clients : Attach(c) \/ CloseClient(c) \/ Focus(c) \/ Leave(c)
    BY <2>2, AttachAsks, CloseClientAsks, FocusAsks, LeaveAsks
  <2>3. CASE Pause  BY <1>0, <2>3, PauseAsks
  <2>4. CASE Hide   BY <2>4, HideAsks
  <2>5. CASE Show   BY <1>0, <2>5, ShowAsks
  <2> QED  BY <1>1, <2>1, <2>2, <2>3, <2>4, <2>5 DEF Outside
<1>2. CASE ServerStep
  <2>1. CASE WriteOutput    BY <2>1, WriteOutputAsks
  <2>2. CASE ReplayFocused  BY <1>0, <2>2, ReplayFocusedAsks
  <2>3. CASE \E w \in watches : QuerySent(w) \/ QueryFailed(w)
    BY <2>3, QuerySentAsks, QueryFailedAsks
  <2>4. CASE \E t \in Writers :
               AwaitPrimary(t) \/ PassFallback(t) \/ TryFallback(t) \/ AwaitFallback(t) \/ EndJob(t)
    BY <2>4, AwaitPrimaryAsks, PassFallbackAsks, TryFallbackAsks, AwaitFallbackAsks, EndJobAsks
  <2>5. CASE \E g \in timers : Resume(g)  BY <2>5, ResumeAsks
  <2> QED  BY <1>2, <2>1, <2>2, <2>3, <2>4, <2>5 DEF ServerStep
<1>3. CASE \E c \in Clients : ClientStep(c)
  <2> SUFFICES ASSUME NEW c \in Clients, ClientStep(c) PROVE AskInv'
    BY <1>3
  <2> QED  BY <1>0, TakeWriteAsks, SkipWriteAsks, DeliverWriteAsks, FailWriteAsks, FailQueuedAsks,
              FlushAttachedAsks DEF ClientStep
<1>4. CASE UNCHANGED vars  BY <1>4, UnchangedAsks
<1> QED  BY <1>1, <1>2, <1>3, <1>4 DEF Next

\* Two terminals never answer one query, whichever connection fails, falls
\* behind or is closed while a query is passed on from one to the next: a
\* write that may still be made is the one its thread waits for, so whoever
\* holds a query and hears of no such write knows that nobody was asked.
THEOREM AskedOnceHolds == Spec => []AskedOnce
<1> USE OutputAssumption
<1>1. Init => Inv /\ AskInv  BY InitInv, InitAsks
<1>2. Inv /\ AskInv /\ [Next]_vars => Inv' /\ AskInv'  BY NextWell, NextAsks DEF StepWell
<1>3. Inv /\ AskInv => AskedOnce  BY DEF AskInv
<1> QED  BY <1>1, <1>2, <1>3, PTL DEF Spec

(***************************************************************************)
(* What a client will be shown                                             *)
(***************************************************************************)
\* The writes of a client, and those behind a gate that are written instead of
\* a query that another has answered.
Writes(r) == ToSet(r.queue) \cup {r.held}
Rests(r)  == {w \in Writes(r) : w.gate.part = "rest"}

\* The write is made if its client stays, when the gates decided are G: what a
\* write that asks shows may never come, what the one behind it shows does
\* unless that one was made.
DueAt(w, G) == w.gate = NoGate \/ (w.gate.part = "rest" /\ [gate |-> w.gate, deliver |-> FALSE] \notin G)
Has(r, n, G) == n \in r.saw \/ \E w \in Writes(r) : DueAt(w, G) /\ n \in w.shows

\* Nothing that waits for its write or a gate.
Harmless(w) == w.gate = NoGate /\ w.token.who \notin Writers

\* Every write of S has its like among those of T; those that are new harm
\* nobody, or are w.
Passes(S, T)  == \A v \in S : v.shows # {} => \E u \in T : u.gate = v.gate /\ v.shows \subseteq u.shows
Adds(S, T, w) == \A u \in T : u \in S \/ u = w \/ Harmless(u)
Shows(T, w)   == \E u \in T : u.gate = w.gate /\ w.shows \subseteq u.shows

LEMMA PlainHarmless ==
  ASSUME OutputAssumption, NEW w, Plain(w)
  PROVE  Harmless(w)
BY DEF OutputAssumption, Plain, NoToken, Nobody, Harmless, Writers, Reader

LEMMA AppendedShows ==
  ASSUME OutputAssumption, NEW c \in Clients, NEW Q, NEW q \in Seq(Good(c, Q)), NEW w \in Good(c, Q)
  PROVE  LET T == ToSet(Appended(q, w)) IN
         Passes(ToSet(q), T) /\ Adds(ToSet(q), T, w) /\ Shows(T, w)
<1> DEFINE T == ToSet(Appended(q, w))
<1>1. CASE q # <<>> /\ Plain(w) /\ Plain(Last(q)) /\ Last(q).size + w.size <= ChunkLimit
  <2> DEFINE b == Front(q)
             v == Last(q)
             j == Joined(v, w)
             W == Good(c, Q) \cup {j}
  <2>1. b \in Seq(Good(c, Q)) /\ v \in Good(c, Q) /\ q = Append(b, v)  BY <1>1, FrontAndLast
  <2>2. Appended(q, w) = Append(b, j)  BY <1>1 DEF Appended
  <2>3. Plain(v) /\ Plain(w)  BY <1>1
  <2> HIDE DEF b, v
  <2>4. /\ j.gate = v.gate /\ j.token = v.token /\ j.shows = v.shows \cup w.shows
    BY <2>1 DEF Joined, Good
  <2> HIDE DEF j
  <2>5. ToSet(q) = ToSet(b) \cup {v}  BY <2>1, AppendIs DEF AppendParts
  <2>6. T = ToSet(b) \cup {j}
    <3>1. b \in Seq(W) /\ j \in W  BY <2>1
    <3> HIDE DEF W
    <3> QED  BY <2>2, <3>1, AppendIs DEF AppendParts
  <2>7. Harmless(j)
    <3>1. Harmless(v)  BY <2>3, PlainHarmless
    <3> QED  BY <2>4, <3>1 DEF Harmless
  <2>8. v.gate = NoGate /\ w.gate = NoGate  BY <2>3 DEF Plain
  <2> HIDE DEF T
  <2>9. Passes(ToSet(q), T)  BY <2>4, <2>5, <2>6 DEF Passes
  <2>10. Adds(ToSet(q), T, w)  BY <2>5, <2>6, <2>7 DEF Adds
  <2>11. Shows(T, w)  BY <2>4, <2>6, <2>8 DEF Shows
  <2> QED  BY <2>9, <2>10, <2>11 DEF T
<1>2. CASE ~(q # <<>> /\ Plain(w) /\ Plain(Last(q)) /\ Last(q).size + w.size <= ChunkLimit)
  <2>1. Appended(q, w) = Append(q, w)  BY <1>2 DEF Appended
  <2>2. T = ToSet(q) \cup {w}  BY <2>1, AppendIs DEF AppendParts
  <2> HIDE DEF T
  <2>3. Passes(ToSet(q), T)  BY <2>2 DEF Passes
  <2>4. Adds(ToSet(q), T, w)  BY <2>2 DEF Adds
  <2>5. Shows(T, w)  BY <2>2 DEF Shows
  <2> QED  BY <2>3, <2>4, <2>5 DEF T
<1> QED  BY <1>1, <1>2

\* Client r has become p by what was written or put into its queue.
More(r, p) ==
  /\ r.saw \subseteq p.saw /\ (p.open => r.open) /\ (r.flush => p.flush)
  /\ Passes(Writes(r), Writes(p))

LEMMA MoreIsMore ==
  /\ \A r : More(r, r) /\ \A w : Adds(Writes(r), Writes(r), w)
  /\ \A r, p, s : More(r, p) /\ More(p, s) => More(r, s)
<1>1. ASSUME NEW r
      PROVE  More(r, r) /\ \A w : Adds(Writes(r), Writes(r), w)
  BY DEF More, Passes, Adds
<1>2. ASSUME NEW r, NEW p, NEW s, More(r, p), More(p, s)
      PROVE  More(r, s)
  <2>1. Passes(Writes(r), Writes(s))
    <3> SUFFICES ASSUME NEW v \in Writes(r), v.shows # {}
                 PROVE  \E u \in Writes(s) : u.gate = v.gate /\ v.shows \subseteq u.shows
      BY DEF Passes
    <3>1. PICK x \in Writes(p) : x.gate = v.gate /\ v.shows \subseteq x.shows
      BY <1>2 DEF More, Passes
    <3> x.shows # {}  BY <3>1
    <3>2. PICK u \in Writes(s) : u.gate = x.gate /\ x.shows \subseteq u.shows
      BY <1>2 DEF More, Passes
    <3> QED  BY <3>1, <3>2
  <2> QED  BY <1>2, <2>1 DEF More
<1> QED  BY <1>1, <1>2

\* What put does to a client's queue, when it is w that may have got there.
Gains(r, p, w) == More(r, p) /\ Adds(Writes(r), Writes(p), w)

LEMMA GrownGains ==
  ASSUME OutputAssumption, NEW c \in Clients, NEW Q, NEW r \in Holdings(c, Q), NEW p, NEW w,
         Grown(r, p), \/ p.queue = r.queue
                      \/ p.queue = Appended(r.queue, w) /\ w \in Good(c, Q)
  PROVE  Gains(r, p, w) /\ (p.queue = r.queue \/ Shows(Writes(p), w))
<1>1. p.held = r.held /\ p.saw = r.saw /\ (p.open => r.open) /\ p.flush = r.flush
  BY DEF Grown
<1>2. CASE p.queue = r.queue
  <2>1. Writes(p) = Writes(r)  BY <1>1, <1>2 DEF Writes
  <2> QED  BY <1>1, <1>2, <2>1 DEF Gains, More, Passes, Adds
<1>3. CASE p.queue = Appended(r.queue, w) /\ w \in Good(c, Q)
  <2> DEFINE S == ToSet(r.queue)
             T == ToSet(p.queue)
  <2>1. r.queue \in Seq(Good(c, Q))  BY HoldingParts
  <2>2. Passes(S, T) /\ Adds(S, T, w) /\ Shows(T, w)  BY <1>3, <2>1, AppendedShows
  <2>3. Writes(r) = S \cup {r.held} /\ Writes(p) = T \cup {r.held}  BY <1>1 DEF Writes
  <2> HIDE DEF S, T
  <2>4. Passes(Writes(r), Writes(p))  BY <2>2, <2>3 DEF Passes
  <2>5. Adds(Writes(r), Writes(p), w)  BY <2>2, <2>3 DEF Adds
  <2>6. Shows(Writes(p), w)  BY <2>2, <2>3 DEF Shows
  <2> QED  BY <1>1, <2>4, <2>5, <2>6 DEF Gains, More
<1> QED  BY <1>2, <1>3

\* It gets there, if it is anything, unless the client is closed for it.
LEMMA PutShows ==
  ASSUME OutputAssumption, NEW c \in Clients, NEW Q, NEW r \in Holdings(c, Q), NEW w,
         w.size \in Nat, Fits(r, w) => w \in Good(c, Q)
  PROVE  /\ Put(r, w) \in Holdings(c, Q) /\ Gains(r, Put(r, w), w)
         /\ w.size # 0 => ~Put(r, w).open \/ Shows(Writes(Put(r, w)), w)
<1> DEFINE p == Put(r, w)
<1>1. PutWell(c, Q, r, w)  BY PutHolds
<1>2. CASE w.size # 0 /\ Fits(r, w)
  <2>1. p.queue = Appended(r.queue, w) /\ w \in Good(c, Q) /\ Grown(r, p)  BY <1>1, <1>2 DEF PutWell
  <2>2. p = [r EXCEPT !.bytes = r.bytes + w.size, !.queue = Appended(r.queue, w)]  BY <1>2 DEF Put
  <2>3. Gains(r, p, w) /\ (p.queue = r.queue \/ Shows(Writes(p), w))  BY <2>1, GrownGains
  <2>4. Shows(Writes(p), w)
    <3>1. Shows(ToSet(Appended(r.queue, w)), w)  BY <2>1, AppendedShows, HoldingParts
    <3>2. ToSet(Appended(r.queue, w)) \subseteq Writes(p)  BY <2>1 DEF Writes
    <3> QED  BY <3>1, <3>2 DEF Shows
  <2> QED  BY <1>1, <2>3, <2>4 DEF PutWell
<1>3. CASE ~(w.size # 0 /\ Fits(r, w))
  <2>1. p.queue = r.queue /\ Grown(r, p)  BY <1>1, <1>3 DEF PutWell
  <2>2. Gains(r, p, w)  BY <2>1, GrownGains
  <2>3. w.size # 0 => ~p.open
    <3>1. w.size # 0 => p = [r EXCEPT !.open = FALSE]  BY <1>3 DEF Put
    <3> QED  BY <3>1 DEF Holdings
  <2> QED  BY <1>1, <2>2, <2>3 DEF PutWell
<1> QED  BY <1>2, <1>3

LEMMA OfferedGains ==
  ASSUME OutputAssumption, NEW Q, NEW cs, \A c \in Clients : cs[c] \in Holdings(c, Q),
         NEW f \in Seq(Clients), NEW w, w.size \in Nat, NEW c \in Clients,
         Taker(cs, f, w) # 0 => w \in Good(f[Taker(cs, f, w)], Q)
  PROVE  Gains(cs[c], Offered(cs, f, w)[c], w)
<1>1. OfferedWell(cs, f, w, Q, Offered(cs, f, w))  BY OfferedHolds
<1> QED  BY <1>1, GrownGains DEF OfferedWell

\* A gate that makes one write needless has made it so before.
Opens(G, H) ==
  \A k : k.part = "rest" /\ [gate |-> k, deliver |-> FALSE] \in H => [gate |-> k, deliver |-> FALSE] \in G

LEMMA HasStays ==
  ASSUME NEW r, NEW p, More(r, p), NEW G, NEW H, Opens(G, H), NEW n, Has(r, n, G)
  PROVE  Has(p, n, H)
<1>1. CASE n \in r.saw
  BY <1>1 DEF More, Has
<1>2. CASE \E w \in Writes(r) : DueAt(w, G) /\ n \in w.shows
  <2>1. PICK w \in Writes(r) : DueAt(w, G) /\ n \in w.shows  BY <1>2
  <2>2. PICK u \in Writes(p) : u.gate = w.gate /\ w.shows \subseteq u.shows  BY <2>1 DEF More, Passes
  <2>3. DueAt(u, H)  BY <2>1, <2>2 DEF DueAt, Opens
  <2> QED  BY <2>1, <2>2, <2>3 DEF Has
<1> QED  BY <1>1, <1>2 DEF Has

(***************************************************************************)
(* The invariant                                                           *)
(***************************************************************************)
\* A write that may be needless waits for a gate of its client ...
RestInv ==
  \A c \in Clients : \A w \in Rests(client[c]) :
    Fresh(w.gate.token) /\ w.gate.token.client = c /\ w.gate.token.who \in Writers

\* ... which makes it so when a write that shows as much was made ...
PairInv ==
  \A c \in Clients : \A w \in Rests(client[c]) : \A v \in Writes(client[c]) :
    v.token = w.gate.token => w.shows \subseteq v.shows

\* ... or failed, and with it the client.
SeenOf(r, p) ==
  IF r.ok THEN \A w \in Rests(p) : w.gate.token = r.token => w.shows \subseteq p.saw
          ELSE ~p.open
SeenInv == \A r \in results : SeenOf(r, client[r.token.client])

RestsInv == RestInv /\ PairInv /\ SeenInv

\* The chunk that is to be written is the last, and in no replay yet.
MarkInv == reading # NoRead => reading.chunk = emitted /\ \A c \in Clients : client[c].mark < emitted

\* It will be written to client c.
InHand(c) == IF reading # NoRead /\ Sequence(c) <= reading.latest THEN {reading.chunk} ELSE {}

\* A client that a redraw is not owed has all of the output, or will.
Counts(c) == client[c].open /\ ~(redraws /\ client[c].flush)
Misses(c) == {n \in History \ InHand(c) : ~Has(client[c], n, gates)}
CoverInv  == shown /\ ~paused => \A c \in Registered : Counts(c) => Misses(c) = {}

PauseInv == paused => pauses \in timers

GapInv == RestsInv /\ MarkInv /\ CoverInv /\ PauseInv

\* At rest that is all there is to say.
LEMMA GapNone ==
  ASSUME OutputAssumption, Inv, GapInv
  PROVE  NoGap
<1> SUFFICES ASSUME Resting, shown, NEW c \in Registered, client[c].open, NEW n \in History
             PROVE  n \in client[c].saw
  BY DEF NoGap
<1>1. c \in Clients  BY KnownClients DEF Inv
<1>2. timers = {} /\ reading = NoRead  BY DEF Resting
<1>3. ~paused  BY <1>2 DEF GapInv, PauseInv
<1>4. client[c].queue = <<>> /\ client[c].held = NoWrite /\ ~client[c].flush  BY <1>1 DEF Resting
<1>5. Has(client[c], n, gates)  BY <1>2, <1>3, <1>4 DEF GapInv, CoverInv, Counts, Misses, InHand
<1>6. Writes(client[c]) = {NoWrite}  BY <1>4 DEF Writes, ToSet
<1>7. NoWrite.shows = {}  BY DEF NoWrite
<1> QED  BY <1>5, <1>6, <1>7 DEF Has

(***************************************************************************)
(* What may be needless, after a step                                      *)
(***************************************************************************)
LEMMA FreshKept ==
  ASSUME OutputAssumption, Inv, Inv', NEW k, Fresh(k), Timing, queries \subseteq queries',
         reading' \in {reading, NoRead}
  PROVE  Fresh(k)'
BY FreshStays DEF Inv, NoRead

LEMMA FreshNext ==
  ASSUME OutputAssumption, Inv, Inv', [Next]_vars, NEW k, Fresh(k)
  PROVE  Fresh(k)'
<1>1. ASSUME UNCHANGED pauseVars
      PROVE  Timing
  BY <1>1 DEF Timing, pauseVars
<1>2. ASSUME UNCHANGED <<windowVars, pauseVars>>
      PROVE  Fresh(k)'
  BY <1>1, <1>2, FreshKept DEF windowVars, pauseVars
<1>3. ASSUME UNCHANGED <<queries, reading>>, Paused \/ UNCHANGED pauseVars
      PROVE  Fresh(k)'
  BY <1>3, PauseTimed, FreshKept
<1>4. CASE UNCHANGED vars
  BY <1>2, <1>4 DEF vars
<1>5. CASE \E c \in Clients : ClientStep(c)
  <2> PICK c \in Clients : ClientStep(c)  BY <1>5
  <2>1. CASE TakeWrite(c) \/ SkipWrite(c)
    BY <1>2, <2>1 DEF TakeWrite, SkipWrite
  <2>2. CASE DeliverWrite(c)
    BY <1>2, <2>2 DEF DeliverWrite
  <2>3. CASE FailWrite(c) \/ FailQueued(c)
    BY <1>2, <2>3 DEF FailWrite, FailQueued
  <2>4. CASE FlushAttached(c)
    BY <1>3, <2>4 DEF FlushAttached, PausedIf, windowVars
  <2> QED  BY <2>1, <2>2, <2>3, <2>4 DEF ClientStep
<1>6. CASE ServerStep
  <2>1. CASE WriteOutput
    BY <1>1, <2>1, FreshKept DEF WriteOutput
  <2>2. CASE ReplayFocused
    BY <1>3, <2>2 DEF ReplayFocused, PausedIf, windowVars
  <2>3. CASE \E w \in watches : QuerySent(w) \/ QueryFailed(w)
    BY <1>2, <2>3 DEF QuerySent, QueryFailed
  <2>4. CASE \E t \in Writers :
               AwaitPrimary(t) \/ PassFallback(t) \/ TryFallback(t) \/ AwaitFallback(t) \/ EndJob(t)
    BY <1>2, <2>4 DEF AwaitPrimary, PassFallback, TryFallback, AwaitFallback, EndJob
  <2>5. CASE \E g \in timers : Resume(g)
    <3>1. Timing /\ UNCHANGED <<queries, reading>>  BY <2>5 DEF Resume, Timing, windowVars
    <3> QED  BY <3>1, FreshKept
  <2> QED  BY <1>6, <2>1, <2>2, <2>3, <2>4, <2>5 DEF ServerStep
<1>7. CASE Outside
  <2>1. CASE Emit
    <3>1. queries \subseteq queries' /\ UNCHANGED <<timers, pauses>>  BY <2>1 DEF Emit
    <3>2. reading' = reading \/ reading'.asks \in {{emitted + 1}, {}}  BY <2>1 DEF Emit
    <3>3. emitted \in Nat /\ queries \subseteq 1 .. emitted  BY DEF Inv, PlaceInv, History
    <3>4. k.asks # {emitted + 1} /\ k.asks # {}  BY <3>3 DEF Fresh
    <3> QED  BY <3>1, <3>2, <3>4 DEF Fresh
  <2>2. CASE \E c \in Clients : Attach(c) \/ CloseClient(c) \/ Focus(c) \/ Leave(c)
    BY <1>2, <2>2 DEF Attach, CloseClient, Focus, Leave
  <2>3. CASE Pause
    BY <1>3, <2>3 DEF Pause, windowVars
  <2>4. CASE Hide
    BY <1>3, <2>4 DEF Hide
  <2>5. CASE Show
    BY <1>3, <2>5 DEF Show, PausedIf
  <2> QED  BY <1>7, <2>1, <2>2, <2>3, <2>4, <2>5 DEF Outside
<1> QED  BY <1>4, <1>5, <1>6, <1>7 DEF Next

\* Client r has become p, and nothing new of it waits for its write or a gate.
Calm(r, p) ==
  /\ r.saw \subseteq p.saw /\ (p.open => r.open)
  /\ \A u \in Writes(p) : u \in Writes(r) \/ Harmless(u)

LEMMA HarmlessRests ==
  ASSUME NEW w, Harmless(w)
  PROVE  w.gate.part # "rest"
BY DEF Harmless, NoGate

LEMMA GainsCalm ==
  ASSUME NEW r, NEW p, NEW w, Gains(r, p, w), Harmless(w)
  PROVE  Calm(r, p) /\ More(r, p)
BY DEF Gains, Calm, More, Adds

LEMMA CalmIsCalm ==
  /\ \A r : Calm(r, r)
  /\ \A r, p, s : Calm(r, p) /\ Calm(p, s) => Calm(r, s)
BY DEF Calm

LEMMA RestsKeep ==
  ASSUME OutputAssumption, Inv, Inv', [Next]_vars, RestsInv,
         \A c \in Clients : Calm(client[c], client'[c]),
         \A r \in results' : r \in results \/ SeenOf(r, client'[r.token.client])
  PROVE  RestsInv'
<1>1. ASSUME NEW c \in Clients, NEW w \in Rests(client'[c])
      PROVE  w \in Rests(client[c])
  BY <1>1, HarmlessRests DEF Calm, Rests
<1>2. RestInv'
  <2> SUFFICES ASSUME NEW c \in Clients, NEW w \in Rests(client'[c])
               PROVE  Fresh(w.gate.token)' /\ w.gate.token.client = c /\ w.gate.token.who \in Writers
    BY DEF RestInv
  <2>1. Fresh(w.gate.token) /\ w.gate.token.client = c /\ w.gate.token.who \in Writers
    BY <1>1 DEF RestsInv, RestInv
  <2> QED  BY <2>1, FreshNext
<1>3. PairInv'
  <2> SUFFICES ASSUME NEW c \in Clients, NEW w \in Rests(client'[c]), NEW v \in Writes(client'[c]),
                      v.token = w.gate.token
               PROVE  w.shows \subseteq v.shows
    BY DEF PairInv
  <2>1. w \in Rests(client[c])  BY <1>1
  <2>2. ~Harmless(v)  BY <2>1 DEF RestsInv, RestInv, Harmless
  <2>3. v \in Writes(client[c])  BY <2>2 DEF Calm
  <2> QED  BY <2>1, <2>3 DEF RestsInv, PairInv
<1>4. SeenInv'
  <2> SUFFICES ASSUME NEW r \in results', r \in results PROVE SeenOf(r, client'[r.token.client])
    BY DEF SeenInv
  <2> DEFINE c == r.token.client
  <2>1. c \in Clients  BY DEF Inv, ResultInv
  <2>2. SeenOf(r, client[c])  BY DEF RestsInv, SeenInv
  <2>3. Calm(client[c], client'[c])  BY <2>1
  <2>4. \A w \in Rests(client'[c]) : w \in Rests(client[c])  BY <1>1, <2>1
  <2> HIDE DEF c
  <2>5. SeenOf(r, client'[c])
    <3>1. CASE r.ok
      BY <2>2, <2>3, <2>4, <3>1 DEF SeenOf, Calm
    <3>2. CASE ~r.ok
      BY <2>2, <2>3, <3>2 DEF SeenOf, Calm
    <3> QED  BY <3>1, <3>2
  <2> QED  BY <2>5 DEF c
<1> QED  BY <1>2, <1>3, <1>4 DEF RestsInv

\* The clients keep what they have.
Holds(c) == \A n \in History : Has(client[c], n, gates) => Has(client'[c], n, gates')

LEMMA CoverKeeps ==
  ASSUME CoverInv, shown' /\ ~paused' => shown /\ ~paused, Registered' \subseteq Registered,
         UNCHANGED <<redraws, emitted>>, \A c \in Registered' : InHand(c) \subseteq InHand(c)',
         \A c \in Registered' : Counts(c)' => Counts(c) /\ Holds(c)
  PROVE  CoverInv'
<1> SUFFICES ASSUME shown', ~paused', NEW c \in Registered', Counts(c)', NEW n \in Misses(c)'
             PROVE  FALSE
  BY DEF CoverInv
<1>1. n \in History /\ n \notin InHand(c) /\ ~Has(client'[c], n, gates')  BY DEF Misses, History
<1>2. Counts(c) /\ Holds(c)  OBVIOUS
<1>3. n \in Misses(c)  BY <1>1, <1>2 DEF Holds, Misses
<1> QED  BY <1>2, <1>3 DEF CoverInv

\* A step that changes neither the window nor who is there.
Indoors == UNCHANGED <<shown, paused, redraws, emitted, reading, focus, arrived, pauses, timers>>

LEMMA IndoorsIs ==
  ASSUME Indoors, CoverInv, PauseInv,
         \A c \in Registered : Counts(c)' => Counts(c) /\ Holds(c)
  PROVE  CoverInv' /\ PauseInv'
<1>1. Registered' = Registered /\ \A c : InHand(c)' = InHand(c)
  BY DEF Indoors, Registered, InHand, Sequence
<1> QED  BY <1>1, CoverKeeps DEF Indoors, PauseInv

LEMMA MoreHolds ==
  ASSUME NEW c, More(client[c], client'[c]), Opens(gates, gates'), redraws' = redraws
  PROVE  (Counts(c)' => Counts(c)) /\ Holds(c)
<1>1. Counts(c)' => Counts(c)  BY DEF More, Counts
<1>2. Holds(c)  BY HasStays DEF Holds
<1> QED  BY <1>1, <1>2

LEMMA MarkKeeps ==
  ASSUME MarkInv, UNCHANGED emitted, reading' \in {reading, NoRead}, \A c \in Clients : client'[c].mark = client[c].mark
  PROVE  MarkInv'
BY DEF MarkInv

\* Clients put something into queues, and no one waits for it behind a gate.
LEMMA CalmKeeps ==
  ASSUME OutputAssumption, Inv, Inv', [Next]_vars, GapInv, Indoors, Opens(gates, gates'), results' \subseteq results,
         \A c \in Clients : /\ Calm(client[c], client'[c]) /\ More(client[c], client'[c])
                            /\ client'[c].mark = client[c].mark
  PROVE  GapInv'
<1>1. RestsInv'  BY RestsKeep DEF GapInv
<1>2. MarkInv'  BY MarkKeeps DEF GapInv, Indoors
<1>3. CoverInv' /\ PauseInv'
  <2>1. Registered \subseteq Clients  BY KnownClients DEF Inv
  <2>2. \A c \in Registered : Counts(c)' => Counts(c) /\ Holds(c)  BY <2>1, MoreHolds DEF Indoors
  <2> QED  BY <2>1, <2>2, IndoorsIs DEF GapInv
<1> QED  BY <1>1, <1>2, <1>3 DEF GapInv

(***************************************************************************)
(* The steps of a write loop                                               *)
(***************************************************************************)
\* One client's books change.
BooksKept(c, p) ==
  p.open /\ ~(redraws /\ p.flush) =>
    Counts(c) /\ \A n \in History : Has(client[c], n, gates) => Has(p, n, gates')

LEMMA OneKeeps ==
  ASSUME OutputAssumption, Inv, Inv', [Next]_vars, GapInv, Indoors, Opens(gates, gates'),
         NEW c \in Clients, NEW p, client' = [client EXCEPT ![c] = p], Calm(client[c], p),
         p.mark = client[c].mark, BooksKept(c, p),
         \A r \in results' : r \in results \/ (r.token.client = c /\ SeenOf(r, p))
  PROVE  GapInv'
<1>1. client'[c] = p /\ \A d \in Clients \ {c} : client'[d] = client[d]
  BY DEF Inv, ClientInv
<1>2. RestsInv'
  <2>1. \A d \in Clients : Calm(client[d], client'[d])  BY <1>1, CalmIsCalm
  <2> QED  BY <1>1, <2>1, RestsKeep DEF GapInv
<1>3. MarkInv'
  <2>1. \A d \in Clients : client'[d].mark = client[d].mark  BY <1>1
  <2> QED  BY <2>1, MarkKeeps DEF GapInv, Indoors
<1>4. CoverInv' /\ PauseInv'
  <2>1. Registered \subseteq Clients  BY KnownClients DEF Inv
  <2>2. ASSUME NEW d \in Registered, Counts(d)'
        PROVE  Counts(d) /\ Holds(d)
    <3>1. CASE d = c
      <4>1. p.open /\ ~(redraws /\ p.flush)  BY <1>1, <2>2, <3>1 DEF Counts, Indoors
      <4> QED  BY <1>1, <3>1, <4>1 DEF BooksKept, Holds
    <3>2. CASE d # c
      <4>1. client'[d] = client[d] /\ redraws' = redraws  BY <1>1, <2>1, <3>2 DEF Indoors
      <4>2. More(client[d], client'[d])  BY <4>1, MoreIsMore
      <4> QED  BY <2>2, <4>1, <4>2, MoreHolds
    <3> QED  BY <3>1, <3>2
  <2> QED  BY <2>2, IndoorsIs DEF GapInv
<1> QED  BY <1>2, <1>3, <1>4 DEF GapInv

LEMMA OpensFewer ==
  ASSUME gates' \subseteq gates
  PROVE  Opens(gates, gates')
BY DEF Opens

LEMMA IndoorsElsewhere ==
  ASSUME UNCHANGED <<attachVars, windowVars, pauseVars>>
  PROVE  Indoors
BY DEF attachVars, windowVars, pauseVars, Indoors

\* A queue without its first write.
LEMMA HeadAndTail ==
  ASSUME NEW W, NEW q \in Seq(W), q # <<>>
  PROVE  ToSet(q) = ToSet(Tail(q)) \cup {Head(q)}
<1> DEFINE t == Tail(q)
           h == Head(q)
<1>1. /\ Len(q) \in Nat \ {0} /\ DOMAIN q = 1 .. Len(q) /\ DOMAIN t = 1 .. (Len(q) - 1)
      /\ h = q[1] /\ \A i \in 1 .. (Len(q) - 1) : t[i] = q[i + 1]
  OBVIOUS
<1> HIDE DEF t, h
<1>2. \A i \in DOMAIN q : q[i] \in ToSet(t) \cup {h}
  <2> SUFFICES ASSUME NEW i \in DOMAIN q PROVE q[i] \in ToSet(t) \cup {h}
    OBVIOUS
  <2>1. CASE i = 1
    BY <1>1, <2>1
  <2>2. CASE i # 1
    <3>1. i - 1 \in 1 .. (Len(q) - 1) /\ (i - 1) + 1 = i  BY <1>1, <2>2
    <3>2. i - 1 \in DOMAIN t /\ t[i - 1] = q[i]  BY <1>1, <3>1
    <3> QED  BY <3>2 DEF ToSet
  <2> QED  BY <2>1, <2>2
<1>3. \A i \in DOMAIN t : i + 1 \in DOMAIN q /\ t[i] = q[i + 1]  BY <1>1
<1>4. 1 \in DOMAIN q  BY <1>1
<1>5. ToSet(t) \subseteq ToSet(q)  BY <1>3 DEF ToSet
<1>6. h \in ToSet(q)  BY <1>1, <1>4 DEF ToSet
<1>7. ToSet(q) \subseteq ToSet(t) \cup {h}  BY <1>2 DEF ToSet
<1>8. ToSet(q) = ToSet(t) \cup {h}  BY <1>5, <1>6, <1>7
<1> QED  BY <1>8 DEF t, h

LEMMA TakeWriteCovers ==
  ASSUME OutputAssumption, Inv, Inv', [Next]_vars, GapInv, NEW c \in Clients, TakeWrite(c)
  PROVE  GapInv'
<1> DEFINE r == client[c]
           p == [r EXCEPT !.held = Head(r.queue), !.queue = Tail(r.queue)]
<1>1. /\ r.held = NoWrite /\ r.queue # <<>> /\ client' = [client EXCEPT ![c] = p]
      /\ UNCHANGED <<attachVars, windowVars, pauseVars>> /\ UNCHANGED <<gates, results>>
  <2>1. client' = [client EXCEPT ![c].held = Head(r.queue), ![c].queue = Tail(r.queue)]
    BY DEF TakeWrite
  <2>2. client' = [client EXCEPT ![c] = p]  BY <2>1 DEF Inv, ClientInv
  <2> QED  BY <2>2 DEF TakeWrite
<1>2. r \in Holdings(c, queries)  BY DEF Inv, ClientInv
<1>3. /\ p.held = Head(r.queue) /\ p.queue = Tail(r.queue) /\ p.saw = r.saw /\ p.open = r.open
      /\ p.flush = r.flush /\ p.mark = r.mark
  BY <1>2 DEF Holdings
<1>4. Writes(r) = Writes(p) \cup {NoWrite}
  <2> HIDE DEF r, p
  <2>1. ToSet(r.queue) = ToSet(Tail(r.queue)) \cup {Head(r.queue)}
    BY <1>1, <1>2, HoldingParts, HeadAndTail
  <2> QED  BY <1>1, <1>3, <2>1 DEF Writes
<1> HIDE DEF p, r
<1>5. Calm(r, p)  BY <1>3, <1>4 DEF Calm
<1>6. \A n : Has(r, n, gates) => Has(p, n, gates)
  <2>1. NoWrite.shows = {}  BY DEF NoWrite
  <2> QED  BY <1>3, <1>4, <2>1 DEF Has
<1>7. BooksKept(c, p)  BY <1>1, <1>3, <1>6 DEF BooksKept, Counts, r
<1>8. Indoors /\ Opens(gates, gates')  BY <1>1, OpensFewer, IndoorsElsewhere
<1> QED  BY <1>1, <1>3, <1>5, <1>7, <1>8, OneKeeps DEF r

\* The write in hand is put aside.
LEMMA ReturnedIs ==
  ASSUME OutputAssumption, NEW c \in Clients, NEW Q, NEW r \in Holdings(c, Q)
  PROVE  LET p == Returned(r) IN
         /\ p.saw = r.saw /\ p.open = r.open /\ p.flush = r.flush /\ p.mark = r.mark
         /\ p.queue = r.queue /\ p.held = NoWrite
         /\ Writes(p) = ToSet(r.queue) \cup {NoWrite} /\ Writes(r) = ToSet(r.queue) \cup {r.held}
<1>1. Returned(r) = [r EXCEPT !.bytes = r.bytes - r.held.size, !.held = NoWrite]
  BY DEF Returned
<1> QED  BY <1>1 DEF Holdings, Writes

LEMMA NoWriteHarmless ==
  ASSUME OutputAssumption
  PROVE  Harmless(NoWrite) /\ NoWrite.shows = {}
BY PlainHarmless DEF NoWrite, Plain

LEMMA SkipWriteCovers ==
  ASSUME OutputAssumption, Inv, Inv', [Next]_vars, GapInv, NEW c \in Clients, SkipWrite(c)
  PROVE  GapInv'
<1> DEFINE r == client[c]
           p == Returned(r)
           g == [gate |-> r.held.gate, deliver |-> FALSE]
<1>1. /\ client' = [client EXCEPT ![c] = p] /\ UNCHANGED <<attachVars, windowVars, pauseVars>>
      /\ results' = results /\ r.held.gate # NoGate /\ g \in gates /\ gates' = gates \ {g}
  BY DEF SkipWrite
<1>2. r \in Holdings(c, queries)  BY DEF Inv, ClientInv
<1>3. /\ p.saw = r.saw /\ p.open = r.open /\ p.flush = r.flush /\ p.mark = r.mark
      /\ Writes(p) = ToSet(r.queue) \cup {NoWrite} /\ Writes(r) = ToSet(r.queue) \cup {r.held}
  BY <1>2, ReturnedIs
<1> HIDE DEF p, r
<1>4. Calm(r, p)  BY <1>3, NoWriteHarmless DEF Calm
<1>5. \A n : Has(r, n, gates) => Has(p, n, gates')
  <2> SUFFICES ASSUME NEW n, NEW w \in Writes(r), DueAt(w, gates), n \in w.shows
               PROVE  Has(p, n, gates')
    BY <1>3 DEF Has
  <2>1. w # r.held  BY <1>1 DEF DueAt
  <2>2. w \in Writes(p) /\ DueAt(w, gates')  BY <1>1, <1>3, <2>1 DEF DueAt
  <2> QED  BY <2>2 DEF Has
<1>6. BooksKept(c, p)  BY <1>3, <1>5 DEF BooksKept, Counts, r
<1>7. Indoors /\ Opens(gates, gates')  BY <1>1, OpensFewer, IndoorsElsewhere
<1> QED  BY <1>1, <1>3, <1>4, <1>6, <1>7, OneKeeps DEF r

\* Who waits for a write of client c waits for c.
LEMMA WaitsFor ==
  ASSUME OutputAssumption, Inv, NEW c \in Clients, NEW w \in Writes(client[c]), w.token # NoToken
  PROVE  w.token.client = c
<1>1. client[c] \in Holdings(c, queries)  BY DEF Inv, ClientInv
<1>2. \A q \in Seq(Good(c, queries)) : ToSet(q) \subseteq Good(c, queries)
  BY DEF ToSet
<1>3. w \in Good(c, queries)  BY <1>1, <1>2, HoldingParts DEF Writes
<1> QED  BY <1>3 DEF Good

LEMMA ReportIs ==
  ASSUME NEW w, NEW ok, Report(w, ok)
  PROVE  \A r \in results' : r \in results \/ (w.token # NoToken /\ r.token = w.token /\ r.ok = ok)
BY DEF Report

LEMMA DeliverWriteCovers ==
  ASSUME OutputAssumption, Inv, Inv', [Next]_vars, GapInv, NEW c \in Clients, DeliverWrite(c)
  PROVE  GapInv'
<1> DEFINE r == client[c]
           q == Returned(r)
           p == [q EXCEPT !.saw = q.saw \cup r.held.shows, !.asked = q.asked \cup r.held.asks]
<1>1. /\ client' = [client EXCEPT ![c] = p] /\ UNCHANGED <<attachVars, windowVars, pauseVars>>
      /\ gates' \subseteq gates /\ Report(r.held, TRUE)
  <2>1. client' = [client EXCEPT ![c] = p]  BY DEF DeliverWrite
  <2>2. UNCHANGED <<attachVars, windowVars, pauseVars>> /\ gates' \subseteq gates /\ Report(r.held, TRUE)
    BY DEF DeliverWrite
  <2> QED  BY <2>1, <2>2
<1>2. r \in Holdings(c, queries)  BY DEF Inv, ClientInv
<1>3. /\ q.saw = r.saw /\ q.open = r.open /\ q.flush = r.flush /\ q.mark = r.mark
      /\ q.queue = r.queue /\ q.held = NoWrite
      /\ Writes(q) = ToSet(r.queue) \cup {NoWrite} /\ Writes(r) = ToSet(r.queue) \cup {r.held}
  BY <1>2, ReturnedIs
<1>4. q \in Holdings(c, queries)  BY <1>2, ReturnedHolds
<1> HIDE DEF q
<1>5. /\ p.saw = r.saw \cup r.held.shows /\ p.open = r.open /\ p.flush = r.flush /\ p.mark = r.mark
      /\ p.queue = q.queue /\ p.held = q.held
  BY <1>3, <1>4 DEF Holdings
<1>6. Writes(p) = ToSet(r.queue) \cup {NoWrite}  BY <1>3, <1>5 DEF Writes
<1> HIDE DEF p, r
<1>7. Calm(r, p)  BY <1>3, <1>5, <1>6, NoWriteHarmless DEF Calm
<1>8. \A n : Has(r, n, gates) => Has(p, n, gates')
  <2> SUFFICES ASSUME NEW n, NEW w \in Writes(r), DueAt(w, gates), n \in w.shows, w # r.held
               PROVE  Has(p, n, gates')
    BY <1>3, <1>5 DEF Has
  <2>2. w \in Writes(p) /\ DueAt(w, gates')  BY <1>1, <1>3, <1>6 DEF DueAt
  <2> QED  BY <2>2 DEF Has
<1>9. BooksKept(c, p)  BY <1>5, <1>8 DEF BooksKept, Counts, r
<1>10. \A x \in results' : x \in results \/ (x.token.client = c /\ SeenOf(x, p))
  <2> SUFFICES ASSUME NEW x \in results', x \notin results
               PROVE  x.token.client = c /\ SeenOf(x, p)
    OBVIOUS
  <2>1. r.held.token # NoToken /\ x.token = r.held.token /\ x.ok  BY <1>1, ReportIs
  <2>2. x.token.client = c  BY <1>3, <2>1, WaitsFor DEF r
  <2>3. ASSUME NEW w \in Rests(p), w.gate.token = x.token
        PROVE  w.shows \subseteq p.saw
    <3>1. w \in Rests(r)
      BY <1>3, <1>6, <2>3, NoWriteHarmless, HarmlessRests DEF Rests
    <3>2. r.held \in Writes(r)  BY <1>3
    <3>3. w.shows \subseteq r.held.shows  BY <2>1, <2>3, <3>1, <3>2 DEF GapInv, RestsInv, PairInv, r
    <3> QED  BY <1>5, <3>3
  <2> QED  BY <2>1, <2>2, <2>3 DEF SeenOf
<1>11. Indoors /\ Opens(gates, gates')  BY <1>1, OpensFewer, IndoorsElsewhere
<1> QED  BY <1>1, <1>5, <1>7, <1>9, <1>10, <1>11, OneKeeps DEF r

LEMMA FailWriteCovers ==
  ASSUME OutputAssumption, Inv, Inv', [Next]_vars, GapInv, NEW c \in Clients, FailWrite(c)
  PROVE  GapInv'
<1> DEFINE r == client[c]
           q == Returned(r)
           p == [q EXCEPT !.gone = TRUE]
<1>1. /\ client' = [client EXCEPT ![c] = p] /\ UNCHANGED <<attachVars, windowVars, pauseVars>>
      /\ gates' = gates /\ Report(r.held, FALSE) /\ ~r.open
  BY DEF FailWrite
<1>2. r \in Holdings(c, queries)  BY DEF Inv, ClientInv
<1>3. /\ q.saw = r.saw /\ q.open = r.open /\ q.mark = r.mark /\ q.queue = r.queue /\ q.held = NoWrite
      /\ Writes(q) = ToSet(r.queue) \cup {NoWrite} /\ Writes(r) = ToSet(r.queue) \cup {r.held}
  BY <1>2, ReturnedIs
<1>4. q \in Holdings(c, queries)  BY <1>2, ReturnedHolds
<1> HIDE DEF q
<1>5. p.saw = r.saw /\ p.open = r.open /\ p.mark = r.mark /\ p.queue = q.queue /\ p.held = q.held
  BY <1>3, <1>4 DEF Holdings
<1>6. Writes(p) = ToSet(r.queue) \cup {NoWrite}  BY <1>3, <1>5 DEF Writes
<1> HIDE DEF p, r
<1>7. Calm(r, p)  BY <1>3, <1>5, <1>6, NoWriteHarmless DEF Calm
<1>8. BooksKept(c, p)  BY <1>1, <1>5 DEF BooksKept
<1>9. \A x \in results' : x \in results \/ (x.token.client = c /\ SeenOf(x, p))
  <2> SUFFICES ASSUME NEW x \in results', x \notin results
               PROVE  x.token.client = c /\ SeenOf(x, p)
    OBVIOUS
  <2>1. r.held.token # NoToken /\ x.token = r.held.token /\ ~x.ok  BY <1>1, ReportIs
  <2>2. x.token.client = c  BY <1>3, <2>1, WaitsFor DEF r
  <2> QED  BY <1>1, <1>5, <2>1, <2>2 DEF SeenOf
<1>10. Indoors /\ Opens(gates, gates')  BY <1>1, OpensFewer, IndoorsElsewhere
<1> QED  BY <1>1, <1>5, <1>7, <1>8, <1>9, <1>10, OneKeeps DEF r

LEMMA FailQueuedCovers ==
  ASSUME OutputAssumption, Inv, Inv', [Next]_vars, GapInv, NEW c \in Clients, FailQueued(c)
  PROVE  GapInv'
<1> DEFINE r == client[c]
           p == [r EXCEPT !.queue = <<>>, !.gone = TRUE, !.bytes = r.bytes - Bytes(r.queue)]
           W == {v \in ToSet(r.queue) : v.token # NoToken}
<1>1. /\ client' = [client EXCEPT ![c] = p] /\ UNCHANGED <<attachVars, windowVars, pauseVars>>
      /\ gates' = gates /\ results' = results \cup {[token |-> w.token, ok |-> FALSE] : w \in W}
      /\ ~r.open
  BY DEF FailQueued
<1>2. r \in Holdings(c, queries)  BY DEF Inv, ClientInv
<1>3. p.saw = r.saw /\ p.open = r.open /\ p.mark = r.mark /\ p.queue = <<>> /\ p.held = r.held
  BY <1>2 DEF Holdings
<1>4. Writes(p) \subseteq Writes(r)
  <2>1. ToSet(<<>>) = {}  BY DEF ToSet
  <2> QED  BY <1>3, <2>1 DEF Writes
<1> HIDE DEF p
<1>5. Calm(r, p)  BY <1>3, <1>4 DEF Calm
<1>6. BooksKept(c, p)  BY <1>1, <1>3 DEF BooksKept
<1>7. \A x \in results' : x \in results \/ (x.token.client = c /\ SeenOf(x, p))
  <2> SUFFICES ASSUME NEW x \in results', x \notin results
               PROVE  x.token.client = c /\ SeenOf(x, p)
    OBVIOUS
  <2>1. PICK w \in W : x = [token |-> w.token, ok |-> FALSE]  BY <1>1
  <2>2. w \in Writes(r) /\ w.token # NoToken  BY DEF Writes
  <2>3. x.token.client = c  BY <2>1, <2>2, WaitsFor
  <2> QED  BY <1>1, <1>3, <2>1, <2>3 DEF SeenOf
<1>8. Indoors /\ Opens(gates, gates')  BY <1>1, OpensFewer, IndoorsElsewhere
<1> QED  BY <1>1, <1>3, <1>5, <1>6, <1>7, <1>8, OneKeeps

\* A client is closed.
LEMMA ClosedKeeps ==
  ASSUME OutputAssumption, Inv, NEW c \in Clients, client' = [client EXCEPT ![c].open = FALSE]
  PROVE  \A d \in Clients : /\ Calm(client[d], client'[d]) /\ More(client[d], client'[d])
                            /\ client'[d].mark = client[d].mark
<1> SUFFICES ASSUME NEW d \in Clients
             PROVE  /\ Calm(client[d], client'[d]) /\ More(client[d], client'[d])
                    /\ client'[d].mark = client[d].mark
  OBVIOUS
<1>1. CASE d # c
  <2>1. client'[d] = client[d]  BY <1>1 DEF Inv, ClientInv
  <2> QED  BY <2>1, MoreIsMore, CalmIsCalm
<1>2. CASE d = c
  <2> DEFINE r == client[c]
             p == client'[c]
  <2>1. r \in Holdings(c, queries) /\ p = [r EXCEPT !.open = FALSE]  BY DEF Inv, ClientInv
  <2> HIDE DEF p, r
  <2>2. /\ p.saw = r.saw /\ ~p.open /\ p.mark = r.mark /\ p.queue = r.queue /\ p.held = r.held
        /\ p.flush = r.flush
    BY <2>1 DEF Holdings
  <2>3. Writes(p) = Writes(r)  BY <2>2 DEF Writes
  <2>4. Calm(r, p) /\ Passes(Writes(r), Writes(p))  BY <2>2, <2>3 DEF Calm, Passes
  <2>5. More(r, p)  BY <2>2, <2>4 DEF More
  <2> QED  BY <1>2, <2>2, <2>4, <2>5 DEF p, r
<1> QED  BY <1>1, <1>2

LEMMA CloseClientCovers ==
  ASSUME OutputAssumption, Inv, Inv', [Next]_vars, GapInv, NEW c \in Clients, CloseClient(c)
  PROVE  GapInv'
<1>1. /\ client' = [client EXCEPT ![c].open = FALSE] /\ UNCHANGED <<attachVars, windowVars, pauseVars>>
      /\ UNCHANGED <<gates, results>>
  BY DEF CloseClient
<1>2. Indoors /\ Opens(gates, gates')  BY <1>1, OpensFewer, IndoorsElsewhere
<1> QED  BY <1>1, <1>2, ClosedKeeps, CalmKeeps

(***************************************************************************)
(* Queries are sent again, and the steps of a job                          *)
(***************************************************************************)
Keeps(r, p) == Calm(r, p) /\ More(r, p) /\ p.mark = r.mark

LEMMA KeepsIs ==
  /\ \A r : Keeps(r, r)
  /\ \A r, p, s : Keeps(r, p) /\ Keeps(p, s) => Keeps(r, s)
<1>1. \A r : Keeps(r, r)  BY MoreIsMore, CalmIsCalm DEF Keeps
<1>2. ASSUME NEW r, NEW p, NEW s, Keeps(r, p), Keeps(p, s)
      PROVE  Keeps(r, s)
  BY <1>2, MoreIsMore, CalmIsCalm DEF Keeps
<1> QED  BY <1>1, <1>2

LEMMA QueriesOffered ==
  ASSUME OutputAssumption, NEW Q, NEW A \in SUBSET Q, NEW cs, \A d \in Clients : cs[d] \in Holdings(d, Q),
         NEW f \in Seq(Clients), NEW i, i = Taker(cs, f, Data({}, A)), NEW c \in Clients
  PROVE  /\ i = 0 => Keeps(cs[c], Offered(cs, f, Data({}, A))[c])
         /\ i # 0 => Keeps(cs[c], Offered(cs, f, Again(A, f[i]))[c])
<1> DEFINE v == Data({}, A)
<1>1. v.size \in Nat  BY DataSize
<1>2. CASE i = 0
  <2>1. Harmless(v)
    <3>1. v.token = NoToken /\ v.gate = NoGate  BY DEF Data, NoWrite
    <3> HIDE DEF v
    <3>2. NoToken.who \notin Writers
      BY DEF OutputAssumption, NoToken, Nobody, Writers, Reader
    <3> QED  BY <3>1, <3>2 DEF Harmless
  <2> HIDE DEF v
  <2>2. Taker(cs, f, v) = 0  BY <1>2 DEF v
  <2>3. Gains(cs[c], Offered(cs, f, v)[c], v)  BY <1>1, <2>2, OfferedGains
  <2>4. OfferedWell(cs, f, v, Q, Offered(cs, f, v))  BY <1>1, <2>2, OfferedHolds
  <2>5. Keeps(cs[c], Offered(cs, f, v)[c])  BY <2>1, <2>3, <2>4, GainsCalm DEF Keeps, OfferedWell, Grown
  <2> QED  BY <1>2, <2>5 DEF v
<1>3. CASE i # 0
  <2> DEFINE w == Again(A, f[i])
  <2>1. f[i] \in Clients
    <3>1. TakenAt(i, cs, f, v)  BY TakerIs
    <3> QED  BY <1>3, <3>1 DEF TakenAt
  <2>2. /\ w \in Good(f[i], Q) /\ w.size = v.size /\ w.gate = NoGate
        /\ w.token = [who |-> Resender, asks |-> A, client |-> f[i]]
    <3>1. AgainWell(f[i], Q, A)  BY <2>1, AgainGood
    <3> QED  BY <3>1 DEF AgainWell
  <2>3. Taker(cs, f, w) = i  BY <2>2, TakerBySize
  <2>4. Harmless(w)
    <3> HIDE DEF w
    <3>1. Resender \notin Writers
      BY DEF OutputAssumption, Resender, Writers, Reader
    <3> QED  BY <2>2, <3>1 DEF Harmless
  <2> HIDE DEF w, v
  <2>5. w.size \in Nat /\ (Taker(cs, f, w) # 0 => w \in Good(f[Taker(cs, f, w)], Q))  BY <1>1, <2>2, <2>3
  <2>6. Gains(cs[c], Offered(cs, f, w)[c], w)  BY <2>5, OfferedGains
  <2>7. OfferedWell(cs, f, w, Q, Offered(cs, f, w))  BY <2>5, OfferedHolds
  <2>8. Keeps(cs[c], Offered(cs, f, w)[c])  BY <2>4, <2>6, <2>7, GainsCalm DEF Keeps, OfferedWell, Grown
  <2> QED  BY <1>3, <2>8 DEF w
<1> QED  BY <1>2, <1>3

LEMMA RedeliverCalm ==
  ASSUME OutputAssumption, Inv, NEW A \in SUBSET queries, NEW flight, NEW others,
         Redeliver(A, flight, others), NEW c \in Clients
  PROVE  Keeps(client[c], client'[c])
<1> DEFINE t == Taker(client, focus, Data({}, A))
           i == IF shown THEN t ELSE 0
<1>1. t \in Nat
  <2>1. TakenAt(t, client, focus, Data({}, A))  BY TakerIs DEF Inv, PlaceInv
  <2> QED  BY <2>1 DEF TakenAt
<1>2. focus \in Seq(Clients) /\ \A d \in Clients : client[d] \in Holdings(d, queries)
  BY DEF Inv, PlaceInv, ClientInv
<1>3. CASE i > 0
  <2>1. client' = Offered(client, focus, Again(A, focus[t])) /\ t # 0
    BY <1>1, <1>3 DEF Redeliver
  <2> QED  BY <1>2, <2>1, QueriesOffered
<1>4. CASE ~(i > 0)
  <2>1. client' = IF shown THEN Offered(client, focus, Data({}, A)) ELSE client
    BY <1>4 DEF Redeliver
  <2>2. shown => t = 0  BY <1>1, <1>4
  <2> HIDE DEF t
  <2>3. CASE shown
    <3>1. client' = Offered(client, focus, Data({}, A)) /\ t = 0  BY <2>1, <2>2, <2>3
    <3> QED  BY <1>2, <3>1, QueriesOffered DEF t
  <2>4. CASE ~shown
    BY <2>1, <2>4, KeepsIs
  <2> QED  BY <2>3, <2>4
<1> QED  BY <1>3, <1>4

\* A step of the server indoors that shows no client less.
LEMMA ServerCovers ==
  ASSUME OutputAssumption, Inv, Inv', [Next]_vars, GapInv, Indoors, Opens(gates, gates'),
         results' \subseteq results, \A c \in Clients : Keeps(client[c], client'[c])
  PROVE  GapInv'
BY CalmKeeps DEF Keeps

LEMMA QuerySentCovers ==
  ASSUME OutputAssumption, Inv, Inv', [Next]_vars, GapInv, NEW w \in watches, QuerySent(w)
  PROVE  GapInv'
<1>1. /\ UNCHANGED <<attachVars, windowVars, pauseVars>> /\ UNCHANGED <<client, gates>> /\ results' \subseteq results
  BY DEF QuerySent
<1>2. \A c \in Clients : Keeps(client[c], client'[c])  BY <1>1, KeepsIs
<1>3. Indoors /\ Opens(gates, gates')  BY <1>1, OpensFewer, IndoorsElsewhere
<1> QED  BY <1>1, <1>2, <1>3, ServerCovers

LEMMA QueryFailedCovers ==
  ASSUME OutputAssumption, Inv, Inv', [Next]_vars, GapInv, NEW w \in watches, QueryFailed(w)
  PROVE  GapInv'
<1>1. /\ UNCHANGED <<attachVars, windowVars, pauseVars>> /\ gates' = gates /\ results' \subseteq results
      /\ Redeliver(w.token.asks, w.flight, watches \ {w})
  BY DEF QueryFailed
<1>2. w.token.asks \in SUBSET queries  BY DEF Inv, QueryInv, Watchings, Tokens
<1>3. \A c \in Clients : Keeps(client[c], client'[c])  BY <1>1, <1>2, RedeliverCalm
<1>4. Indoors /\ Opens(gates, gates')  BY <1>1, OpensFewer, IndoorsElsewhere
<1> QED  BY <1>1, <1>3, <1>4, ServerCovers

LEMMA EndJobCovers ==
  ASSUME OutputAssumption, Inv, Inv', [Next]_vars, GapInv, NEW t \in Writers, EndJob(t)
  PROVE  GapInv'
<1>1. /\ UNCHANGED <<attachVars, windowVars, pauseVars>> /\ UNCHANGED <<gates, results>>
      /\ client' = client \/ Redeliver(job[t].asks, FALSE, watches)
  BY DEF EndJob
<1>2. job[t].asks \in SUBSET queries  BY JobParts
<1>3. \A c \in Clients : Keeps(client[c], client'[c])  BY <1>1, <1>2, RedeliverCalm, KeepsIs
<1>4. Indoors /\ Opens(gates, gates')  BY <1>1, OpensFewer, IndoorsElsewhere
<1> QED  BY <1>1, <1>3, <1>4, ServerCovers

LEMMA AwaitPrimaryCovers ==
  ASSUME OutputAssumption, Inv, Inv', [Next]_vars, GapInv, NEW t \in Writers, AwaitPrimary(t)
  PROVE  GapInv'
<1>1. /\ UNCHANGED <<attachVars, windowVars, pauseVars>> /\ UNCHANGED <<client, gates>> /\ results' \subseteq results
  BY DEF AwaitPrimary
<1>2. \A c \in Clients : Keeps(client[c], client'[c])  BY <1>1, KeepsIs
<1>3. Indoors /\ Opens(gates, gates')  BY <1>1, OpensFewer, IndoorsElsewhere
<1> QED  BY <1>1, <1>2, <1>3, ServerCovers

\* A fallback that need not ask is let through with what it shows.
LEMMA PassFallbackCovers ==
  ASSUME OutputAssumption, Inv, Inv', [Next]_vars, GapInv, NEW t \in Writers, PassFallback(t)
  PROVE  GapInv'
<1> DEFINE c == Head(job[t].rest)
<1>1. /\ UNCHANGED <<attachVars, windowVars, pauseVars>> /\ UNCHANGED <<client, results>>
      /\ gates' = gates \cup {Decided(t, c, "ask", FALSE)} \cup RestDecided(t, c, TRUE)
  BY DEF PassFallback
<1>2. Opens(gates, gates')
  <2> SUFFICES ASSUME NEW k, k.part = "rest", [gate |-> k, deliver |-> FALSE] \in gates'
               PROVE  [gate |-> k, deliver |-> FALSE] \in gates
    BY DEF Opens
  <2>1. [gate |-> k, deliver |-> FALSE] # Decided(t, c, "ask", FALSE)  BY DEF Decided, GateOf
  <2>2. [gate |-> k, deliver |-> FALSE] \notin RestDecided(t, c, TRUE)  BY DEF RestDecided, Decided
  <2> QED  BY <1>1, <2>1, <2>2
<1>3. \A d \in Clients : Keeps(client[d], client'[d])  BY <1>1, KeepsIs
<1>4. Indoors  BY <1>1, IndoorsElsewhere
<1> QED  BY <1>1, <1>2, <1>3, <1>4, ServerCovers

LEMMA TryFallbackCovers ==
  ASSUME OutputAssumption, Inv, Inv', [Next]_vars, GapInv, NEW t \in Writers, TryFallback(t)
  PROVE  GapInv'
<1> DEFINE c == Head(job[t].rest)
<1>1. /\ UNCHANGED <<attachVars, windowVars, pauseVars>> /\ UNCHANGED <<client, results>>
      /\ gates' = gates \cup {Decided(t, c, "ask", TRUE)}
  BY DEF TryFallback
<1>2. Opens(gates, gates')  BY <1>1 DEF Opens, Decided
<1>3. \A d \in Clients : Keeps(client[d], client'[d])  BY <1>1, KeepsIs
<1>4. Indoors  BY <1>1, IndoorsElsewhere
<1> QED  BY <1>1, <1>2, <1>3, <1>4, ServerCovers

\* One that was to ask is not shown the rest: it has been shown as much, or is
\* closed.
LEMMA AwaitFallbackCovers ==
  ASSUME OutputAssumption, Inv, Inv', [Next]_vars, GapInv, NEW t \in Writers, AwaitFallback(t)
  PROVE  GapInv'
<1> DEFINE c == Head(job[t].rest)
<1>1. /\ UNCHANGED <<attachVars, windowVars, pauseVars>> /\ UNCHANGED client
      /\ gates' = gates \cup RestDecided(t, c, FALSE) /\ c = job[t].wait
      /\ results' \subseteq results
  BY DEF AwaitFallback
<1>2. PICK ok \in BOOLEAN : ResultOf(t, ok) \in results  BY DEF AwaitFallback
<1> DEFINE k == [who |-> t, asks |-> job[t].asks, client |-> c]
           r == [token |-> k, ok |-> ok]
<1>3. r \in results  BY <1>1, <1>2 DEF ResultOf
<1>4. \A g \in gates' : g \in gates \/ g = [gate |-> [token |-> k, part |-> "rest"], deliver |-> FALSE]
  BY <1>1 DEF RestDecided, Decided, GateOf
<1> HIDE DEF c
<1>5. RestsInv'
  <2>1. \A d \in Clients : Calm(client[d], client'[d])  BY <1>1, CalmIsCalm
  <2> QED  BY <1>1, <2>1, RestsKeep DEF GapInv
<1>6. SeenOf(r, client[c])
  <2>1. SeenOf(r, client[r.token.client])  BY <1>3 DEF GapInv, RestsInv, SeenInv
  <2> QED  BY <2>1
<1> HIDE DEF k
<1>7. k.client = c  BY DEF k
<1>8. ASSUME NEW d \in Clients, Counts(d)
      PROVE  Holds(d)
  <2> SUFFICES ASSUME NEW n, NEW w \in Writes(client[d]), DueAt(w, gates), n \in w.shows
               PROVE  Has(client[d], n, gates')
    BY <1>1 DEF Holds, Has
  <2>1. CASE DueAt(w, gates')
    BY <2>1 DEF Has
  <2>2. CASE ~DueAt(w, gates')
    <3>1. w.gate.part = "rest" /\ [gate |-> w.gate, deliver |-> FALSE] \notin gates
          /\ [gate |-> w.gate, deliver |-> FALSE] \in gates'
      BY <2>2 DEF DueAt
    <3>2. w.gate = [token |-> k, part |-> "rest"]  BY <1>4, <3>1
    <3>3. w \in Rests(client[d]) /\ w.gate.token = k  BY <3>1, <3>2 DEF Rests
    <3>4. d = c  BY <1>7, <3>3 DEF GapInv, RestsInv, RestInv
    <3>5. w.shows \subseteq client[d].saw  BY <1>6, <1>8, <3>3, <3>4 DEF SeenOf, Counts
    <3> QED  BY <3>5 DEF Has
  <2> QED  BY <2>1, <2>2
<1>9. Indoors  BY <1>1, IndoorsElsewhere
<1>10. CoverInv' /\ PauseInv'
  <2>1. Registered \subseteq Clients  BY KnownClients DEF Inv
  <2>2. \A d \in Registered : Counts(d)' => Counts(d) /\ Holds(d)
    BY <1>1, <1>8, <1>9, <2>1 DEF Counts, Indoors
  <2> QED  BY <1>9, <2>2, IndoorsIs DEF GapInv
<1>11. MarkInv'  BY <1>1, <1>9, MarkKeeps DEF GapInv, Indoors
<1> QED  BY <1>5, <1>10, <1>11 DEF GapInv

(***************************************************************************)
(* Redraws begin, and clients and windows come and go                      *)
(***************************************************************************)
\* What is shown by a write that waits for no gate will be.
LEMMA ShownThen ==
  ASSUME NEW p, NEW w, Shows(Writes(p), w), w.gate = NoGate, NEW n \in w.shows
  PROVE  \A G : Has(p, n, G)
BY DEF Shows, Has, DueAt

LEMMA FrameIs ==
  ASSUME OutputAssumption, NEW shows
  PROVE  /\ Frame(shows).shows = shows /\ Frame(shows).size = 1 /\ Frame(shows).gate = NoGate
         /\ Frame(shows).token = NoToken /\ Harmless(Frame(shows))
<1>1. /\ Frame(shows).shows = shows /\ Frame(shows).size = 1 /\ Frame(shows).gate = NoGate
      /\ Frame(shows).token = NoToken
  BY DEF Frame, NoWrite
<1>2. NoToken.who \notin Writers  BY DEF OutputAssumption, NoToken, Nobody, Writers, Reader
<1> QED  BY <1>1, <1>2 DEF Harmless

LEMMA ReplayIs ==
  ASSUME OutputAssumption, Inv, NEW c \in Clients
  PROVE  /\ Replay \in Good(c, queries) /\ Replay.size = 1 /\ Replay.gate = NoGate /\ Harmless(Replay)
         /\ ~redraws => Replay.shows = History
<1>1. Replay \in Good(c, queries)  BY FrameGood DEF Inv
<1> QED  BY <1>1, FrameIs DEF Replay

LEMMA MarkedCalm ==
  ASSUME NEW c, NEW Q, NEW r \in Holdings(c, Q), NEW m \in Nat, NEW b \in BOOLEAN
  PROVE  LET p == Marked(r, m, b) IN
         Calm(r, p) /\ ((r.flush => b) => More(r, p)) /\ p.mark = m /\ (p.flush <=> b) /\ p.open = r.open
<1> DEFINE p == Marked(r, m, b)
<1>1. /\ p.held = r.held /\ p.queue = r.queue /\ p.saw = r.saw /\ p.open = r.open
      /\ p.mark = m /\ p.flush = b
  BY DEF Holdings, Marked
<1> HIDE DEF p
<1>2. Writes(p) = Writes(r)  BY <1>1 DEF Writes
<1>3. Calm(r, p) /\ Passes(Writes(r), Writes(p))  BY <1>1, <1>2 DEF Calm, Passes
<1>4. (r.flush => b) => More(r, p)  BY <1>1, <1>3 DEF More
<1> QED  BY <1>1, <1>3, <1>4 DEF p

\* Queries that waited are sent on to what clients have become.
LEMMA FlushedCalm ==
  ASSUME OutputAssumption, Inv, NEW cs, \A d \in Clients : cs[d] \in Holdings(d, queries),
         focus' \in Seq(Clients), NEW b, Flushed(cs, b), NEW c \in Clients
  PROVE  Keeps(cs[c], client'[c])
<1> DEFINE f == focus'
           i == Taker(cs, f, Data({}, pending))
<1>1. client' \in {cs, Offered(cs, f, Data({}, pending)), Offered(cs, f, Again(pending, f[i]))}
      /\ (client' = cs \/ (i = 0 /\ client' = Offered(cs, f, Data({}, pending)))
           \/ (i # 0 /\ client' = Offered(cs, f, Again(pending, f[i]))))
  BY DEF Flushed
<1>2. pending \in SUBSET queries /\ f \in Seq(Clients)  BY DEF Inv, QueryInv
<1>3. /\ i = 0 => Keeps(cs[c], Offered(cs, f, Data({}, pending))[c])
      /\ i # 0 => Keeps(cs[c], Offered(cs, f, Again(pending, f[i]))[c])
  BY <1>2, QueriesOffered
<1> HIDE DEF i, f
<1> QED  BY <1>1, <1>3, KeepsIs

LEMMA SequenceIs ==
  ASSUME PlaceInv, NEW c \in Registered
  PROVE  Sequence(c) \in 1 .. Len(arrived) /\ Len(arrived) \in Nat
<1>1. \E i \in 1 .. Len(arrived) : arrived[i] = c
  BY DEF PlaceInv, ToSet
<1> QED  BY <1>1 DEF Sequence, PlaceInv

\* What the window says next is on its way to all that are there.
LEMMA EmitCovers ==
  ASSUME OutputAssumption, Inv, Inv', [Next]_vars, GapInv, Emit
  PROVE  GapInv'
<1> DEFINE n == emitted + 1
<1>1. /\ reading = NoRead /\ emitted' = n
      /\ UNCHANGED <<client, focus, arrived, redraws, shown, gates, results, paused, pauses, timers>>
      /\ (Watched /\ ~paused =>
            reading'.chunk = n /\ reading'.latest = Len(arrived))
      /\ (~(Watched /\ ~paused) => reading' = reading)
  BY DEF Emit, attachVars
<1>2. emitted \in Nat  BY DEF Inv, PlaceInv
<1>3. RestsInv'
  <2>1. \A d \in Clients : Calm(client[d], client'[d])  BY <1>1, CalmIsCalm
  <2> QED  BY <1>1, <2>1, RestsKeep DEF GapInv
<1>4. MarkInv'
  <2>1. \A c \in Clients : client'[c].mark = client[c].mark /\ client[c].mark <= emitted /\ client[c].mark \in Nat
    BY <1>1, HoldingParts DEF Inv, ClientInv
  <2>2. \A c \in Clients : client'[c].mark < n  BY <1>2, <2>1
  <2> HIDE DEF n
  <2> QED  BY <1>1, <2>2 DEF MarkInv
<1>5. CoverInv'
  <2> SUFFICES ASSUME shown', ~paused', NEW c \in Registered', Counts(c)', NEW m \in Misses(c)'
               PROVE  FALSE
    BY DEF CoverInv
  <2>1. Registered' = Registered /\ Counts(c)  BY <1>1 DEF Registered, Counts
  <2>2. Watched /\ ~paused
    <3>1. focus # <<>>
      <4>1. ToSet(<<>>) = {}  BY DEF ToSet
      <4> QED  BY <2>1, <4>1 DEF Registered
    <3> QED  BY <1>1, <3>1 DEF Watched
  <2>3. reading'.chunk = n /\ reading'.latest = Len(arrived)  BY <1>1, <2>2
  <2>4. InHand(c)' = {n}
    <3>1. reading' # NoRead  BY <1>2, <2>3 DEF NoRead
    <3>2. Sequence(c)' = Sequence(c)  BY <1>1 DEF Sequence
    <3>3. Sequence(c) <= Len(arrived)
      <4>1. Sequence(c) \in 1 .. Len(arrived) /\ Len(arrived) \in Nat  BY <2>1, SequenceIs DEF Inv
      <4> QED  BY <4>1
    <3> QED  BY <2>3, <3>1, <3>2, <3>3 DEF InHand
  <2>5. m \in 1 .. n /\ m # n /\ ~Has(client[c], m, gates)
    BY <1>1, <2>4 DEF Misses, History
  <2>6. m \in History  BY <1>2, <2>5 DEF History
  <2>7. InHand(c) = {}  BY <1>1 DEF InHand
  <2>8. m \in Misses(c)  BY <2>5, <2>6, <2>7 DEF Misses
  <2> QED  BY <1>1, <2>1, <2>2, <2>8 DEF GapInv, CoverInv, Watched
<1>6. PauseInv'  BY <1>1 DEF GapInv, PauseInv
<1> QED  BY <1>3, <1>4, <1>5, <1>6 DEF GapInv

\* A step that leaves the clients alone.
LEMMA AloneCovers ==
  ASSUME OutputAssumption, Inv, Inv', [Next]_vars, GapInv, UNCHANGED <<client, gates, results, emitted, reading, redraws, arrived>>,
         shown' /\ ~paused' => shown /\ ~paused, Registered' \subseteq Registered, PauseInv'
  PROVE  GapInv'
<1>1. RestsInv'
  <2>1. \A d \in Clients : Calm(client[d], client'[d])  BY CalmIsCalm
  <2> QED  BY <2>1, RestsKeep DEF GapInv
<1>2. MarkInv'  BY DEF GapInv, MarkInv
<1>3. CoverInv'
  <2>1. \A c : Counts(c)' = Counts(c) /\ Holds(c) /\ InHand(c)' = InHand(c)
    BY DEF Counts, Holds, InHand, Sequence
  <2> QED  BY <2>1, CoverKeeps DEF GapInv
<1> QED  BY <1>1, <1>2, <1>3 DEF GapInv

LEMMA PausedOn ==
  ASSUME Inv, NEW p, PausedIf(p), PauseInv
  PROVE  PauseInv' /\ (paused => paused') /\ (p /\ redraws /\ focus' # <<>> => paused')
BY DEF PausedIf, Paused, PauseInv, pauseVars

LEMMA PauseCovers ==
  ASSUME OutputAssumption, Inv, Inv', [Next]_vars, GapInv, Pause
  PROVE  GapInv'
<1>1. UNCHANGED <<client, gates, results, windowVars, attachVars>> /\ paused' /\ PauseInv'
  BY DEF Pause, Paused, PauseInv
<1>2. UNCHANGED <<emitted, reading, redraws, arrived, focus>>  BY <1>1 DEF windowVars, attachVars
<1>3. Registered' \subseteq Registered  BY <1>2 DEF Registered
<1> QED  BY <1>1, <1>2, <1>3, AloneCovers

LEMMA HideCovers ==
  ASSUME OutputAssumption, Inv, Inv', [Next]_vars, GapInv, Hide
  PROVE  GapInv'
<1>1. /\ UNCHANGED <<client, gates, results, emitted, reading, redraws, arrived, focus, pauseVars>>
      /\ ~shown'
  BY DEF Hide
<1>2. Registered' \subseteq Registered  BY <1>1 DEF Registered
<1>3. PauseInv'  BY <1>1 DEF GapInv, PauseInv, pauseVars
<1> QED  BY <1>1, <1>2, <1>3, AloneCovers

LEMMA FocusCovers ==
  ASSUME OutputAssumption, Inv, Inv', [Next]_vars, GapInv, NEW c \in Clients, Focus(c)
  PROVE  GapInv'
<1>1. /\ UNCHANGED <<client, gates, results, windowVars, arrived, pauseVars>>
      /\ c \in Registered /\ focus' = Append(Kept(focus, Clients \ {c}), c)
  BY DEF Focus
<1>2. UNCHANGED <<emitted, reading, redraws, shown, paused>>  BY <1>1 DEF windowVars, pauseVars
<1>3. Registered' \subseteq Registered
  <2> DEFINE k == Kept(focus, Clients \ {c})
  <2>1. Arranges(k, focus, Clients \ {c}, Clients)  BY KeptArranges DEF Inv, PlaceInv
  <2>2. k \in Seq(Clients) /\ ToSet(k) \subseteq Registered  BY <2>1 DEF Arranges, Registered
  <2> HIDE DEF k
  <2>3. ToSet(Append(k, c)) = ToSet(k) \cup {c}  BY <2>2, AppendOnce
  <2> QED  BY <1>1, <2>2, <2>3 DEF k, Registered
<1>4. PauseInv'  BY <1>1 DEF GapInv, PauseInv, pauseVars
<1> QED  BY <1>1, <1>2, <1>3, <1>4, AloneCovers

LEMMA LeaveCovers ==
  ASSUME OutputAssumption, Inv, Inv', [Next]_vars, GapInv, NEW c \in Clients, Leave(c)
  PROVE  GapInv'
<1>1. /\ UNCHANGED <<gates, results, windowVars, arrived, pauseVars>>
      /\ focus' = Kept(focus, Clients \ {c}) /\ client' = [client EXCEPT ![c].open = FALSE]
  BY DEF Leave
<1>2. UNCHANGED <<emitted, reading, redraws, shown, paused, pauses, timers>>  BY <1>1 DEF windowVars, pauseVars
<1>3. Registered' \subseteq Registered /\ Registered \subseteq Clients
  <2>1. Arranges(focus', focus, Clients \ {c}, Clients)  BY <1>1, KeptArranges DEF Inv, PlaceInv
  <2> QED  BY <2>1, KnownClients DEF Arranges, Registered, Inv
<1>4. \A d \in Clients : /\ Calm(client[d], client'[d]) /\ More(client[d], client'[d])
                         /\ client'[d].mark = client[d].mark
  BY <1>1, ClosedKeeps
<1>5. RestsInv'  BY <1>1, <1>4, RestsKeep DEF GapInv
<1>6. MarkInv'  BY <1>2, <1>4, MarkKeeps DEF GapInv
<1>7. CoverInv'
  <2>1. \A d \in Registered' : Counts(d)' => Counts(d) /\ Holds(d)
    BY <1>1, <1>2, <1>3, <1>4, OpensFewer, MoreHolds
  <2>2. \A d : InHand(d)' = InHand(d)  BY <1>1, <1>2 DEF InHand, Sequence
  <2> QED  BY <1>2, <1>3, <2>1, <2>2, CoverKeeps DEF GapInv
<1>8. PauseInv'  BY <1>2 DEF GapInv, PauseInv
<1> QED  BY <1>5, <1>6, <1>7, <1>8 DEF GapInv

LEMMA MarkedHas ==
  ASSUME NEW c, NEW Q, NEW r \in Holdings(c, Q), NEW m, NEW b, NEW n, NEW G, Has(r, n, G)
  PROVE  Has(Marked(r, m, b), n, G)
<1> DEFINE p == Marked(r, m, b)
<1>1. p.held = r.held /\ p.queue = r.queue /\ p.saw = r.saw
  BY DEF Holdings, Marked
<1> HIDE DEF p
<1>2. Has(p, n, G)  BY <1>1 DEF Has, Writes
<1> QED  BY <1>2 DEF p

\* A replay is put into the queue of client c, which is r.
LEMMA ReplayPut ==
  ASSUME OutputAssumption, Inv, NEW c \in Clients, NEW r \in Holdings(c, queries), NEW w \in Good(c, queries),
         w.size = 1, Harmless(w)
  PROVE  LET p == Put(r, w) IN
         /\ p \in Holdings(c, queries) /\ Keeps(r, p) /\ p.flush = r.flush
         /\ p.open => \A n \in w.shows : \A G : Has(p, n, G)
<1> DEFINE p == Put(r, w)
<1>1. p \in Holdings(c, queries) /\ Gains(r, p, w) /\ (~p.open \/ Shows(Writes(p), w))  BY PutShows
<1>2. Grown(r, p)  BY PutGrows
<1> HIDE DEF p
<1>3. Keeps(r, p) /\ p.flush = r.flush  BY <1>1, <1>2, GainsCalm DEF Keeps, Grown
<1>4. p.open => \A n \in w.shows : \A G : Has(p, n, G)  BY <1>1, ShownThen DEF Harmless
<1> QED  BY <1>1, <1>3, <1>4 DEF p

\* Who attaches is sent all of the output, or is owed a redraw.
LEMMA AttachCovers ==
  ASSUME OutputAssumption, Inv, Inv', [Next]_vars, GapInv, NEW c \in Clients, Attach(c)
  PROVE  GapInv'
<1> DEFINE k == [who |-> Attacher, asks |-> {}, client |-> c]
           w == [Replay EXCEPT !.token = k]
           u == [client[c] EXCEPT !.mark = emitted, !.flush = TRUE]
           p == IF shown THEN Put(u, w) ELSE client[c]
<1>1. client' = [client EXCEPT ![c] = p]
      /\ UNCHANGED <<redraws, shown, emitted, reading, gates, results, paused, pauses, timers>>
      /\ focus' = Append(focus, c) /\ (shown => Safe)
  <2>1. client' = [client EXCEPT ![c] =
          IF shown THEN Put([@ EXCEPT !.mark = emitted, !.flush = TRUE], w) ELSE @]
    BY DEF Attach
  <2>2. client' = [client EXCEPT ![c] = p]  BY <2>1 DEF Inv, ClientInv
  <2> HIDE DEF p
  <2> QED  BY <2>2 DEF Attach, windowVars, pauseVars
<1>2. client[c] \in Holdings(c, queries) /\ emitted \in Nat  BY DEF Inv, ClientInv, PlaceInv
<1>3. w \in Good(c, queries) /\ w.size = 1 /\ Harmless(w) /\ (~redraws => w.shows = History)
  <2>1. /\ Replay \in Good(c, queries) /\ Replay.size = 1 /\ Replay.gate = NoGate
        /\ Replay.asks = {} /\ (~redraws => Replay.shows = History)
    BY ReplayIs, FrameGood DEF Inv
  <2>2. Attacher \in Nat /\ Attacher \notin Writers  BY DEF OutputAssumption, Attacher, Writers, Reader
  <2>3. k \in Tokens(queries) /\ k.client = c /\ k.asks = {} /\ k.who = Attacher  BY <2>2 DEF Tokens
  <2> HIDE DEF k
  <2>4. w.token = k /\ w.asks = {} /\ w.size = 1 /\ w.gate = NoGate /\ w.shows = Replay.shows
    BY <2>1 DEF Good
  <2>5. w \in Good(c, queries)  BY <2>1, <2>3, <2>4 DEF Good
  <2> HIDE DEF w
  <2> QED  BY <2>1, <2>2, <2>3, <2>4, <2>5 DEF Harmless
<1>4. u \in Holdings(c, queries) /\ Calm(client[c], u) /\ u.flush
  <2>1. u = Marked(client[c], emitted, TRUE)  BY DEF Marked
  <2>2. MarkWell(c, queries, client[c], emitted, TRUE)  BY <1>2, MarkHolds
  <2> HIDE DEF u
  <2> QED  BY <1>2, <2>1, <2>2, MarkedCalm DEF MarkWell
<1> HIDE DEF u, w
<1>5. /\ Keeps(u, Put(u, w)) /\ Put(u, w).flush = u.flush
      /\ (Put(u, w).open => \A n \in w.shows : \A G : Has(Put(u, w), n, G))
  BY <1>3, <1>4, ReplayPut
<1>6. Calm(client[c], p)  BY <1>4, <1>5, CalmIsCalm DEF Keeps
<1>7. client'[c] = p /\ \A d \in Clients \ {c} : client'[d] = client[d]
  BY <1>1 DEF Inv, ClientInv
<1>8. shown => p = Put(u, w)  OBVIOUS
<1>9. ~shown => p = client[c]  OBVIOUS
<1> HIDE DEF p
<1>10. RestsInv'
  <2>1. \A d \in Clients : Calm(client[d], client'[d])  BY <1>6, <1>7, CalmIsCalm
  <2> QED  BY <1>1, <2>1, RestsKeep DEF GapInv
<1>11. MarkInv'
  <2>1. CASE shown
    BY <1>1, <2>1 DEF Safe, MarkInv
  <2>2. CASE ~shown
    <3>1. \A d \in Clients : client'[d].mark = client[d].mark  BY <1>7, <1>9, <2>2
    <3> QED  BY <1>1, <3>1, MarkKeeps DEF GapInv
  <2> QED  BY <2>1, <2>2
<1>12. CoverInv'
  <2> SUFFICES ASSUME shown', ~paused', NEW d \in Registered', Counts(d)', NEW m \in Misses(d)'
               PROVE  FALSE
    BY DEF CoverInv
  <2>1. shown /\ ~paused /\ reading = NoRead  BY <1>1 DEF Safe
  <2>2. m \in History /\ ~Has(client'[d], m, gates)  BY <1>1 DEF Misses, History
  <2>3. CASE d = c
    <3>1. client'[c] = Put(u, w) /\ client'[c].open /\ client'[c].flush
      BY <1>4, <1>5, <1>7, <1>8, <2>1, <2>3 DEF Counts
    <3>2. ~redraws  BY <1>1, <2>3, <3>1 DEF Counts
    <3>3. Has(client'[c], m, gates)  BY <1>3, <1>5, <2>2, <3>1, <3>2
    <3> QED  BY <2>2, <2>3, <3>3
  <2>4. CASE d # c
    <3>1. d \in Registered /\ d \in Clients
      <4>1. ToSet(focus') = ToSet(focus) \cup {c}  BY <1>1, AppendOnce DEF Inv, PlaceInv
      <4> QED  BY <2>4, <4>1, KnownClients DEF Registered, Inv
    <3>2. client'[d] = client[d]  BY <1>7, <2>4, <3>1
    <3>3. m \in Misses(d) /\ Counts(d)  BY <1>1, <2>1, <2>2, <3>2 DEF Misses, InHand, Counts
    <3> QED  BY <2>1, <3>1, <3>3 DEF GapInv, CoverInv
  <2> QED  BY <2>3, <2>4
<1>13. PauseInv'  BY <1>1 DEF GapInv, PauseInv
<1> QED  BY <1>10, <1>11, <1>12, <1>13 DEF GapInv

\* A client that was replayed nothing, because the window repaints itself, is
\* not owed a redraw any more when that has begun.
LEMMA FlushAttachedCovers ==
  ASSUME OutputAssumption, Inv, Inv', [Next]_vars, GapInv, NEW c \in Clients, FlushAttached(c)
  PROVE  GapInv'
<1> DEFINE p == [client[c] EXCEPT !.flush = FALSE]
           cs == [client EXCEPT ![c] = p]
           k == [who |-> Attacher, asks |-> {}, client |-> c]
<1>1. /\ UNCHANGED <<focus, arrived, redraws, shown, emitted, reading, gates>>
      /\ Flushed([client EXCEPT ![c].flush = FALSE], c)
  BY DEF FlushAttached, attachVars, windowVars
<1>2. PICK ok \in BOOLEAN :
        /\ [token |-> k, ok |-> ok] \in results /\ results' \subseteq results
        /\ PausedIf(ok /\ c \in Registered)
  BY DEF FlushAttached
<1>3. cs = [client EXCEPT ![c].flush = FALSE]  BY DEF Inv, ClientInv
<1>4. Flushed(cs, c)  BY <1>1, <1>3
<1>5. client[c] \in Holdings(c, queries) /\ client[c].mark \in Nat  BY HoldingParts DEF Inv, ClientInv
<1>6. p = Marked(client[c], client[c].mark, FALSE)  BY <1>5 DEF Marked, Holdings
<1>7. p \in Holdings(c, queries) /\ Calm(client[c], p) /\ p.mark = client[c].mark /\ p.open = client[c].open
  <2>1. MarkWell(c, queries, client[c], client[c].mark, FALSE)  BY <1>5, MarkHolds
  <2>2. \A b \in BOOLEAN : /\ Calm(client[c], Marked(client[c], client[c].mark, b))
                           /\ Marked(client[c], client[c].mark, b).open = client[c].open
    BY <1>5, MarkedCalm
  <2> HIDE DEF p
  <2> QED  BY <1>6, <2>1, <2>2 DEF MarkWell
<1>8. \A n : Has(client[c], n, gates) => Has(p, n, gates)
  <2> HIDE DEF p
  <2> QED  BY <1>5, <1>6, MarkedHas
<1> HIDE DEF p
<1>9. \A d \in Clients : cs[d] = IF d = c THEN p ELSE client[d]
  BY DEF Inv, ClientInv
<1> HIDE DEF cs
<1>10. \A d \in Clients : cs[d] \in Holdings(d, queries)  BY <1>7, <1>9 DEF Inv, ClientInv
<1>11. \A d \in Clients : Keeps(cs[d], client'[d])
  <2>1. focus' \in Seq(Clients)  BY <1>1 DEF Inv, PlaceInv
  <2> QED  BY <1>4, <1>10, <2>1, FlushedCalm
<1>12. \A d \in Clients : Calm(client[d], client'[d]) /\ client'[d].mark = client[d].mark
  <2> TAKE d \in Clients
  <2>1. Calm(client[d], cs[d]) /\ cs[d].mark = client[d].mark  BY <1>7, <1>9, CalmIsCalm
  <2> QED  BY <1>11, <2>1, CalmIsCalm DEF Keeps
<1>13. RestsInv'
  BY <1>2, <1>12, RestsKeep DEF GapInv
<1>14. MarkInv'  BY <1>1, <1>12, MarkKeeps DEF GapInv
<1>15. PauseInv' /\ (paused => paused') /\ (ok /\ c \in Registered /\ redraws /\ focus' # <<>> => paused')
  BY <1>2, PausedOn DEF GapInv
<1>16. CoverInv'
  <2> SUFFICES ASSUME shown', ~paused'
               PROVE  CoverInv'
    BY DEF CoverInv
  <2>1. shown /\ ~paused  BY <1>1, <1>15
  <2>2. Registered' = Registered /\ Registered \subseteq Clients  BY <1>1, KnownClients DEF Registered, Inv
  <2>3. ASSUME NEW d \in Registered, Counts(d)'
        PROVE  Counts(d) /\ Holds(d)
    <3>1. CASE d # c
      <4>1. cs[d] = client[d] /\ d \in Clients  BY <1>9, <2>2, <3>1
      <4>2. More(client[d], client'[d])  BY <1>11, <4>1 DEF Keeps
      <4> QED  BY <1>1, <2>3, <4>2, OpensFewer, MoreHolds
    <3>2. CASE d = c
      <4>1. client'[c].open /\ client[c].open
        BY <1>12, <2>3, <3>2 DEF Counts, Calm
      <4>2. ok
        <5> SUFFICES ASSUME ~ok PROVE FALSE
          OBVIOUS
        <5> DEFINE r == [token |-> k, ok |-> ok]
        <5>1. SeenOf(r, client[r.token.client])  BY <1>2 DEF GapInv, RestsInv, SeenInv
        <5>2. r.token.client = c /\ r.ok = ok  OBVIOUS
        <5> HIDE DEF r
        <5> QED  BY <4>1, <5>1, <5>2 DEF SeenOf
      <4>3. ~redraws
        <5>1. focus # <<>>  BY DEF Registered, ToSet
        <5> QED  BY <1>1, <1>15, <3>2, <4>2, <5>1
      <4>4. \A n : Has(client[c], n, gates) => Has(client'[c], n, gates')
        <5>1. More(p, client'[c])  BY <1>9, <1>11 DEF Keeps
        <5>2. Opens(gates, gates')  BY <1>1, OpensFewer
        <5> QED  BY <1>8, <5>1, <5>2, HasStays
      <4> QED  BY <3>2, <4>1, <4>3, <4>4 DEF Counts, Holds
    <3> QED  BY <3>1, <3>2
  <2>4. \A d : InHand(d)' = InHand(d)  BY <1>1 DEF InHand, Sequence
  <2> QED  BY <1>1, <2>1, <2>2, <2>3, <2>4, CoverKeeps DEF GapInv
<1> QED  BY <1>13, <1>14, <1>15, <1>16 DEF GapInv

\* Who is given the focus is sent a replay; a redraw shows all the others more.
LEMMA ReplayFocusedCovers ==
  ASSUME OutputAssumption, Inv, Inv', [Next]_vars, GapInv, ReplayFocused
  PROVE  GapInv'
<1> DEFINE c == awaited
           u == [client[c] EXCEPT !.mark = emitted]
           p == Put(u, Replay)
           cs == [client EXCEPT ![c] = p]
<1>1. /\ awaited # NoClient /\ shown /\ Safe
      /\ UNCHANGED <<focus, arrived, windowVars, gates, results>>
      /\ (Fits(client[c], Replay) => PausedIf(TRUE) /\ Flushed(cs, c))
      /\ (~Fits(client[c], Replay) => client' = [cs EXCEPT ![c].mark = 0] /\ UNCHANGED pauseVars)
  <2>1. cs = [client EXCEPT ![c] = Put([@ EXCEPT !.mark = emitted], Replay)]
    BY DEF Inv, ClientInv
  <2> QED  BY <2>1 DEF ReplayFocused
<1>2. UNCHANGED <<focus, arrived, redraws, shown, emitted, reading>>  BY <1>1 DEF windowVars
<1>3. c \in Clients  BY <1>1, KnownClients DEF Inv, PlaceInv
<1>4. client[c] \in Holdings(c, queries) /\ emitted \in Nat  BY <1>3 DEF Inv, ClientInv, PlaceInv
<1>5. u \in Holdings(c, queries) /\ Calm(client[c], u) /\ More(client[c], u)
  <2>1. u = Marked(client[c], emitted, client[c].flush)  BY <1>4, RemarkHolds
  <2>2. MarkWell(c, queries, client[c], emitted, client[c].flush)  BY <1>4, RemarkHolds
  <2>3. \A b \in BOOLEAN : LET x == Marked(client[c], emitted, b) IN
          Calm(client[c], x) /\ ((client[c].flush => b) => More(client[c], x))
    BY <1>4, MarkedCalm
  <2>4. client[c].flush \in BOOLEAN  BY <1>4, HoldingParts
  <2> HIDE DEF u
  <2> QED  BY <2>1, <2>2, <2>3, <2>4 DEF MarkWell
<1> HIDE DEF u
<1>6. p \in Holdings(c, queries) /\ Keeps(u, p)
  <2>1. Replay \in Good(c, queries) /\ Replay.size = 1 /\ Harmless(Replay)  BY <1>3, ReplayIs
  <2> QED  BY <1>3, <1>5, <2>1, ReplayPut
<1>7. Calm(client[c], p) /\ More(client[c], p)  BY <1>5, <1>6, CalmIsCalm, MoreIsMore DEF Keeps
<1> HIDE DEF p
<1>8. cs = [d \in Clients |-> cs[d]] /\ \A d \in Clients : cs[d] = IF d = c THEN p ELSE client[d]
  BY DEF Inv, ClientInv
<1>9. \A d \in Clients : Calm(client[d], client'[d]) /\ More(client[d], client'[d])
  <2>1. \A d \in Clients : cs[d] \in Holdings(d, queries)  BY <1>6, <1>8 DEF Inv, ClientInv
  <2>2. \A d \in Clients : Calm(client[d], cs[d]) /\ More(client[d], cs[d])
    BY <1>7, <1>8, CalmIsCalm, MoreIsMore
  <2>3. CASE Fits(client[c], Replay)
    <3>1. focus' \in Seq(Clients) /\ Flushed(cs, c)  BY <1>1, <1>2, <2>3 DEF Inv, PlaceInv
    <3> HIDE DEF cs
    <3>2. \A d \in Clients : Keeps(cs[d], client'[d])  BY <2>1, <3>1, FlushedCalm
    <3> QED  BY <2>2, <3>2, CalmIsCalm, MoreIsMore DEF Keeps
  <2>4. CASE ~Fits(client[c], Replay)
    <3> DEFINE q == [p EXCEPT !.mark = 0]
    <3>1. client' = [client EXCEPT ![c] = q]  BY <1>1, <1>8, <2>4 DEF Inv, ClientInv
    <3>2. Calm(p, q) /\ More(p, q)
      <4>1. q = Marked(p, 0, p.flush) /\ p.flush \in BOOLEAN
        <5>1. q = Marked(p, 0, p.flush)  BY <1>6 DEF Holdings, Marked
        <5>2. p.flush \in BOOLEAN  BY <1>6, HoldingParts
        <5> QED  BY <5>1, <5>2
      <4>2. \A b \in BOOLEAN : LET x == Marked(p, 0, b) IN Calm(p, x) /\ ((p.flush => b) => More(p, x))
        BY <1>6, MarkedCalm
      <4> HIDE DEF q
      <4> QED  BY <4>1, <4>2
    <3> HIDE DEF q
    <3>3. Calm(client[c], q) /\ More(client[c], q)  BY <1>7, <3>2, CalmIsCalm, MoreIsMore
    <3>4. client'[c] = q /\ \A d \in Clients \ {c} : client'[d] = client[d]
      BY <1>3, <3>1 DEF Inv, ClientInv
    <3> QED  BY <3>3, <3>4, CalmIsCalm, MoreIsMore
  <2> QED  BY <2>3, <2>4
<1> HIDE DEF c, cs
<1>10. RestsInv'  BY <1>1, <1>9, RestsKeep DEF GapInv
<1>11. MarkInv'  BY <1>1, <1>2 DEF Safe, MarkInv
<1>12. PauseInv'
  <2>1. CASE Fits(client[c], Replay)
    BY <1>1, <2>1, PausedOn DEF GapInv
  <2>2. CASE ~Fits(client[c], Replay)
    BY <1>1, <2>2 DEF GapInv, PauseInv, pauseVars
  <2> QED  BY <2>1, <2>2
<1>13. CoverInv'
  <2>1. Registered' = Registered /\ Registered \subseteq Clients  BY <1>2, KnownClients DEF Registered, Inv
  <2>2. \A d \in Registered : (Counts(d)' => Counts(d)) /\ Holds(d)
    BY <1>1, <1>2, <1>9, <2>1, OpensFewer, MoreHolds
  <2>3. \A d : InHand(d)' = InHand(d)  BY <1>2 DEF InHand, Sequence
  <2> QED  BY <1>1, <1>2, <2>1, <2>2, <2>3, CoverKeeps DEF Safe, GapInv
<1> QED  BY <1>10, <1>11, <1>12, <1>13 DEF GapInv

\* A window that is shown again is replayed to everybody, or repaints itself.
LEMMA ShowCovers ==
  ASSUME OutputAssumption, Inv, Inv', [Next]_vars, GapInv, Show
  PROVE  GapInv'
<1> DEFINE K == IF redraws THEN {} ELSE Registered
           cs == PutTo(K, Replay)
<1>1. /\ PausedIf(TRUE) /\ Flushed(cs, Primary)
      /\ UNCHANGED <<focus, arrived, redraws, emitted, reading, gates, results>>
  BY DEF Show
<1>2. ASSUME NEW d \in Clients
      PROVE  /\ cs[d] \in Holdings(d, queries) /\ Keeps(client[d], cs[d])
             /\ d \in K /\ cs[d].open => \A n \in Replay.shows : \A G : Has(cs[d], n, G)
  <2>1. client[d] \in Holdings(d, queries)  BY DEF Inv, ClientInv
  <2>2. Replay \in Good(d, queries) /\ Replay.size = 1 /\ Harmless(Replay)  BY ReplayIs
  <2>3. cs[d] = IF d \in K THEN Put(client[d], Replay) ELSE client[d]  BY DEF PutTo
  <2> HIDE DEF cs, K
  <2>4. CASE d \in K
    BY <2>1, <2>2, <2>3, <2>4, ReplayPut
  <2>5. CASE d \notin K
    BY <2>1, <2>3, <2>5, KeepsIs
  <2> QED  BY <2>4, <2>5
<1> HIDE DEF cs
<1>3. \A d \in Clients : Keeps(cs[d], client'[d])
  <2>1. focus' \in Seq(Clients)  BY <1>1 DEF Inv, PlaceInv
  <2> QED  BY <1>1, <1>2, <2>1, FlushedCalm
<1>4. \A d \in Clients : Keeps(client[d], client'[d])  BY <1>2, <1>3, KeepsIs
<1>5. RestsInv'  BY <1>1, <1>4, RestsKeep DEF GapInv, Keeps
<1>6. MarkInv'  BY <1>1, <1>4, MarkKeeps DEF GapInv, Keeps
<1>7. PauseInv' /\ (redraws /\ focus' # <<>> => paused')  BY <1>1, PausedOn DEF GapInv
<1>8. CoverInv'
  <2> SUFFICES ASSUME shown', ~paused', NEW d \in Registered', Counts(d)', NEW m \in Misses(d)'
               PROVE  FALSE
    BY DEF CoverInv
  <2>1. d \in Registered /\ d \in Clients /\ focus # <<>>
    BY <1>1, KnownClients DEF Registered, ToSet, Inv
  <2>2. ~redraws  BY <1>1, <1>7, <2>1
  <2>3. m \in History /\ ~Has(client'[d], m, gates')  BY <1>1 DEF Misses, History
  <2>4. client'[d].open /\ cs[d].open  BY <1>3, <2>1 DEF Counts, Keeps, Calm
  <2>5. Replay.shows = History  BY <2>1, <2>2, ReplayIs
  <2>6. Has(cs[d], m, gates)  BY <1>2, <2>1, <2>2, <2>3, <2>4, <2>5
  <2>7. More(cs[d], client'[d]) /\ Opens(gates, gates')  BY <1>1, <1>3, <2>1, OpensFewer DEF Keeps
  <2>8. Has(client'[d], m, gates')  BY <2>6, <2>7, HasStays
  <2> QED  BY <2>3, <2>8
<1> QED  BY <1>5, <1>6, <1>7, <1>8 DEF GapInv

(***************************************************************************)
(* Queries are sent for the first time, with what is shown                 *)
(***************************************************************************)
Shown(t, c, shows, A) ==
  LET k == [who |-> t, asks |-> A, client |-> c]
      d == RestGated(t, c, shows, A) IN
  /\ Asked(t, c, shows, A).shows = shows /\ AskGated(t, c, shows, A).shows = shows
  /\ d.shows = shows /\ d.gate = [token |-> k, part |-> "rest"]
  /\ (shows # {} => d.size # 0) /\ (A # {} => Asked(t, c, shows, A).size # 0 /\ AskGated(t, c, shows, A).size # 0)

LEMMA ShownIs ==
  ASSUME OutputAssumption, NEW c \in Clients, NEW t \in Writers, NEW shows \in SUBSET Nat,
         NEW A \in SUBSET queries
  PROVE  Shown(t, c, shows, A)
<1> DEFINE v == Data(shows, A)
           u == Data(shows, {})
           k == [who |-> t, asks |-> A, client |-> c]
           W == [shows : SUBSET Nat, asks : SUBSET queries, size : Nat, token : Tokens(queries),
                 gate : Gates(queries)]
<1>1. \A x \in SUBSET queries : DataWell(c, queries, shows, x)  BY DataGood
<1>2. v \in W /\ v.shows = shows /\ (A # {} => v.size # 0)  BY <1>1 DEF DataWell, Good
<1>3. u \in W /\ u.shows = shows
  <2>1. DataWell(c, queries, shows, {})  BY <1>1
  <2> QED  BY <2>1 DEF DataWell, Good
<1>4. shows # {} => u.size # 0
  <2> SUFFICES ASSUME shows # {} PROVE u.size # 0
    OBVIOUS
  <2> DEFINE S == {s \in {"shows"} : shows # {}}
             N == {a \in {"asks"} : {} # {}}
  <2>1. u.size = Cardinality(S) + Cardinality(N)  BY DEF Data, NoWrite
  <2>2. S = {"shows"} /\ N = {}  OBVIOUS
  <2> HIDE DEF S, N
  <2>3. Cardinality(S) = 1 /\ Cardinality(N) = 0  BY <2>2, FS_Singleton, FS_EmptySet
  <2> HIDE DEF u
  <2> QED  BY <2>1, <2>3
<1> HIDE DEF v, u
<1> DEFINE a == [v EXCEPT !.token = k]
<1>5. a.shows = shows /\ (A # {} => a.size # 0)  BY <1>2
<1>6. Asked(t, c, shows, A) = a  BY DEF Asked, v
<1>7. AskGated(t, c, shows, A) = [a EXCEPT !.gate = [token |-> k, part |-> "ask"]]  BY <1>6 DEF AskGated, GateOf
<1>8. RestGated(t, c, shows, A) = [u EXCEPT !.gate = [token |-> k, part |-> "rest"]]  BY DEF RestGated, GateOf, u
<1>9. /\ AskGated(t, c, shows, A).shows = shows /\ (A # {} => AskGated(t, c, shows, A).size # 0)
  BY <1>2, <1>7
<1>10. /\ RestGated(t, c, shows, A).shows = shows /\ (shows # {} => RestGated(t, c, shows, A).size # 0)
       /\ RestGated(t, c, shows, A).gate = [token |-> k, part |-> "rest"]
  BY <1>3, <1>4, <1>8
<1> QED  BY <1>5, <1>6, <1>9, <1>10 DEF Shown

\* Client r has become p: a write that is waited for as k was put into its
\* queue, and one behind a gate of its own; both show S.
Asking(u, k, S)  == u.token = k /\ u.gate.part # "rest" /\ u.shows = S
StandingBy(u, k, S) == u.token = NoToken /\ u.gate = [token |-> k, part |-> "rest"] /\ u.shows = S
Given(r, p, k, S) ==
  /\ More(r, p) /\ p.saw = r.saw /\ p.mark = r.mark
  /\ \A u \in Writes(p) : u \in Writes(r) \/ Harmless(u) \/ Asking(u, k, S) \/ StandingBy(u, k, S)

\* One write more.
LEMMA GivenOn ==
  ASSUME OutputAssumption, NEW c \in Clients, NEW Q, NEW r, NEW p \in Holdings(c, Q), NEW k, NEW S,
         NEW w \in Good(c, Q), Given(r, p, k, S), Asking(w, k, S) \/ StandingBy(w, k, S)
  PROVE  LET q == Put(p, w) IN
         /\ q \in Holdings(c, Q) /\ Given(r, q, k, S)
         /\ w.size # 0 => ~q.open \/ Shows(Writes(q), w)
<1> DEFINE q == Put(p, w)
<1>1. q \in Holdings(c, Q) /\ Gains(p, q, w) /\ (w.size # 0 => ~q.open \/ Shows(Writes(q), w))
  <2>1. w.size \in Nat  BY DEF Good
  <2> QED  BY <2>1, PutShows
<1>2. q.saw = p.saw /\ q.mark = p.mark  BY PutGrows DEF Grown
<1> HIDE DEF q
<1>3. More(r, q)  BY <1>1, MoreIsMore DEF Given, Gains
<1>4. \A u \in Writes(q) : u \in Writes(r) \/ Harmless(u) \/ Asking(u, k, S) \/ StandingBy(u, k, S)
  BY <1>1 DEF Gains, Adds, Given
<1>5. Given(r, q, k, S)  BY <1>2, <1>3, <1>4 DEF Given
<1> QED  BY <1>1, <1>5 DEF q

LEMMA GivenNone ==
  ASSUME NEW r, NEW k, NEW S
  PROVE  Given(r, r, k, S)
<1>1. More(r, r)  BY MoreIsMore
<1> QED  BY <1>1 DEF Given

\* Whoever is sent a query, or stands by for it, will be shown what it shows.
LEMMA LaunchGives ==
  ASSUME OutputAssumption, Inv, NEW t \in Writers, NEW first, NEW others,
         NEW shows \in [Clients -> SUBSET Nat], NEW A \in SUBSET queries, A # {},
         Launch(t, first, others, shows, A), NEW c \in Clients
  PROVE  LET k == [who |-> t, asks |-> A, client |-> c]
             p == client'[c] IN
         /\ Given(client[c], p, k, shows[c])
         /\ p.open /\ (c = first \/ c \in ToSet(others)) =>
              \A G : [gate |-> [token |-> k, part |-> "rest"], deliver |-> FALSE] \notin G =>
                \A n \in shows[c] : Has(p, n, G)
<1> DEFINE r == client[c]
           S == shows[c]
           a == Asked(t, c, S, A)
           b == AskGated(t, c, S, A)
           d == RestGated(t, c, S, A)
           k == [who |-> t, asks |-> A, client |-> c]
           g == [token |-> k, part |-> "rest"]
           p == Put(r, b)
           q == Put(p, d)
           f == Put(r, a)
<1>1. client'[c] = IF c = first THEN f ELSE IF c \notin ToSet(others) THEN r
                   ELSE IF Fits(r, b) THEN q ELSE p
  BY DEF Launch
<1>2. r \in Holdings(c, queries) /\ S \in SUBSET Nat  BY DEF Inv, ClientInv
<1>3. /\ a \in Good(c, queries) /\ a.token = k /\ a.gate = NoGate
      /\ b \in Good(c, queries) /\ b.token = k /\ b.gate = [token |-> k, part |-> "ask"]
      /\ d \in Good(c, queries) /\ d.token = NoToken
  <2>1. AskedWell(t, c, shows[c], A)  BY <1>2, AskedIs
  <2> QED  BY <2>1 DEF AskedWell
<1>4. /\ a.shows = S /\ b.shows = S /\ d.shows = S /\ d.gate = g
      /\ (S # {} => d.size # 0) /\ a.size # 0 /\ b.size # 0
  <2>1. shows[c] \in SUBSET Nat  BY <1>2
  <2>2. Shown(t, c, shows[c], A)  BY <2>1, ShownIs
  <2> QED  BY <2>2 DEF Shown
<1>5. NoGate.part # "rest"  BY DEF NoGate
<1> HIDE DEF a, b, d, k
<1>6. Asking(a, k, S) /\ Asking(b, k, S) /\ StandingBy(d, k, S)
  BY <1>3, <1>4, <1>5 DEF Asking, StandingBy
<1> HIDE DEF r, S, g
<1>7. Given(r, r, k, S)  BY GivenNone
<1>8. Given(r, f, k, S) /\ (~f.open \/ Shows(Writes(f), a))
  BY <1>2, <1>3, <1>4, <1>6, <1>7, GivenOn
<1>9. p \in Holdings(c, queries) /\ Given(r, p, k, S)
  BY <1>2, <1>3, <1>6, <1>7, GivenOn
<1>10. ~Fits(r, b) => ~p.open
  <2>1. ~Fits(r, b) => p = [r EXCEPT !.open = FALSE]  BY <1>4 DEF Put
  <2> QED  BY <1>2, <2>1 DEF Holdings
<1> HIDE DEF p
<1>11. Given(r, q, k, S) /\ (S # {} => ~q.open \/ Shows(Writes(q), d))
  BY <1>3, <1>4, <1>6, <1>9, GivenOn
<1> HIDE DEF q, f
<1>12. f.open => \A n \in S : \A G : Has(f, n, G)
  BY <1>3, <1>4, <1>8, ShownThen
<1>13. ASSUME q.open, NEW G, [gate |-> g, deliver |-> FALSE] \notin G, NEW n \in S
       PROVE  Has(q, n, G)
  <2>1. PICK u \in Writes(q) : u.gate = d.gate /\ d.shows \subseteq u.shows  BY <1>11, <1>13 DEF Shows
  <2>2. u.gate = g /\ n \in u.shows  BY <1>4, <1>13, <2>1
  <2>3. DueAt(u, G)  BY <1>13, <2>2 DEF DueAt, g
  <2> QED  BY <2>2, <2>3 DEF Has
<1> DEFINE x == client'[c]
<1>14. x \in {f, r, q, p} /\ ((c = first \/ c \in ToSet(others)) /\ x.open => x = f \/ x = q)
  BY <1>1, <1>10
<1> HIDE DEF x
<1>15. Given(r, x, k, S)  BY <1>7, <1>8, <1>9, <1>11, <1>14
<1>16. x.open /\ (c = first \/ c \in ToSet(others)) =>
         \A G : [gate |-> g, deliver |-> FALSE] \notin G => \A n \in S : Has(x, n, G)
  BY <1>12, <1>13, <1>14
<1> QED  BY <1>15, <1>16 DEF x, k, g, S, r

\* A job begins whose token nobody has heard of: all clients are Given.
Novel(t, A) == \A k : Fresh(k) => ~(k.who = t /\ k.asks = A)
TokenFor(t, A, c) == [who |-> t, asks |-> A, client |-> c]
AllGiven(t, A, shows) == \A c \in Clients : Given(client[c], client'[c], TokenFor(t, A, c), shows[c])

LEMMA LaunchRests ==
  ASSUME OutputAssumption, Inv, AskInv, [Next]_vars, Inv', RestsInv, results' = results,
         NEW t \in Writers, NEW A, A # {}, NEW shows, Novel(t, A), AllGiven(t, A, shows),
         \A c \in Clients : Fresh(TokenFor(t, A, c))'
  PROVE  RestsInv'
<1> DEFINE K(c) == TokenFor(t, A, c)
<1>1. \A c : K(c).who = t /\ K(c).asks = A /\ K(c).client = c /\ ~Fresh(K(c))
  BY DEF Novel, TokenFor
<1>2. \A w : Harmless(w) => w.token.who \notin Writers /\ w.gate.part # "rest"
  BY HarmlessRests DEF Harmless
<1>3. NoToken.who \notin Writers  BY DEF OutputAssumption, NoToken, Nobody, Writers, Reader
<1>4. ASSUME NEW c \in Clients, NEW w \in Writes(client[c]), w.token = K(c)
      PROVE  FALSE
  <2>1. Tidied(client[c])  BY DEF AskInv, WriteInv
  <2>2. w.token.asks = w.asks  BY <2>1 DEF Tidied, Tidy, Writes
  <2>3. w \in Carries(client[c])  BY <1>1, <1>4, <2>2 DEF Carries, Askers, Writes
  <2>4. w.token \in Known  BY <2>3 DEF Known, Outgoing
  <2> QED  BY <1>1, <1>4, <2>4 DEF AskInv, FreshInv
<1>5. ASSUME NEW r \in results
      PROVE  \A c : r.token # K(c)
  <2> SUFFICES ASSUME NEW c, r.token = K(c) PROVE FALSE
    OBVIOUS
  <2>1. r \in Told  BY <1>1 DEF Told
  <2>2. r.token \in Known  BY <2>1 DEF Known
  <2> QED  BY <1>1, <2>2 DEF AskInv, FreshInv
<1> DEFINE New(u, c) == Asking(u, K(c), shows[c]) \/ StandingBy(u, K(c), shows[c])
<1>6. ASSUME NEW c \in Clients
      PROVE  /\ \A u \in Writes(client'[c]) : u \in Writes(client[c]) \/ Harmless(u) \/ New(u, c)
             /\ client'[c].saw = client[c].saw /\ (client'[c].open => client[c].open)
  BY DEF AllGiven, Given, More
<1>7. ASSUME NEW c \in Clients, NEW w \in Rests(client'[c])
      PROVE  w \in Rests(client[c]) \/ StandingBy(w, K(c), shows[c])
  <2>1. w.gate.part = "rest" /\ w \in Writes(client'[c])  BY <1>7 DEF Rests
  <2>2. ~Harmless(w) /\ ~Asking(w, K(c), shows[c])  BY <1>2, <2>1 DEF Asking
  <2> QED  BY <1>6, <2>1, <2>2 DEF Rests
<1>8. ASSUME NEW c \in Clients, NEW w \in Rests(client[c])
      PROVE  /\ Fresh(w.gate.token) /\ w.gate.token.client = c /\ w.gate.token.who \in Writers
             /\ \A d : w.gate.token # K(d)
  <2>1. Fresh(w.gate.token) /\ w.gate.token.client = c /\ w.gate.token.who \in Writers
    BY <1>8 DEF RestsInv, RestInv
  <2> QED  BY <1>1, <2>1
<1>9. ASSUME NEW c \in Clients, NEW w, StandingBy(w, K(c), shows[c])
      PROVE  w.gate.token = K(c) /\ w.token = NoToken /\ w.shows = shows[c]
  BY <1>9 DEF StandingBy
<1>10. ASSUME NEW c \in Clients, NEW v \in Writes(client'[c]), v.token.who \in Writers
       PROVE  v \in Writes(client[c]) \/ (v.token = K(c) /\ v.shows = shows[c])
  <2>1. ~Harmless(v)  BY <1>2, <1>10
  <2>2. ~StandingBy(v, K(c), shows[c])  BY <1>3, <1>9, <1>10
  <2> QED  BY <1>6, <1>10, <2>1, <2>2 DEF Asking
<1>11. \A c \in Clients : Fresh(K(c))'  OBVIOUS
<1> HIDE DEF K, New
<1>12. RestInv'
  <2> SUFFICES ASSUME NEW c \in Clients, NEW w \in Rests(client'[c])
               PROVE  Fresh(w.gate.token)' /\ w.gate.token.client = c /\ w.gate.token.who \in Writers
    BY DEF RestInv
  <2>1. CASE w \in Rests(client[c])
    BY <1>8, <2>1, FreshNext
  <2>2. CASE StandingBy(w, K(c), shows[c])
    <3>1. w.gate.token = K(c)  BY <1>9, <2>2
    <3>2. Fresh(K(c))'  BY <1>11
    <3> QED  BY <1>1, <3>1, <3>2
  <2> QED  BY <1>7, <2>1, <2>2
<1>13. PairInv'
  <2> SUFFICES ASSUME NEW c \in Clients, NEW w \in Rests(client'[c]), NEW v \in Writes(client'[c]),
                      v.token = w.gate.token
               PROVE  w.shows \subseteq v.shows
    BY DEF PairInv
  <2>1. CASE w \in Rests(client[c])
    <3>1. v.token.who \in Writers /\ v.token # K(c)  BY <1>8, <2>1
    <3>2. v \in Writes(client[c])  BY <1>10, <3>1
    <3> QED  BY <2>1, <3>2 DEF RestsInv, PairInv
  <2>2. CASE StandingBy(w, K(c), shows[c])
    <3>1. v.token = K(c) /\ w.shows = shows[c]  BY <1>9, <2>2
    <3>2. v.token.who \in Writers  BY <1>1, <3>1
    <3>3. v \notin Writes(client[c])  BY <1>4, <3>1
    <3> QED  BY <1>10, <3>1, <3>2, <3>3
  <2> QED  BY <1>7, <2>1, <2>2
<1>14. SeenInv'
  <2> SUFFICES ASSUME NEW r \in results PROVE SeenOf(r, client'[r.token.client])
    BY DEF SeenInv
  <2> DEFINE c == r.token.client
  <2>1. c \in Clients  BY DEF Inv, ResultInv
  <2>2. SeenOf(r, client[c])  BY DEF RestsInv, SeenInv
  <2>3. r.token # K(c)  BY <1>5
  <2> HIDE DEF c
  <2>4. ASSUME NEW w \in Rests(client'[c]), w.gate.token = r.token
        PROVE  w \in Rests(client[c])
    BY <1>7, <1>9, <2>1, <2>3, <2>4
  <2>5. SeenOf(r, client'[c])
    <3>1. CASE r.ok
      BY <1>6, <2>1, <2>2, <2>4, <3>1 DEF SeenOf
    <3>2. CASE ~r.ok
      BY <1>6, <2>1, <2>2, <3>2 DEF SeenOf
    <3> QED  BY <3>1, <3>2
  <2> QED  BY <2>5 DEF c
<1> QED  BY <1>12, <1>13, <1>14 DEF RestsInv

\* Whoever is to be shown the output is first or among the others.
LEMMA AllStand ==
  ASSUME OutputAssumption, Inv, NEW first, NEW c \in Registered
  PROVE  c = first \/ c \in ToSet(Kept(Reverse(focus), Clients \ {first}))
<1>1. focus \in Seq(Clients)  BY DEF Inv, PlaceInv
<1>2. Reverse(focus) \in Seq(Clients) /\ ToSet(Reverse(focus)) = ToSet(focus) \cap Clients
  BY <1>1, ReverseArranges DEF Arranges
<1>3. ToSet(Kept(Reverse(focus), Clients \ {first})) = ToSet(Reverse(focus)) \cap (Clients \ {first})
  BY <1>2, KeptArranges DEF Arranges
<1>4. c \in Clients /\ c \in ToSet(focus)  BY KnownClients DEF Inv, Registered
<1> QED  BY <1>2, <1>3, <1>4

\* No gate of the job has been decided.
LEMMA GateNovel ==
  ASSUME AskInv, NEW t, NEW A, Novel(t, A), NEW c
  PROVE  [gate |-> [token |-> TokenFor(t, A, c), part |-> "rest"], deliver |-> FALSE] \notin gates
<1> DEFINE g == [gate |-> [token |-> TokenFor(t, A, c), part |-> "rest"], deliver |-> FALSE]
<1> SUFFICES ASSUME g \in gates PROVE FALSE
  OBVIOUS
<1>1. g.gate.token = TokenFor(t, A, c)  OBVIOUS
<1> HIDE DEF g
<1>2. g.gate.token \in Known  BY DEF Known
<1>3. TokenFor(t, A, c).who = t /\ TokenFor(t, A, c).asks = A  BY DEF TokenFor
<1> QED  BY <1>1, <1>2, <1>3 DEF AskInv, FreshInv, Novel

LEMMA ChunkIs ==
  ASSUME OutputAssumption, NEW n \in Nat, NEW c \in Clients
  PROVE  LET w == Data({n}, {}) IN
         w \in Good(c, queries) /\ w.shows = {n} /\ w.size = 1 /\ Harmless(w)
<1> DEFINE w == Data({n}, {})
           S == {s \in {"shows"} : {n} # {}}
           N == {a \in {"asks"} : {} # {}}
<1>1. w.size = Cardinality(S) + Cardinality(N)  BY DEF Data, NoWrite
<1>2. S = {"shows"} /\ N = {}  OBVIOUS
<1> HIDE DEF S, N
<1>3. Cardinality(S) = 1 /\ Cardinality(N) = 0  BY <1>2, FS_Singleton, FS_EmptySet
<1>4. \A x \in SUBSET queries : DataWell(c, queries, {n}, x)  BY DataGood
<1>5. DataWell(c, queries, {n}, {})  BY <1>4
<1>6. w \in Good(c, queries) /\ w.shows = {n} /\ w.token = NoToken /\ w.gate = NoGate
  BY <1>5 DEF DataWell
<1> HIDE DEF w
<1>7. NoToken.who \notin Writers  BY DEF OutputAssumption, NoToken, Nobody, Writers, Reader
<1>8. w.size = 1  BY <1>1, <1>3
<1> QED  BY <1>6, <1>7, <1>8 DEF w, Harmless

\* The chunk is written to all who were there when it was read, as their
\* replays are older.
LEMMA WriteOutputCovers ==
  ASSUME OutputAssumption, Inv, Inv', AskInv, [Next]_vars, GapInv, WriteOutput
  PROVE  GapInv'
<1>0. PICK A : A = reading.asks  OBVIOUS
<1> DEFINE n == reading.chunk
           known == {c \in Registered : Sequence(c) <= reading.latest}
           first == IF reading.primary \in known THEN reading.primary ELSE NoClient
           shows == [c \in Clients |-> IF c \in known /\ ~Suppresses(c, n) THEN {n} ELSE {}]
           others == Kept(Reverse(focus), Clients \ {first})
<1>1. /\ reading # NoRead /\ reading' = NoRead
      /\ UNCHANGED <<attachVars, redraws, shown, emitted, queries, gates, results, pauseVars>>
      /\ (~shown => UNCHANGED client)
      /\ (shown /\ A = {} => client' = [c \in Clients |->
                 IF c \in known THEN Informed(c, Data({n}, {}), n) ELSE client[c]])
      /\ (shown /\ A # {} => Launch(Reader, first, others, shows, A))
  BY <1>0 DEF WriteOutput
<1>2. UNCHANGED <<focus, arrived, timers, pauses, paused>>  BY <1>1 DEF attachVars, pauseVars
<1>3. reading \in Reads(queries)  BY DEF Inv, ReadInv
<1>4. n \in Nat /\ A \in SUBSET queries  BY <1>0, <1>3 DEF Reads
<1>5. n = emitted /\ \A c \in Clients : ~Suppresses(c, n)
  <2>1. n = emitted /\ \A c \in Clients : client[c].mark < emitted
    BY <1>1 DEF GapInv, MarkInv
  <2>2. \A c \in Clients : client[c].mark \in Nat  BY HoldingParts DEF Inv, ClientInv
  <2> HIDE DEF n
  <2> QED  BY <1>4, <2>1, <2>2 DEF Suppresses
<1>6. shows \in [Clients -> SUBSET Nat] /\ \A c \in known \cap Clients : shows[c] = {n}
  BY <1>4, <1>5
<1>7. Registered \subseteq Clients /\ Registered' = Registered
  BY <1>2, KnownClients DEF Inv, Registered
<1>8. Reader \in Writers  BY DEF Writers
<1> DEFINE Well == /\ RestsInv'
                   /\ \A c \in Clients : More(client[c], client'[c]) /\ client'[c].mark = client[c].mark
                   /\ \A c \in known : client'[c].open => Has(client'[c], n, gates)
<1>9. CASE ~shown
  <2>1. client' = client  BY <1>1, <1>9
  <2>2. RestsInv'
    <3>1. \A d \in Clients : Calm(client[d], client'[d])  BY <2>1, CalmIsCalm
    <3> QED  BY <1>1, <3>1, RestsKeep DEF GapInv
  <2>3. \A c \in Clients : client'[c].mark = client[c].mark  BY <2>1
  <2>4. MarkInv'  BY <1>1, <2>3, MarkKeeps DEF GapInv
  <2>5. CoverInv'  BY <1>1, <1>9 DEF CoverInv
  <2>6. PauseInv'  BY <1>2 DEF GapInv, PauseInv
  <2> QED  BY <2>2, <2>4, <2>5, <2>6 DEF GapInv
<1>10. ASSUME shown, A = {}
      PROVE  Well
  <2> DEFINE w == Data({n}, {})
  <2>1. client' = [c \in Clients |-> IF c \in known THEN Informed(c, w, n) ELSE client[c]]
    BY <1>1, <1>10
  <2>2. \A c \in Clients : w \in Good(c, queries) /\ w.shows = {n} /\ w.size = 1 /\ Harmless(w)
    BY <1>4, ChunkIs
  <2> HIDE DEF w, known, n
  <2>3. ASSUME NEW c \in Clients
        PROVE  /\ Keeps(client[c], client'[c])
               /\ c \in known /\ client'[c].open => Has(client'[c], n, gates)
    <3>1. client[c] \in Holdings(c, queries)  BY DEF Inv, ClientInv
    <3>2. client'[c] = IF c \in known THEN Put(client[c], w) ELSE client[c]
      BY <1>5, <2>1 DEF Informed
    <3>3. CASE c \in known
      BY <2>2, <3>1, <3>2, <3>3, ReplayPut
    <3>4. CASE c \notin known
      BY <3>2, <3>4, KeepsIs
    <3> QED  BY <3>3, <3>4
  <2>4. RestsInv'  BY <1>1, <2>3, RestsKeep DEF GapInv, Keeps
  <2>5. known \subseteq Clients  BY <1>7 DEF known
  <2> QED  BY <2>3, <2>4, <2>5 DEF Keeps
<1>11. ASSUME shown, A # {}
      PROVE  Well
  <2>1. Launch(Reader, first, others, shows, A)  BY <1>1, <1>11
  <2>2. Novel(Reader, A)  BY <1>0 DEF Novel, Fresh
  <2>3. \A c : Fresh(TokenFor(Reader, A, c))'
    <3>1. pauses \in Nat /\ timers \subseteq Writers \ {Reader}  BY TimersWrite DEF Inv, TimerInv
    <3>2. Reader \notin timers' /\ Reader <= pauses'  BY <1>2, <3>1 DEF Reader
    <3>3. reading'.asks = {}  BY <1>1 DEF NoRead
    <3> QED  BY <1>1, <1>4, <1>8, <1>11, <3>2, <3>3 DEF Fresh, TokenFor
  <2>4. \A c \in known : c = first \/ c \in ToSet(others)  BY AllStand
  <2> HIDE DEF first, others, shows, known, n
  <2>5. ASSUME NEW c \in Clients
        PROVE  /\ Given(client[c], client'[c], TokenFor(Reader, A, c), shows[c])
               /\ client'[c].open /\ (c = first \/ c \in ToSet(others)) =>
                    \A m \in shows[c] : Has(client'[c], m, gates)
    <3>1. [gate |-> [token |-> TokenFor(Reader, A, c), part |-> "rest"], deliver |-> FALSE] \notin gates
      BY <2>2, GateNovel
    <3>2. Reader \in Writers /\ A \in SUBSET queries /\ A # {} /\ shows \in [Clients -> SUBSET Nat]
      BY <1>4, <1>6, <1>8, <1>11
    <3> QED  BY <2>1, <3>1, <3>2, LaunchGives DEF TokenFor
  <2>6. RestsInv'
    <3>1. AllGiven(Reader, A, shows)  BY <2>5 DEF AllGiven
    <3> QED  BY <1>1, <1>8, <1>11, <2>2, <2>3, <3>1, LaunchRests DEF GapInv
  <2>7. known \subseteq Clients  BY <1>7 DEF known
  <2>8. \A c \in known : n \in shows[c]  BY <1>6, <2>7
  <2> QED  BY <2>4, <2>5, <2>6, <2>7, <2>8 DEF Given
<1>12. CASE shown /\ Well
  <2>1. MarkInv'  BY <1>1, <1>12, MarkKeeps DEF GapInv
  <2>2. CoverInv'
    <3> SUFFICES ASSUME ~paused', NEW c \in Registered, Counts(c)', NEW m \in Misses(c)'
                 PROVE  FALSE
      BY <1>7 DEF CoverInv
    <3> DEFINE p == client'[c]
    <3>1. m \in History /\ ~Has(p, m, gates) /\ p.open
      BY <1>1 DEF Misses, History, Counts
    <3>2. More(client[c], p)  BY <1>7, <1>12
    <3> HIDE DEF p, n
    <3>3. Counts(c)
      <4>1. Counts(c)' = (p.open /\ ~(redraws /\ p.flush))  BY <1>1 DEF Counts, p
      <4> QED  BY <3>2, <4>1 DEF Counts, More
    <3>4. CASE m \in InHand(c)
      <4>1. m = n /\ c \in known  BY <3>4 DEF InHand, n
      <4> QED  BY <1>12, <3>1, <4>1 DEF p
    <3>5. CASE m \notin InHand(c)
      <4>1. ~paused  BY <1>2
      <4>2. Has(client[c], m, gates)  BY <1>12, <3>1, <3>3, <3>5, <4>1 DEF GapInv, CoverInv, Misses
      <4>3. Opens(gates, gates)  BY DEF Opens
      <4> QED  BY <3>1, <3>2, <4>2, <4>3, HasStays
    <3> QED  BY <3>4, <3>5
  <2>3. PauseInv'  BY <1>2 DEF GapInv, PauseInv
  <2> QED  BY <1>12, <2>1, <2>2, <2>3 DEF GapInv
<1> QED  BY <1>9, <1>10, <1>11, <1>12

\* A redraw ends: the frame is shown to all, with what had been kept back.
LEMMA ResumeCovers ==
  ASSUME OutputAssumption, Inv, Inv', AskInv, [Next]_vars, GapInv, NEW g \in timers, Resume(g)
  PROVE  GapInv'
<1>0. PICK A : A = buffer.asks  OBVIOUS
<1> DEFINE first == IF ~shown THEN NoClient
                    ELSE IF buffer.primary \in Registered THEN buffer.primary ELSE Primary
           others == IF shown THEN Kept(Reverse(focus), Clients \ {first}) ELSE <<>>
           shows == [c \in Clients |-> History]
           cs == IF shown THEN Registered ELSE {}
           ends == paused /\ g = pauses
<1>1. /\ timers' = timers \ {g} /\ pauses' = pauses
      /\ UNCHANGED <<attachVars, windowVars, gates, results>>
      /\ (ends => paused' = FALSE)
      /\ (ends /\ A # {} => Launch(g, first, others, shows, A))
      /\ (ends /\ A = {} => client' = PutTo(cs, Frame(History)))
      /\ (~ends => UNCHANGED <<client, paused>>)
  BY <1>0 DEF Resume, ResumeWrites
<1>2. UNCHANGED <<focus, arrived, queries, reading, emitted, shown, redraws>>
  BY <1>1 DEF windowVars, attachVars
<1>3. g \in Writers \ {Reader}  BY TimersWrite
<1>4. A \in SUBSET queries  BY <1>0 DEF Inv, PlaceInv
<1>5. History \in SUBSET Nat /\ shows \in [Clients -> SUBSET Nat]
  <2>1. History \in SUBSET Nat  BY DEF Inv, PlaceInv, History
  <2> QED  BY <2>1
<1>6. Registered \subseteq Clients /\ Registered' = Registered
  BY <1>2, KnownClients DEF Inv, Registered
<1> DEFINE Well == /\ RestsInv'
                   /\ \A c \in Clients : client'[c].mark = client[c].mark
                   /\ \A c \in Registered : shown /\ client'[c].open => \A n \in History : Has(client'[c], n, gates)
<1>7. CASE ~ends
  <2>1. PauseInv'
    <3>1. paused' => paused /\ g # pauses  BY <1>1, <1>7
    <3> QED  BY <1>1, <3>1 DEF GapInv, PauseInv
  <2>2. UNCHANGED <<client, gates, results, emitted, reading, redraws, arrived>>  BY <1>1, <1>2, <1>7
  <2>3. shown' /\ ~paused' => shown /\ ~paused  BY <1>1, <1>2, <1>7
  <2> QED  BY <1>6, <2>1, <2>2, <2>3, AloneCovers
<1>8. ASSUME ends, A = {}
      PROVE  Well
  <2>1. client' = PutTo(cs, Frame(History))  BY <1>1, <1>8
  <2> HIDE DEF cs
  <2>2. ASSUME NEW c \in Clients
        PROVE  /\ Keeps(client[c], client'[c])
               /\ c \in cs /\ client'[c].open => \A n \in History : Has(client'[c], n, gates)
    <3> DEFINE w == Frame(History)
    <3>1. client[c] \in Holdings(c, queries)  BY DEF Inv, ClientInv
    <3>2. w \in Good(c, queries) /\ w.size = 1 /\ Harmless(w) /\ w.shows = History
      <4>1. w \in Good(c, queries)  BY <1>5, FrameGood DEF Inv
      <4> HIDE DEF w
      <4> QED  BY <4>1, FrameIs DEF w
    <3>3. client'[c] = IF c \in cs THEN Put(client[c], w) ELSE client[c]  BY <2>1 DEF PutTo
    <3> HIDE DEF w
    <3>4. CASE c \in cs
      BY <3>1, <3>2, <3>3, <3>4, ReplayPut
    <3>5. CASE c \notin cs
      BY <3>3, <3>5, KeepsIs
    <3> QED  BY <3>4, <3>5
  <2>3. RestsInv'  BY <1>1, <2>2, RestsKeep DEF GapInv, Keeps
  <2>4. shown => cs = Registered  BY DEF cs
  <2> QED  BY <1>6, <2>2, <2>3, <2>4 DEF Keeps
<1>9. ASSUME ends, A # {}
      PROVE  Well
  <2>1. Launch(g, first, others, shows, A)  BY <1>1, <1>9
  <2>2. Novel(g, A)  BY DEF Novel, Fresh
  <2>3. \A c : Fresh(TokenFor(g, A, c))'
    <3>1. g \notin timers' /\ g <= pauses' /\ g # Reader
      <4>1. pauses \in Nat  BY DEF Inv, TimerInv
      <4> QED  BY <1>1, <1>3, <1>9, <4>1
    <3> QED  BY <1>2, <1>3, <1>4, <1>9, <3>1 DEF Fresh, TokenFor
  <2>4. \A c \in Registered : shown => c = first \/ c \in ToSet(others)
    <3> HIDE DEF first
    <3> QED  BY AllStand
  <2>5. \A c \in Clients : shows[c] = History  OBVIOUS
  <2> HIDE DEF first, others, shows
  <2>6. ASSUME NEW c \in Clients
        PROVE  /\ Given(client[c], client'[c], TokenFor(g, A, c), shows[c])
               /\ client'[c].open /\ (c = first \/ c \in ToSet(others)) =>
                    \A m \in shows[c] : Has(client'[c], m, gates)
    <3>1. [gate |-> [token |-> TokenFor(g, A, c), part |-> "rest"], deliver |-> FALSE] \notin gates
      BY <2>2, GateNovel
    <3>2. g \in Writers /\ A \in SUBSET queries /\ A # {} /\ shows \in [Clients -> SUBSET Nat]
      BY <1>3, <1>4, <1>5, <1>9
    <3> QED  BY <2>1, <3>1, <3>2, LaunchGives DEF TokenFor
  <2>7. RestsInv'
    <3>1. AllGiven(g, A, shows)  BY <2>6 DEF AllGiven
    <3> QED  BY <1>1, <1>3, <1>9, <2>2, <2>3, <3>1, LaunchRests DEF GapInv
  <2> QED  BY <1>6, <2>4, <2>5, <2>6, <2>7 DEF Given
<1>10. CASE ends /\ Well
  <2>1. MarkInv'  BY <1>2, <1>10, MarkKeeps DEF GapInv
  <2>2. CoverInv'
    <3> SUFFICES ASSUME shown', NEW c \in Registered, Counts(c)', NEW m \in Misses(c)'
                 PROVE  FALSE
      BY <1>6 DEF CoverInv
    <3>1. m \in History /\ ~Has(client'[c], m, gates) /\ client'[c].open /\ shown
      BY <1>1, <1>2 DEF Misses, History, Counts
    <3> QED  BY <1>10, <3>1
  <2>3. PauseInv'  BY <1>1, <1>10 DEF PauseInv
  <2> QED  BY <1>10, <2>1, <2>2, <2>3 DEF GapInv
<1> QED  BY <1>7, <1>8, <1>9, <1>10

(***************************************************************************)
(* Every step                                                              *)
(***************************************************************************)
LEMMA InitGap ==
  ASSUME OutputAssumption, Init
  PROVE  GapInv
<1>1. /\ client = [c \in Clients |-> Away] /\ results = {} /\ reading = NoRead /\ emitted = 0 /\ ~paused
  BY DEF Init
<1>2. \A c \in Clients : Rests(client[c]) = {}
  <2> SUFFICES ASSUME NEW c \in Clients PROVE Rests(client[c]) = {}
    OBVIOUS
  <2>1. client[c].queue = <<>> /\ client[c].held = NoWrite  BY <1>1 DEF Away
  <2>2. ToSet(<<>>) = {}  BY DEF ToSet
  <2>3. Writes(client[c]) = {NoWrite}  BY <2>1, <2>2 DEF Writes
  <2> QED  BY <2>3, NoWriteHarmless, HarmlessRests DEF Rests
<1>3. RestsInv  BY <1>1, <1>2 DEF RestsInv, RestInv, PairInv, SeenInv
<1>4. MarkInv /\ PauseInv  BY <1>1 DEF MarkInv, PauseInv
<1>5. History = {}  BY <1>1 DEF History
<1>6. CoverInv  BY <1>5 DEF CoverInv, Misses
<1> QED  BY <1>3, <1>4, <1>6 DEF GapInv

LEMMA UnchangedCovers ==
  ASSUME OutputAssumption, Inv, Inv', [Next]_vars, GapInv, UNCHANGED vars
  PROVE  GapInv'
<1>1. UNCHANGED <<client, gates, results, attachVars, windowVars, pauseVars>>  BY DEF vars
<1>2. Indoors /\ Opens(gates, gates')  BY <1>1, OpensFewer, IndoorsElsewhere
<1>3. \A c \in Clients : Keeps(client[c], client'[c])  BY <1>1, KeepsIs
<1> QED  BY <1>1, <1>2, <1>3, ServerCovers

LEMMA NextCovers ==
  ASSUME OutputAssumption, Inv, AskInv, GapInv, [Next]_vars
  PROVE  GapInv'
<1>0. Inv'  BY NextWell DEF StepWell
<1>1. CASE Outside
  <2>1. CASE Emit  BY <1>0, <2>1, EmitCovers
  <2>2. ASSUME NEW c \in Clients, Attach(c) \/ CloseClient(c) \/ Focus(c) \/ Leave(c)
        PROVE  GapInv'
    <3>1. CASE Attach(c)       BY <1>0, <3>1, AttachCovers
    <3>2. CASE CloseClient(c)  BY <1>0, <3>2, CloseClientCovers
    <3>3. CASE Focus(c)        BY <1>0, <3>3, FocusCovers
    <3>4. CASE Leave(c)        BY <1>0, <3>4, LeaveCovers
    <3> QED  BY <2>2, <3>1, <3>2, <3>3, <3>4
  <2>3. CASE Pause  BY <1>0, <2>3, PauseCovers
  <2>4. CASE Hide   BY <1>0, <2>4, HideCovers
  <2>5. CASE Show   BY <1>0, <2>5, ShowCovers
  <2> QED  BY <1>1, <2>1, <2>2, <2>3, <2>4, <2>5 DEF Outside
<1>2. CASE ServerStep
  <2>1. CASE WriteOutput    BY <1>0, <2>1, WriteOutputCovers
  <2>2. CASE ReplayFocused  BY <1>0, <2>2, ReplayFocusedCovers
  <2>3. ASSUME NEW w \in watches, QuerySent(w) \/ QueryFailed(w)
        PROVE  GapInv'
    <3>1. CASE QuerySent(w)    BY <1>0, <3>1, QuerySentCovers
    <3>2. CASE QueryFailed(w)  BY <1>0, <3>2, QueryFailedCovers
    <3> QED  BY <2>3, <3>1, <3>2
  <2>4. ASSUME NEW t \in Writers,
               AwaitPrimary(t) \/ PassFallback(t) \/ TryFallback(t) \/ AwaitFallback(t) \/ EndJob(t)
        PROVE  GapInv'
    <3>1. CASE AwaitPrimary(t)   BY <1>0, <3>1, AwaitPrimaryCovers
    <3>2. CASE PassFallback(t)   BY <1>0, <3>2, PassFallbackCovers
    <3>3. CASE TryFallback(t)    BY <1>0, <3>3, TryFallbackCovers
    <3>4. CASE AwaitFallback(t)  BY <1>0, <3>4, AwaitFallbackCovers
    <3>5. CASE EndJob(t)         BY <1>0, <3>5, EndJobCovers
    <3> QED  BY <2>4, <3>1, <3>2, <3>3, <3>4, <3>5
  <2>5. CASE \E g \in timers : Resume(g)  BY <1>0, <2>5, ResumeCovers
  <2> QED  BY <1>2, <2>1, <2>2, <2>3, <2>4, <2>5 DEF ServerStep
<1>3. ASSUME NEW c \in Clients, ClientStep(c)
      PROVE  GapInv'
  <2>1. CASE TakeWrite(c)      BY <1>0, <2>1, TakeWriteCovers
  <2>2. CASE SkipWrite(c)      BY <1>0, <2>2, SkipWriteCovers
  <2>3. CASE DeliverWrite(c)   BY <1>0, <2>3, DeliverWriteCovers
  <2>4. CASE FailWrite(c)      BY <1>0, <2>4, FailWriteCovers
  <2>5. CASE FailQueued(c)     BY <1>0, <2>5, FailQueuedCovers
  <2>6. CASE FlushAttached(c)  BY <1>0, <2>6, FlushAttachedCovers
  <2> QED  BY <1>3, <2>1, <2>2, <2>3, <2>4, <2>5, <2>6 DEF ClientStep
<1>4. CASE UNCHANGED vars  BY <1>0, <1>4, UnchangedCovers
<1> QED  BY <1>1, <1>2, <1>3, <1>4 DEF Next

\* A client that stays attached misses none of the window's output, however it
\* was written: as it came, in the replay that follows an attach, a new focus
\* or a switch, in the frame that ends a redraw, or behind a gate, when what is
\* skipped there has been shown with the query that this client was asked.
THEOREM NothingIsMissed == Spec => []NoGap
<1> USE OutputAssumption
<1>1. Init => Inv /\ AskInv /\ GapInv  BY InitInv, InitAsks, InitGap
<1>2. Inv /\ AskInv /\ GapInv /\ [Next]_vars => Inv' /\ AskInv' /\ GapInv'
  BY NextWell, NextAsks, NextCovers DEF StepWell
<1>3. Inv /\ GapInv => NoGap  BY GapNone
<1> QED  BY <1>1, <1>2, <1>3, PTL DEF Spec
=============================================================================
