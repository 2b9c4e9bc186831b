--------------------------- MODULE AcpSession_proofs ---------------------------
(***************************************************************************)
(* Theorems about the composition of the bridge and the app's transport    *)
(* (module AcpSession): the transport never takes the bridge for broken,   *)
(* and what it sees implements the numbered stream of module AcpStream.    *)
(* They hold for every window, queue and backoff limit.                    *)
(***************************************************************************)
EXTENDS AcpSession, AcpQueues_proofs

(***************************************************************************)
(* What is under way on a channel                                          *)
(***************************************************************************)
(* What follows the primed frames of an attach.                            *)
Live(f) == f.type \in {"event", "answer"}

(* Pending requests and their end, then what is live.                      *)
Ends(q) ==
  \E k \in DOMAIN q :
    /\ q[k].type = "replay_end"
    /\ \A i \in DOMAIN q : (i < k => q[i].type = "pending") /\ (i > k => Live(q[i]))

Announced(q) == q # <<>> /\ q[1].type = "overflow"

(* Queue q against the place p where the bridge stands with its reader:    *)
(* sent, base and told are the bridge's, last is what the reader has.      *)
PendingRuns(q, p) == p.sent = p.base /\ p.last <= p.base /\ Ends(q)

PlainRuns(q, mode, high, from, p) ==
  /\ p.sent = p.last
  /\ mode = "direct" => ~p.told
  /\ \A i \in DOMAIN q : Live(q[i]) \/ (i = 1 /\ Announced(q))
  /\ Announced(q) => /\ high = 0 /\ p.told /\ p.last <= p.base
                     /\ q[1].from \in 1 .. p.base
                     /\ \A i \in EventsIn(q) : q[1].from <= q[i].seq
  /\ high # 0 => /\ high = p.base /\ from <= p.base
                 /\ \A i \in EventsIn(q) : from <= q[i].seq
  /\ p.told /\ p.sent < p.base => Announced(q) \/ high # 0

(* Every request in need is known to the reader or announced in q.         *)
Promises(q, need, have) ==
  \A x \in need : x \in have \/ \E i \in DOMAIN q : q[i].type = "pending" /\ q[i].id = x

(* Queue q serves a reader in the given mode that was announced the window *)
(* from .. high.                                                           *)
Serves(q, mode, high, from, p, need, have) ==
  IF mode = "pending"
  THEN high = 0 /\ PendingRuns(q, p) /\ Promises(q, need, have)
  ELSE PlainRuns(q, mode, high, from, p)

LEMMA TailAppend ==
  ASSUME NEW F, NEW q \in Seq(F), q # <<>>, NEW f \in F
  PROVE  Append(q, f) # <<>> /\ Append(q, f)[1] = q[1] /\ Tail(Append(q, f)) = Append(Tail(q), f)
<1> DEFINE a == Append(q, f)
           t == Tail(q)
           u == Append(t, f)
           v == Tail(a)
<1>1. /\ Len(q) \in Nat /\ Len(q) >= 1 /\ DOMAIN q = 1 .. Len(q)
      /\ t \in Seq(F) /\ Len(t) = Len(q) - 1 /\ DOMAIN t = 1 .. Len(q) - 1
      /\ \A i \in DOMAIN t : t[i] = q[i + 1]
  BY TailParts
<1>2. /\ a \in Seq(F) /\ Len(a) = Len(q) + 1 /\ DOMAIN a = 1 .. Len(q) + 1
      /\ (\A i \in DOMAIN q : a[i] = q[i]) /\ a[Len(q) + 1] = f
  BY AppendParts
<1>3. a # <<>>  BY <1>1, <1>2, EmptySeq
<1> HIDE DEF a, t
<1>4. /\ u \in Seq(F) /\ Len(u) = Len(t) + 1 /\ DOMAIN u = 1 .. Len(t) + 1
      /\ (\A i \in DOMAIN t : u[i] = t[i]) /\ u[Len(t) + 1] = f
  <2> HIDE DEF u
  <2>1. t \in Seq(F)  BY <1>1
  <2> QED  BY <2>1, AppendParts DEF u
<1>5. /\ v \in Seq(F) /\ Len(v) = Len(a) - 1 /\ DOMAIN v = 1 .. Len(a) - 1
      /\ \A i \in DOMAIN v : v[i] = a[i + 1]
  BY <1>2, <1>3, TailParts
<1> HIDE DEF u, v
<1>6. Len(u) = Len(v)  BY <1>1, <1>2, <1>4, <1>5
<1>7. ASSUME NEW i \in 1 .. Len(u) PROVE u[i] = v[i]
  <2> PICK l \in Nat : l = Len(q)  BY <1>1
  <2>0. Len(t) = l - 1 /\ Len(u) = l /\ Len(a) = l + 1  BY <1>1, <1>2, <1>4
  <2>1. l >= 1 /\ i \in 1 .. l /\ v[i] = a[i + 1]  BY <1>1, <1>5, <1>7, <2>0
  <2>2. CASE i = l
    <3>1. u[i] = f  BY <1>1, <1>4, <2>2
    <3>2. a[i + 1] = f  BY <1>2, <2>2
    <3> QED  BY <2>1, <3>1, <3>2
  <2>3. CASE i # l
    <3>1. i \in DOMAIN t /\ i + 1 \in DOMAIN q  BY <1>1, <2>1, <2>3
    <3> QED  BY <1>1, <1>2, <1>4, <2>1, <3>1
  <2> QED  BY <2>2, <2>3
<1>8. u = v  BY <1>4, <1>5, <1>6, <1>7, SeqEqual
<1>9. 1 \in DOMAIN q  BY <1>1
<1> QED  BY <1>2, <1>3, <1>8, <1>9 DEF a, t, u, v

(* A live frame is added; fewer requests are needed.                       *)
LEMMA ServesMore ==
  ASSUME NEW q \in Seq(Frames), NEW f \in Frames, Live(f), NEW mode, NEW high, NEW from \in Nat, NEW p,
         p.base \in Nat, NEW need, NEW less \in SUBSET need, NEW have,
         IsEvent(f) => f.seq > p.base,
         Serves(q, mode, high, from, p, need, have)
  PROVE  Serves(Append(q, f), mode, high, from, p, less, have)
<1> DEFINE a == Append(q, f)
<1>1. /\ Len(q) \in Nat /\ DOMAIN q = 1 .. Len(q) /\ DOMAIN a = 1 .. Len(q) + 1
      /\ (\A i \in DOMAIN q : a[i] = q[i]) /\ a[Len(q) + 1] = f
      /\ EventsIn(a) = IF IsEvent(f) THEN EventsIn(q) \cup {Len(q) + 1} ELSE EventsIn(q)
      /\ a \in Seq(Frames)
  BY AppendParts
<1>2. q # <<>> <=> 1 \in DOMAIN q
  BY <1>1, EmptySeq
<1>3. 1 \in DOMAIN a /\ a # <<>>
  BY <1>1, EmptySeq
<1> HIDE DEF a
<1>4. Announced(a) <=> Announced(q)
  <2>1. CASE q = <<>>
    <3>1. a[1] = f  BY <1>1, <2>1, EmptySeq
    <3> QED  BY <2>1, <3>1 DEF Announced, Live
  <2>2. CASE q # <<>>
    BY <1>1, <1>2, <1>3, <2>2 DEF Announced
  <2> QED  BY <2>1, <2>2
<1>5. CASE mode = "pending"
  <2>1. Ends(a)
    <3>1. PICK k \in DOMAIN q :
            /\ q[k].type = "replay_end"
            /\ \A i \in DOMAIN q : (i < k => q[i].type = "pending") /\ (i > k => Live(q[i]))
      BY <1>5 DEF Serves, PendingRuns, Ends
    <3>2. k \in DOMAIN a /\ a[k].type = "replay_end"  BY <1>1, <3>1
    <3>3. ASSUME NEW i \in DOMAIN a
          PROVE  (i < k => a[i].type = "pending") /\ (i > k => Live(a[i]))
      BY <1>1, <3>1
    <3> QED  BY <3>2, <3>3 DEF Ends
  <2>2. Promises(a, less, have)
    BY <1>1, <1>5 DEF Serves, Promises
  <2> QED  BY <1>5, <2>1, <2>2 DEF Serves, PendingRuns, a
<1>6. CASE mode # "pending"
  <2>0. PlainRuns(q, mode, high, from, p)  BY <1>6 DEF Serves
  <2>1. \A i \in DOMAIN a : Live(a[i]) \/ (i = 1 /\ Announced(a))
    BY <1>1, <1>4, <2>0 DEF PlainRuns
  <2>2. Announced(a) => /\ high = 0 /\ p.told /\ p.last <= p.base
                        /\ a[1].from \in 1 .. p.base
                        /\ \A i \in EventsIn(a) : a[1].from <= a[i].seq
    <3> SUFFICES ASSUME Announced(a)
                 PROVE  /\ high = 0 /\ p.told /\ p.last <= p.base
                        /\ a[1].from \in 1 .. p.base
                        /\ \A i \in EventsIn(a) : a[1].from <= a[i].seq
      OBVIOUS
    <3>1. a[1] = q[1]  BY <1>1, <1>2, <1>4 DEF Announced
    <3>2. /\ high = 0 /\ p.told /\ p.last <= p.base
          /\ q[1].from \in 1 .. p.base
          /\ \A i \in EventsIn(q) : q[1].from <= q[i].seq
      BY <1>4, <2>0 DEF PlainRuns
    <3>3. IsEvent(f) => f.seq \in Nat  BY DEF Frames, IsEvent, Hellos, Overflows, Pendings, Marks, Numbered
    <3>4. EventsIn(q) \subseteq DOMAIN q  BY DEF EventsIn
    <3> QED  BY <1>1, <3>1, <3>2, <3>3, <3>4
  <2>3. high # 0 => /\ high = p.base /\ from <= p.base
                    /\ \A i \in EventsIn(a) : from <= a[i].seq
    <3>1. high # 0 => /\ high = p.base /\ from <= p.base
                      /\ \A i \in EventsIn(q) : from <= q[i].seq
      BY <2>0 DEF PlainRuns
    <3>3. IsEvent(f) => f.seq \in Nat  BY DEF Frames, IsEvent, Hellos, Overflows, Pendings, Marks, Numbered
    <3>4. EventsIn(q) \subseteq DOMAIN q  BY DEF EventsIn
    <3> QED  BY <1>1, <3>1, <3>3, <3>4
  <2>4. PlainRuns(a, mode, high, from, p)
    BY <1>4, <2>0, <2>1, <2>2, <2>3 DEF PlainRuns
  <2> QED  BY <1>6, <2>4 DEF Serves, a
<1> QED  BY <1>5, <1>6

LEMMA ServesLess ==
  ASSUME NEW q, NEW mode, NEW high, NEW from, NEW p, NEW need, NEW less \in SUBSET need, NEW have,
         Serves(q, mode, high, from, p, need, have)
  PROVE  Serves(q, mode, high, from, p, less, have)
BY DEF Serves, Promises

(* Before the end of a pending replay the reader is told of a request; at  *)
(* the end it knows all of them.                                           *)
LEMMA TakePending ==
  ASSUME NEW q \in Seq(Frames), NEW p, NEW need, NEW have, PendingRuns(q, p), Promises(q, need, have)
  PROVE  /\ q # <<>> /\ q[1].type \in {"pending", "replay_end"}
         /\ q[1].type = "pending" => /\ PendingRuns(Tail(q), p)
                                     /\ Promises(Tail(q), need, have \cup {q[1].id})
         /\ q[1].type = "replay_end" => /\ \A i \in DOMAIN Tail(q) : Live(Tail(q)[i])
                                        /\ need \subseteq have
<1> DEFINE t == Tail(q)
<1>1. PICK k \in DOMAIN q :
        /\ q[k].type = "replay_end"
        /\ \A i \in DOMAIN q : (i < k => q[i].type = "pending") /\ (i > k => Live(q[i]))
  BY DEF PendingRuns, Ends
<1>2. q # <<>>  BY <1>1, EmptySeq
<1>3. PICK l \in Nat : l = Len(q)  BY <1>2, TailParts
<1>4. /\ l >= 1 /\ DOMAIN q = 1 .. l /\ DOMAIN t = 1 .. l - 1
      /\ \A i \in DOMAIN t : t[i] = q[i + 1]
  BY <1>2, <1>3, TailParts
<1> HIDE DEF t
<1>5. k \in 1 .. l /\ (k = 1 \/ 1 < k)  BY <1>1, <1>4
<1>6. q[1].type \in {"pending", "replay_end"} /\ (q[1].type = "pending" <=> k # 1)
  BY <1>1, <1>4, <1>5
<1>7. ASSUME q[1].type = "pending"
      PROVE  PendingRuns(t, p) /\ Promises(t, need, have \cup {q[1].id})
  <2>1. k - 1 \in DOMAIN t /\ t[k - 1] = q[k]
    BY <1>4, <1>5, <1>6, <1>7
  <2>2. ASSUME NEW i \in DOMAIN t
        PROVE  (i < k - 1 => t[i].type = "pending") /\ (i > k - 1 => Live(t[i]))
    BY <1>1, <1>4, <1>5
  <2>3. Ends(t)  BY <1>1, <2>1, <2>2 DEF Ends
  <2>4. Promises(t, need, have \cup {q[1].id})
    <3> SUFFICES ASSUME NEW x \in need, x \notin have, x # q[1].id
                 PROVE  \E i \in DOMAIN t : t[i].type = "pending" /\ t[i].id = x
      BY DEF Promises
    <3>1. PICK i \in DOMAIN q : q[i].type = "pending" /\ q[i].id = x  BY DEF Promises
    <3>2. i # 1  BY <3>1
    <3>3. i - 1 \in DOMAIN t /\ t[i - 1] = q[i]  BY <1>4, <3>2
    <3> QED  BY <3>1, <3>3
  <2> QED  BY <2>3, <2>4 DEF PendingRuns
<1>8. ASSUME q[1].type = "replay_end"
      PROVE  (\A i \in DOMAIN t : Live(t[i])) /\ need \subseteq have
  <2>1. k = 1  BY <1>6, <1>8
  <2>2. \A i \in DOMAIN t : Live(t[i])  BY <1>1, <1>4, <2>1
  <2>3. \A i \in DOMAIN q : q[i].type # "pending"
    <3> SUFFICES ASSUME NEW i \in DOMAIN q, i # 1 PROVE q[i].type # "pending"
      BY <1>8
    <3>1. Live(q[i])  BY <1>1, <1>4, <2>1
    <3> QED  BY <3>1 DEF Live
  <2> QED  BY <2>2, <2>3 DEF Promises
<1> QED  BY <1>2, <1>6, <1>7, <1>8 DEF t

(* Behind the first frame of a plain or direct replay all is live.         *)
LEMMA TakePlain ==
  ASSUME NEW q \in Seq(Frames), q # <<>>, NEW mode, NEW high, NEW from, NEW p,
         PlainRuns(q, mode, high, from, p)
  PROVE  /\ Live(q[1]) \/ Announced(q)
         /\ \A i \in DOMAIN Tail(q) : Live(Tail(q)[i])
         /\ ~Announced(Tail(q))
         /\ \A i \in EventsIn(Tail(q)) : i + 1 \in EventsIn(q) /\ Tail(q)[i] = q[i + 1]
<1> DEFINE t == Tail(q)
<1>1. /\ t \in Seq(Frames) /\ Len(q) \in Nat /\ Len(q) >= 1 /\ Len(t) = Len(q) - 1
      /\ DOMAIN q = 1 .. Len(q) /\ DOMAIN t = 1 .. Len(q) - 1
      /\ \A i \in DOMAIN t : t[i] = q[i + 1]
      /\ \A i : i \in EventsIn(t) <=> i \in Nat \ {0} /\ i + 1 \in EventsIn(q)
  BY TailParts
<1> HIDE DEF t
<1>2. Live(q[1]) \/ Announced(q)  BY <1>1 DEF PlainRuns
<1>3. \A i \in DOMAIN t : Live(t[i])  BY <1>1 DEF PlainRuns
<1>4. ~Announced(t)
  <2> SUFFICES ASSUME t # <<>> PROVE t[1].type # "overflow"
    BY DEF Announced
  <2>1. 1 \in DOMAIN t  BY <1>1, EmptySeq
  <2> QED  BY <1>3, <2>1 DEF Live
<1>5. \A i \in EventsIn(t) : i \in DOMAIN t  BY DEF EventsIn
<1> QED  BY <1>1, <1>2, <1>3, <1>4, <1>5 DEF t

(* Nothing the bridge still has lies before the next event.                *)
LEMMA NoneBetween ==
  ASSUME NEW q \in Seq(Frames), q # <<>>, NEW from \in Nat, NEW gone, NEW n \in Nat,
         Flows(q, from, gone, n), IsEvent(q[1]), NEW s \in from + 1 .. q[1].seq, s \notin gone
  PROVE  s = q[1].seq
<1>1. DOMAIN q = 1 .. Len(q) /\ Len(q) \in Nat /\ Len(q) >= 1  BY TailParts
<1>2. 1 \in EventsIn(q)  BY <1>1 DEF EventsIn
<1>3. q[1].seq \in Nat  BY <1>2 DEF Flows, InOrder
<1>4. PICK i \in EventsIn(q) : q[i].seq = s  BY <1>2 DEF Flows, HasAll
<1>5. i \in Nat /\ (i = 1 \/ 1 < i)  BY <1>1 DEF EventsIn
<1>6. 1 < i => q[1].seq < q[i].seq  BY <1>2 DEF Flows, InOrder
<1> QED  BY <1>3, <1>4, <1>5, <1>6

(* The next number is one the reader accepts.                              *)
LEMMA NextEvent ==
  ASSUME NEW q \in Seq(Frames), q # <<>>, NEW mode, NEW high \in Nat, NEW from \in 0 .. high,
         NEW p, p.base \in Nat, p.last \in Nat, p.told \in BOOLEAN,
         high # 0 => p.last < high, PlainRuns(q, mode, high, from, p),
         NEW gone, \A s \in gone : s <= p.base /\ p.told,
         NEW m \in Nat, Flows(q, p.sent, gone, m), IsEvent(q[1])
  PROVE  /\ q[1].seq \in Nat /\ q[1].seq > p.last /\ q[1].seq <= m
         /\ high = 0 => q[1].seq = p.last + 1
         /\ high # 0 => q[1].seq = high + 1 \/ (from <= q[1].seq /\ q[1].seq <= high)
<1> DEFINE n == q[1].seq
<1>1. DOMAIN q = 1 .. Len(q) /\ Len(q) \in Nat /\ Len(q) >= 1  BY TailParts
<1>2. 1 \in EventsIn(q)  BY <1>1 DEF EventsIn
<1>3. p.sent = p.last /\ ~Announced(q)
  BY DEF PlainRuns, Announced, IsEvent
<1>4. n \in Nat /\ n > p.last /\ n <= m  BY <1>2, <1>3 DEF Flows, InOrder
<1>5. \A s \in p.last + 1 .. n : s = n \/ (s <= p.base /\ p.told)
  BY <1>3, NoneBetween
<1>6. /\ high # 0 => /\ high = p.base
                     /\ \A i \in EventsIn(q) : from <= q[i].seq
      /\ p.told /\ p.last < p.base => high # 0
  BY <1>3 DEF PlainRuns
<1> HIDE DEF n
<1>7. high = 0 => n = p.last + 1
  <2> SUFFICES ASSUME high = 0, n # p.last + 1 PROVE FALSE
    OBVIOUS
  <2>1. p.last + 1 \in p.last + 1 .. n  BY <1>4
  <2>2. p.last + 1 <= p.base /\ p.told  BY <1>5, <2>1
  <2> QED  BY <1>6, <2>2
<1>8. high # 0 => n = high + 1 \/ (from <= n /\ n <= high)
  <2> SUFFICES ASSUME high # 0, n > high + 1 PROVE FALSE
    BY <1>2, <1>4, <1>6 DEF n
  <2>1. high + 1 \in p.last + 1 .. n  BY <1>4
  <2>2. high + 1 <= p.base  BY <1>5, <2>1
  <2> QED  BY <1>6, <2>2
<1> QED  BY <1>4, <1>7, <1>8 DEF n

(* The reader that takes it stays in step.                                 *)
LEMMA EventTaken ==
  ASSUME NEW q \in Seq(Frames), q # <<>>, NEW mode, NEW high \in Nat, NEW from,
         NEW p, p.base \in Nat, p.last \in Nat,
         PlainRuns(q, mode, high, from, p), IsEvent(q[1]),
         q[1].seq \in Nat, q[1].seq > p.last,
         NEW o, o.sent = q[1].seq, o.last = q[1].seq, o.base = p.base, o.told = p.told,
         NEW high2, high2 = IF q[1].seq >= high THEN 0 ELSE high,
         NEW from2, from2 = IF q[1].seq >= high THEN 0 ELSE from,
         NEW mode2 \in {mode, "plain"}
  PROVE  PlainRuns(Tail(q), mode2, high2, from2, o)
<1> DEFINE t == Tail(q)
           n == q[1].seq
<1>1. ~Announced(q)
  BY DEF Announced, IsEvent
<1>2. /\ high # 0 => /\ high = p.base /\ from <= p.base
                     /\ \A i \in EventsIn(q) : from <= q[i].seq
      /\ p.told /\ p.last < p.base => high # 0
      /\ mode = "direct" => ~p.told
      /\ p.sent = p.last
  BY <1>1 DEF PlainRuns
<1>3. /\ \A i \in DOMAIN t : Live(t[i])
      /\ ~Announced(t)
      /\ \A i \in EventsIn(t) : i + 1 \in EventsIn(q) /\ t[i] = q[i + 1]
  BY TakePlain
<1>4. high2 # 0 => high2 = high /\ from2 = from  OBVIOUS
<1>5. p.told /\ n < p.base => high2 # 0
  BY <1>2
<1> HIDE DEF t, n
<1>6. PlainRuns(t, mode2, high2, from2, o)
  BY <1>2, <1>3, <1>4, <1>5 DEF PlainRuns, n
<1> QED  BY <1>6 DEF t

(***************************************************************************)
(* The invariant of the composition                                        *)
(***************************************************************************)
Replies == [kind : {"reply"}, id : ProviderRequests]

(* The types of what travels, and every number within what is published.   *)
SessionData ==
  /\ hello \in [Conns -> [lastAck : Nat, mode : {"adaptive", "plain"}]]
  /\ \A c \in Conns : hello[c].lastAck <= nextSequence
  /\ uplink \in [Conns -> Seq(Replies)]
  /\ parked \in Seq(ProviderRequests)
  /\ lastDelivered <= nextSequence /\ highWater <= nextSequence
  /\ excused <= nextSequence /\ windowHigh <= excused

Place(c) == [sent |-> sent[c], base |-> base[c], told |-> disclosed[c], last |-> lastDelivered]

(* The pending requests a fresh attach of c skipped, and what is known.    *)
Needed(c) == {replay[s].id : s \in {t \in Pinned(replay) : t <= base[c]}}
Have == shown \cup ToSet(parked)

(* Until the hello of the bridge is read: it and what follows agree with   *)
(* what the transport asked for.                                           *)
OpeningWell(c) ==
  /\ hello[c].lastAck = lastDelivered
  /\ pc[c] \notin Away =>
       /\ send[c] # <<>> /\ send[c][1].type = "hello"
       /\ send[c][1].high = base[c] /\ lastDelivered <= base[c]
       /\ send[c][1].mode = "direct" => hello[c].mode = "adaptive"
       /\ Serves(Tail(send[c]), send[c][1].mode, 0, 0, Place(c), Needed(c), Have)

(* Afterwards: what is under way agrees with what was negotiated.          *)
UpWell(c) ==
  /\ pc[c] \notin {"accepted", "collecting"}
  /\ pc[c] \notin Away =>
       /\ highWater = base[c]
       /\ Serves(send[c], stage, windowHigh, windowFrom, Place(c), Needed(c), Have)

Connected ==
  \A c \in Conns : c = channel =>
    (link = "opening" => OpeningWell(c)) /\ (link = "up" => UpWell(c))

(* What is pending and not ahead of the reader was shown to the app.       *)
ShownInv == \A s \in Pinned(replay) : s <= lastDelivered => replay[s].id \in shown

SessionInv ==
  BridgeInv /\ SessionTypeOK /\ NeverRejectsTheBridge /\ SessionData /\ Connected /\ ShownInv

(***************************************************************************)
(* What the bridge's steps do to a channel                                 *)
(***************************************************************************)
(* Connection c keeps its place in the history of the stream.              *)
SamePlace(c) == base'[c] = base[c] /\ sent'[c] = sent[c] /\ disclosed'[c] = disclosed[c]

LEMMA ChannelMoves ==
  ASSUME TypeOK, QueueInv, [InnerStep]_vars, NEW c \in Conns
  PROVE  \/ SamePlace(c) /\ send'[c] = send[c] /\ (pc'[c] \in Away <=> pc[c] \in Away)
         \/ \E f \in Frames : /\ Live(f) /\ (IsEvent(f) => f.seq = nextSequence + 1)
                              /\ SamePlace(c) /\ send'[c] = Append(send[c], f)
                              /\ pc[c] \notin Away
         \/ pc'[c] \in Away
<1> DEFINE Same == SamePlace(c) /\ send'[c] = send[c] /\ (pc'[c] \in Away <=> pc[c] \in Away)
           Added == \E f \in Frames : /\ Live(f) /\ (IsEvent(f) => f.seq = nextSequence + 1)
                                      /\ SamePlace(c) /\ send'[c] = Append(send[c], f)
                                      /\ pc[c] \notin Away
<1>0. /\ send \in [Conns -> Seq(Frames)] /\ pc \in [Conns -> Idle \cup Working]
      /\ base \in [Conns -> Nat] /\ sent \in [Conns -> Nat] /\ disclosed \in [Conns -> BOOLEAN]
      /\ nextSequence \in Nat
  BY DEF QueueInv, QueueType, TypeOK, HandlerType, WindowType
<1>1. CASE QuietStep
  <2>1. Same  BY <1>1 DEF QuietStep, SameAway, queueVars, SamePlace
  <2> QED  BY <2>1
<1>2. CASE PublishStep
  <2>1. PICK e \in Events : /\ e.kind = "request" => e.id \in ProviderRequests
                            /\ Publish(e) /\ SameAway
    BY <1>2 DEF PublishStep
  <2> DEFINE n == nextSequence + 1
             f == EventFrame(nextSequence + 1, e)
  <2>2. f \in Frames /\ f.seq = nextSequence + 1 /\ f.type = "event"
    <3>1. n \in Nat /\ n > 0  BY <1>0
    <3>2. f = EventFrame(n, e)  OBVIOUS
    <3> HIDE DEF n, f
    <3>3. f \in Frames /\ f.seq = n /\ f.type = "event"
      BY <2>1, <3>1, <3>2, EventFrameIsFrame
    <3> QED  BY <3>3 DEF n
  <2>3. /\ SamePlace(c)
        /\ \/ send'[c] = send[c]
           \/ c \in clients /\ send'[c] = Append(send[c], f)
    BY <2>1 DEF Publish, FanOut, SamePlace
  <2> HIDE DEF f
  <2>4. CASE send'[c] = send[c]
    <3>1. Same  BY <2>1, <2>3, <2>4 DEF SameAway
    <3> QED  BY <3>1
  <2>5. CASE c \in clients /\ send'[c] = Append(send[c], f)
    <3>1. Added  BY <2>2, <2>3, <2>5 DEF QueueInv, AwayIsEmpty, Live
    <3> QED  BY <3>1
  <2> QED  BY <2>3, <2>4, <2>5
<1>3. CASE ReleaseStep
  <2>1. Same  BY <1>3 DEF ReleaseStep, SameAway, queueVars, SamePlace
  <2> QED  BY <2>1
<1>4. ASSUME NEW d \in Conns, CloseConnection(d) PROVE Same \/ pc'[c] \in Away
  BY <1>0, <1>4 DEF CloseConnection, SamePlace, Away
<1>5. ASSUME NEW d \in Conns, Answer(d) PROVE Same \/ Added
  <2> DEFINE f == [type |-> "answer"]
  <2>1. /\ UNCHANGED <<base, sent, disclosed>>
        /\ pc[d] = "answering" /\ pc' = [pc EXCEPT ![d] = "serving"]
        /\ UNCHANGED send \/ send' = [send EXCEPT ![d] = Append(@, f)]
    BY <1>5 DEF Answer
  <2>2. f \in Frames /\ Live(f) /\ ~IsEvent(f)  BY DEF Frames, Marks, Live, IsEvent
  <2> HIDE DEF f
  <2>3. SamePlace(c) /\ (pc'[c] \in Away <=> pc[c] \in Away)
    BY <1>0, <2>1 DEF SamePlace, Away
  <2>4. CASE UNCHANGED send
    BY <2>3, <2>4
  <2>5. CASE send' = [send EXCEPT ![d] = Append(@, f)] /\ c # d
    BY <1>0, <2>3, <2>5
  <2>6. CASE send' = [send EXCEPT ![d] = Append(@, f)] /\ c = d
    <3>1. send'[c] = Append(send[c], f) /\ pc[c] \notin Away
      BY <1>0, <2>1, <2>6 DEF Away
    <3> QED  BY <2>2, <2>3, <3>1
  <2> QED  BY <2>1, <2>4, <2>5, <2>6
<1> QED  BY <1>1, <1>2, <1>3, <1>4, <1>5, StepKinds

(* No step makes a pending request of an older event, and events are       *)
(* numbered one at a time.                                                 *)
LEMMA PinnedMoves ==
  ASSUME BridgeInv, [OpenNext]_vars
  PROVE  /\ nextSequence' \in {nextSequence, nextSequence + 1}
         /\ \A s \in Pinned(replay') :
              \/ s = nextSequence + 1
              \/ s \in Pinned(replay) /\ replay'[s].id = replay[s].id
<1> DEFINE Goal ==
      /\ nextSequence' \in {nextSequence, nextSequence + 1}
      /\ \A s \in Pinned(replay') :
           \/ s = nextSequence + 1
           \/ s \in Pinned(replay) /\ replay'[s].id = replay[s].id
<1> SUFFICES Goal
  OBVIOUS
<1>1. ASSUME UNCHANGED windowVars PROVE Goal
  BY <1>1 DEF windowVars
<1>2. CASE PublishStep
  <2>1. PICK e \in Events : /\ e.kind = "request" => e.id \in ProviderRequests
                            /\ e.pinned => e.kind = "request"
                            /\ Publish(e)
    BY <1>2 DEF PublishStep
  <2>2. \A s \in DOMAIN replay' :
          \/ s = nextSequence + 1 /\ replay'[s] = e
          \/ s \in DOMAIN replay /\ replay'[s] = replay[s]
    BY <2>1, PublishKeepsWindow DEF BridgeInv, QueueInv
  <2>3. nextSequence' = nextSequence + 1  BY <2>1 DEF Publish
  <2> QED  BY <2>2, <2>3 DEF Pinned
<1>3. CASE ReleaseStep
  <2>1. PICK S : \E total : replay' = Trim(Unpin(replay, S), total)
    BY <1>3 DEF ReleaseStep
  <2>2. PICK total : replay' = Trim(Unpin(replay, S), total)
    BY <2>1
  <2>3. Pinned(replay') = Pinned(replay) \ S
        /\ \A s \in Pinned(replay') : replay'[s].id = replay[s].id
    BY <2>2, UnpinPins DEF BridgeInv, TypeOK
  <2>4. nextSequence' = nextSequence  BY <1>3 DEF ReleaseStep
  <2> QED  BY <2>3, <2>4
<1>4. ASSUME NEW c \in Conns, AttachStep(c) \/ CloseConnection(c) \/ Answer(c) \/ WriteFrame(c)
      PROVE  UNCHANGED windowVars
  BY <1>4 DEF AttachStep, Attach, CloseConnection, Answer, WriteFrame
<1> HIDE DEF Goal
<1>5. ASSUME NEW c \in Conns, AttachStep(c) \/ CloseConnection(c) \/ Answer(c) \/ WriteFrame(c)
      PROVE  Goal
  <2>1. UNCHANGED windowVars  BY <1>4, <1>5
  <2> QED  BY <1>1, <2>1
<1>6. CASE [InnerStep]_vars
  <2>1. TypeOK  BY DEF BridgeInv
  <2>2. \/ QuietStep \/ PublishStep \/ ReleaseStep
        \/ \E c \in Conns : CloseConnection(c) \/ Answer(c)
    BY <1>6, <2>1, StepKinds
  <2>3. CASE QuietStep
    <3>1. UNCHANGED windowVars  BY <2>3 DEF QuietStep
    <3> QED  BY <1>1, <3>1
  <2> QED  BY <1>2, <1>3, <1>5, <2>2, <2>3
<1>7. [InnerStep]_vars \/ \E c \in Conns : AttachStep(c) \/ WriteFrame(c)
  BY OpenKinds
<1> QED  BY <1>5, <1>6, <1>7

LEMMA InnerIsOpen ==
  ASSUME [InnerStep]_vars
  PROVE  [OpenNext]_vars
<1>1. InnerStep => OpenNext
  BY DEF InnerStep, OpenNext, OpenStep, Next, ConnectionStep, ClientStep
<1> QED  BY <1>1

(***************************************************************************)
(* Steps of the bridge that the transport has no part in                   *)
(***************************************************************************)
(* The transport keeps its view; nobody connects.                          *)
QuietClient == UNCHANGED <<linkVars, viewVars, hello>>
NoneAccepted == \A c \in Conns : pc'[c] \in {"accepted", "collecting"} => pc'[c] = pc[c]

(* A connection whose place and queue stay needs no more than before.      *)
LEMMA NeedsLess ==
  ASSUME BridgeInv, [OpenNext]_vars, NEW c \in Conns, base'[c] = base[c]
  PROVE  Needed(c)' \subseteq Needed(c)
<1>1. base[c] \in Nat /\ base[c] <= nextSequence /\ nextSequence \in Nat
  BY DEF BridgeInv, QueueInv, QueueType, QueueFlows, TypeOK, WindowType
<1>2. \A s \in Pinned(replay') :
        \/ s = nextSequence + 1
        \/ s \in Pinned(replay) /\ replay'[s].id = replay[s].id
  BY PinnedMoves
<1>3. \A s \in Pinned(replay') : s <= base'[c] =>
        s \in Pinned(replay) /\ s <= base[c] /\ replay'[s].id = replay[s].id
  BY <1>1, <1>2
<1> QED  BY <1>3 DEF Needed

LEMMA ShownGoesOn ==
  ASSUME BridgeInv, ShownInv, [OpenNext]_vars, lastDelivered \in Nat, lastDelivered <= nextSequence,
         lastDelivered' = lastDelivered, shown \subseteq shown'
  PROVE  ShownInv'
<1>1. nextSequence \in Nat  BY DEF BridgeInv, TypeOK, WindowType
<1>2. \A s \in Pinned(replay') :
        \/ s = nextSequence + 1
        \/ s \in Pinned(replay) /\ replay'[s].id = replay[s].id
  BY PinnedMoves
<1> QED  BY <1>1, <1>2 DEF ShownInv

LEMMA ChannelGoesOn ==
  ASSUME SessionInv, [InnerStep]_vars, QuietClient, NoneAccepted, NEW c \in Conns, c = channel
  PROVE  (link = "opening" => OpeningWell(c)') /\ (link = "up" => UpWell(c)')
<1>1. /\ UNCHANGED <<link, lastDelivered, stage, highWater, windowHigh, windowFrom, parked, shown, hello>>
      /\ Have' = Have
  BY DEF QuietClient, linkVars, viewVars, Have
<1>2. /\ TypeOK /\ QueueInv /\ BridgeInv /\ nextSequence \in Nat
      /\ send[c] \in Seq(Frames) /\ base[c] \in Nat /\ base[c] <= nextSequence
      /\ windowFrom \in Nat /\ windowHigh \in Nat
  <2>1. windowHigh \in Nat
    BY DEF SessionInv, SessionTypeOK
  <2> QED
    BY <2>1 DEF SessionInv, BridgeInv, QueueInv, QueueType, QueueFlows, TypeOK, WindowType, SessionTypeOK
<1>3. /\ link = "opening" => OpeningWell(c)
      /\ link = "up" => UpWell(c)
  BY DEF SessionInv, Connected
<1>4. [OpenNext]_vars  BY InnerIsOpen
<1>5. SamePlace(c) => Place(c)' = Place(c) /\ base'[c] = base[c] /\ Needed(c)' \subseteq Needed(c)
  BY <1>1, <1>2, <1>4, NeedsLess DEF SamePlace, Place
<1>6. Place(c).base = base[c]  BY DEF Place
<1>7. pc'[c] \in {"accepted", "collecting"} => pc[c] \in {"accepted", "collecting"}
  BY DEF NoneAccepted
<1>8. CASE pc'[c] \in Away
  <2>1. link = "opening" => OpeningWell(c)'
    BY <1>1, <1>3, <1>8 DEF OpeningWell
  <2>2. link = "up" => UpWell(c)'
    BY <1>3, <1>7, <1>8 DEF UpWell
  <2> QED  BY <2>1, <2>2
<1>9. CASE SamePlace(c) /\ send'[c] = send[c] /\ (pc'[c] \in Away <=> pc[c] \in Away)
  <2>1. ASSUME NEW q, NEW mode, NEW high, NEW from,
               Serves(q, mode, high, from, Place(c), Needed(c), Have)
        PROVE  Serves(q, mode, high, from, Place(c)', Needed(c)', Have')
    BY <1>1, <1>5, <1>9, <2>1, ServesLess
  <2>2. link = "opening" => OpeningWell(c)'
    BY <1>1, <1>3, <1>5, <1>9, <2>1 DEF OpeningWell
  <2>3. link = "up" => UpWell(c)'
    BY <1>1, <1>3, <1>5, <1>7, <1>9, <2>1 DEF UpWell
  <2> QED  BY <2>2, <2>3
<1>10. ASSUME NEW f \in Frames, Live(f), IsEvent(f) => f.seq = nextSequence + 1,
              SamePlace(c), send'[c] = Append(send[c], f), pc[c] \notin Away
       PROVE  (link = "opening" => OpeningWell(c)') /\ (link = "up" => UpWell(c)')
  <2>0. IsEvent(f) => f.seq > Place(c).base  BY <1>2, <1>6, <1>10
  <2>1. ASSUME NEW q \in Seq(Frames), NEW mode, NEW high, NEW from \in Nat,
               Serves(q, mode, high, from, Place(c), Needed(c), Have)
        PROVE  Serves(Append(q, f), mode, high, from, Place(c)', Needed(c)', Have')
    <3>1. Place(c).base \in Nat  BY <1>2, <1>6
    <3>2. Needed(c)' \in SUBSET Needed(c)  BY <1>5, <1>10
    <3> HIDE DEF Serves
    <3>3. Serves(Append(q, f), mode, high, from, Place(c), Needed(c)', Have)
      BY <1>10, <2>0, <2>1, <3>1, <3>2, ServesMore
    <3> QED  BY <1>1, <1>5, <1>10, <3>3
  <2>2. link = "opening" => OpeningWell(c)'
    <3> SUFFICES ASSUME link = "opening" PROVE OpeningWell(c)'
      OBVIOUS
    <3>1. /\ send[c] # <<>> /\ send[c][1].type = "hello"
          /\ send[c][1].high = base[c] /\ lastDelivered <= base[c]
          /\ send[c][1].mode = "direct" => hello[c].mode = "adaptive"
          /\ Serves(Tail(send[c]), send[c][1].mode, 0, 0, Place(c), Needed(c), Have)
          /\ hello[c].lastAck = lastDelivered
      BY <1>3, <1>10 DEF OpeningWell
    <3>2. /\ send'[c] # <<>> /\ send'[c][1] = send[c][1]
          /\ Tail(send'[c]) = Append(Tail(send[c]), f)
      BY <1>2, <1>10, <3>1, TailAppend
    <3>3. Tail(send[c]) \in Seq(Frames)  BY <1>2, <3>1, TailParts
    <3>4. Serves(Tail(send'[c]), send[c][1].mode, 0, 0, Place(c)', Needed(c)', Have')
      BY <2>1, <3>1, <3>2, <3>3
    <3> QED  BY <1>1, <1>5, <1>10, <3>1, <3>2, <3>4 DEF OpeningWell
  <2>3. link = "up" => UpWell(c)'
    BY <1>1, <1>2, <1>3, <1>5, <1>7, <1>10, <2>1 DEF UpWell
  <2> QED  BY <2>2, <2>3
<1> QED  BY <1>2, <1>8, <1>9, <1>10, ChannelMoves

LEMMA InnerKeeps ==
  ASSUME SessionInv, [InnerStep]_vars, QuietClient, NoneAccepted,
         answered' \subseteq ProviderRequests, uplink' \in [Conns -> Seq(Replies)]
  PROVE  SessionInv'
<1>1. UNCHANGED <<link, failure, channel, attempts, lastDelivered, freshBaseline, stage, highWater,
                  windowHigh, windowFrom, parked, shown, excused, hello>>
  BY DEF QuietClient, linkVars, viewVars
<1>2. [OpenNext]_vars  BY InnerIsOpen
<1>3. BridgeInv'  BY <1>2, BridgeInvStep DEF SessionInv
<1>4. nextSequence \in Nat /\ nextSequence' \in {nextSequence, nextSequence + 1}
  BY <1>2, PinnedMoves DEF SessionInv, BridgeInv, TypeOK, WindowType
<1>5. SessionTypeOK'  BY <1>1 DEF SessionInv, SessionTypeOK
<1>6. NeverRejectsTheBridge'  BY <1>1 DEF SessionInv, NeverRejectsTheBridge
<1>7. SessionData'
  <2>1. windowHigh \in Nat  BY DEF SessionInv, SessionTypeOK
  <2>2. \A c \in Conns : hello[c].lastAck \in Nat  BY DEF SessionInv, SessionData
  <2> QED  BY <1>1, <1>4, <2>1, <2>2 DEF SessionInv, SessionData, SessionTypeOK
<1>8. Connected'
  <2> SUFFICES ASSUME NEW c \in Conns, c = channel
               PROVE  (link = "opening" => OpeningWell(c)') /\ (link = "up" => UpWell(c)')
    BY <1>1 DEF Connected
  <2> QED  BY ChannelGoesOn
<1>9. ShownInv'
  BY <1>1, <1>2, ShownGoesOn DEF SessionInv, SessionTypeOK, SessionData
<1> QED  BY <1>3, <1>5, <1>6, <1>7, <1>8, <1>9 DEF SessionInv

(* BridgeStep, the handlers' steps but the attach, input and losses of the *)
(* bridge's side are such steps.                                           *)
LEMMA BridgeSideSteps ==
  ASSUME SessionInv,
         \/ BridgeStep
         \/ \E id \in ProviderRequests : AnswerRequest(id)
         \/ \E c \in Conns : \/ ReceiveUplink(c) \/ BridgeSideLoss(c) \/ HelloLost(c)
                             \/ HandlerStep(c) /\ ~AttachStep(c)
  PROVE  SessionInv'
<1>0. /\ pc \in [Conns -> Idle \cup Working]
      /\ hello \in [Conns -> [lastAck : Nat, mode : {"adaptive", "plain"}]]
      /\ \A c \in Conns : hello[c].lastAck <= nextSequence
      /\ uplink \in [Conns -> Seq(Replies)] /\ answered \subseteq ProviderRequests
      /\ nextSequence \in Nat
  BY DEF SessionInv, BridgeInv, TypeOK, HandlerType, WindowType, SessionData, SessionTypeOK
<1>1. CASE BridgeStep
  <2>1. InnerStep  BY <1>1 DEF BridgeStep, InnerStep
  <2>2. pc' = pc
    BY <1>1 DEF BridgeStep, ReaderStep, WaiterStep, StopperStep, ProviderOutput, ProviderGarbage,
                ProviderEOF, FailState, FailPublish, FailClose, FailStop, ReapProvider, DrainTimeout,
                ProviderExited, PublishExit, StopSignal, StopClose, StopKill, ProviderDies, handlerVars
  <2>3. UNCHANGED clientVars  BY <1>1 DEF BridgeStep
  <2> QED
    BY <1>0, <2>1, <2>2, <2>3, InnerKeeps DEF QuietClient, NoneAccepted, clientVars, wireVars
<1>2. ASSUME NEW id \in ProviderRequests, AnswerRequest(id) PROVE SessionInv'
  <2> DEFINE r == [kind |-> "reply", id |-> id]
  <2>1. /\ UNCHANGED <<vars, linkVars, viewVars, hello>>
        /\ answered' = answered \cup {id}
        /\ uplink' = [uplink EXCEPT ![channel] = Append(@, r)]
    BY <1>2 DEF AnswerRequest
  <2>2. r \in Replies  BY DEF Replies
  <2> HIDE DEF r
  <2>3. uplink' \in [Conns -> Seq(Replies)]
    BY <1>0, <2>1, <2>2, AppendProperties
  <2>4. pc' = pc  BY <2>1 DEF vars, handlerVars
  <2> QED  BY <1>0, <2>1, <2>3, <2>4, InnerKeeps DEF QuietClient, NoneAccepted
<1>3. ASSUME NEW c \in Conns, ReceiveUplink(c) PROVE SessionInv'
  <2>1. /\ uplink[c] # <<>> /\ ReceiveInput(c, Head(uplink[c]))
        /\ uplink' = [uplink EXCEPT ![c] = Tail(@)]
        /\ UNCHANGED <<linkVars, viewVars, hello, answered>>
    BY <1>3 DEF ReceiveUplink
  <2>2. Head(uplink[c]) \in Replies /\ Tail(uplink[c]) \in Seq(Replies)
    BY <1>0, <2>1, TailParts
  <2>3. Head(uplink[c]) \in ClientMessages  BY <2>2 DEF Replies, ClientMessages
  <2>4. InnerStep  BY <2>1, <2>3 DEF InnerStep
  <2>5. uplink' \in [Conns -> Seq(Replies)]  BY <1>0, <2>1, <2>2
  <2>6. \E p \in {"answering", "leased"} : pc' = [pc EXCEPT ![c] = p]
    BY <2>1, Zenon DEF ReceiveInput
  <2>7. NoneAccepted  BY <1>0, <2>6 DEF NoneAccepted
  <2> QED  BY <1>0, <2>1, <2>4, <2>5, <2>7, InnerKeeps DEF QuietClient
<1>4. ASSUME NEW c \in Conns, BridgeSideLoss(c) PROVE SessionInv'
  <2>1. DetachClient(c) /\ UNCHANGED <<linkVars, viewVars, wireVars>>
    BY <1>4 DEF BridgeSideLoss
  <2>2. InnerStep  BY <2>1 DEF InnerStep
  <2>3. pc' = pc  BY <2>1 DEF DetachClient, handlerVars
  <2> QED  BY <1>0, <2>1, <2>2, <2>3, InnerKeeps DEF QuietClient, NoneAccepted, wireVars
<1>5. ASSUME NEW c \in Conns, HelloLost(c) PROVE SessionInv'
  <2>1. Hangup(c) /\ UNCHANGED clientVars  BY <1>5 DEF HelloLost
  <2>2. InnerStep  BY <2>1 DEF InnerStep
  <2>3. NoneAccepted  BY <1>0, <2>1 DEF Hangup, NoneAccepted
  <2> QED  BY <1>0, <2>1, <2>2, <2>3, InnerKeeps DEF QuietClient, clientVars, wireVars
<1>6. ASSUME NEW c \in Conns, HandlerStep(c), ~AttachStep(c) PROVE SessionInv'
  <2>1. UNCHANGED clientVars  BY <1>6 DEF HandlerStep
  <2>2. ~Attach(c, hello[c].lastAck, hello[c].mode)
    <3>1. hello[c].lastAck \in 0 .. nextSequence /\ hello[c].mode \in {"plain", "pending", "adaptive"}
      BY <1>0
    <3> QED  BY <1>6, <3>1 DEF AttachStep
  <2>3. \/ CloseConnection(c) \/ Answer(c) \/ PassCache(c) \/ TrackRequest(c) \/ WriteProvider(c)
        \/ WriteFails(c) \/ UntrackRequest(c) \/ ObserveMessage(c)
    BY <1>6, <2>2 DEF HandlerStep
  <2>4. InnerStep  BY <2>3 DEF InnerStep
  <2>5. \E p \in {"idle", "serving", "uncached", "tracked", "written", "unwritten", "answering"} :
          pc' = [pc EXCEPT ![c] = p]
    BY <2>3, Zenon DEF CloseConnection, Answer, PassCache, TrackRequest, WriteProvider, WriteFails,
                UntrackRequest, ObserveMessage
  <2>6. NoneAccepted  BY <1>0, <2>5 DEF NoneAccepted
  <2> QED  BY <1>0, <2>1, <2>4, <2>6, InnerKeeps DEF QuietClient, clientVars, wireVars
<1> QED  BY <1>1, <1>2, <1>3, <1>4, <1>5, <1>6

(***************************************************************************)
(* Channels lost and opened                                                *)
(***************************************************************************)
(* With no channel there is nothing to agree on.                           *)
LEMMA DownKeeps ==
  ASSUME SessionInv, UNCHANGED vars, link' \in {"down", "failed"}, SessionTypeOK',
         NeverRejectsTheBridge', SessionData',
         \/ lastDelivered' = lastDelivered /\ shown' = shown
         \/ lastDelivered' = 0
  PROVE  SessionInv'
<1>1. BridgeInv'  BY BridgeInvStep DEF SessionInv
<1>2. Connected'  BY DEF Connected
<1>3. replay' = replay  BY DEF vars, windowVars
<1>4. \A s \in Pinned(replay) : s \in Nat /\ s > 0
  BY DEF SessionInv, BridgeInv, TypeOK, WindowType, Pinned
<1>5. ShownInv'
  BY <1>3, <1>4 DEF ShownInv, SessionInv
<1> QED  BY <1>1, <1>2, <1>5 DEF SessionInv

LEMMA LossSteps ==
  ASSUME SessionInv, OpenFails \/ ChannelLoss \/ ChannelDone \/ RestartApp
  PROVE  SessionInv'
<1>0. SessionTypeOK /\ NeverRejectsTheBridge /\ SessionData /\ nextSequence \in Nat /\ attempts \in Nat
      /\ MaxAttempts \in Nat
  BY SessionAssumption DEF SessionInv, SessionTypeOK, BridgeInv, TypeOK, WindowType
<1>1. ASSUME Retry
      PROVE  /\ link' \in {"down", "failed"} /\ attempts' \in 0 .. MaxAttempts
             /\ failure' \in {failure, "sshChannel"}
  BY <1>0, <1>1 DEF Retry, SessionTypeOK
<1>2. ASSUME UNCHANGED vars PROVE nextSequence' = nextSequence
  BY <1>2 DEF vars, windowVars
<1>3. CASE OpenFails
  <2>1. Retry /\ UNCHANGED <<vars, channel, lastDelivered, freshBaseline, stage, highWater, windowHigh,
                             windowFrom, parked, shown, excused, hello, uplink, answered>>
    BY <1>3 DEF OpenFails, viewVars, wireVars
  <2>2. SessionTypeOK'  BY <1>0, <1>1, <2>1 DEF SessionTypeOK
  <2>3. NeverRejectsTheBridge'  BY <1>0, <1>1, <2>1 DEF NeverRejectsTheBridge
  <2>4. SessionData'  BY <1>0, <1>2, <2>1 DEF SessionData
  <2> QED  BY <1>1, <2>1, <2>2, <2>3, <2>4, DownKeeps
<1>4. CASE ChannelLoss \/ ChannelDone
  <2>1. /\ Retry /\ UNCHANGED <<vars, lastDelivered, freshBaseline, stage, shown, excused, hello, uplink,
                                answered>>
        /\ channel' = NoClient /\ parked' = <<>> /\ highWater' = 0 /\ windowHigh' = 0 /\ windowFrom' = 0
    BY <1>4 DEF ChannelLoss, ChannelDone, LoseChannel, wireVars
  <2>2. SessionTypeOK'  BY <1>0, <1>1, <2>1 DEF SessionTypeOK
  <2>3. NeverRejectsTheBridge'  BY <1>0, <1>1, <2>1 DEF NeverRejectsTheBridge
  <2>4. SessionData'  BY <1>0, <1>2, <2>1 DEF SessionData, SessionTypeOK
  <2> QED  BY <1>1, <2>1, <2>2, <2>3, <2>4, DownKeeps
<1>5. CASE RestartApp
  <2>1. /\ link' = "down" /\ failure' = "none" /\ channel' = NoClient /\ attempts' = 0
        /\ lastDelivered' = 0 /\ freshBaseline' = FALSE /\ stage' = "plain"
        /\ highWater' = 0 /\ windowHigh' = 0 /\ windowFrom' = 0 /\ parked' = <<>>
        /\ shown' = {} /\ excused' = 0 /\ answered' = {}
        /\ UNCHANGED <<vars, hello, uplink>>
    BY <1>5 DEF RestartApp
  <2>2. SessionTypeOK'  BY <1>0, <2>1 DEF SessionTypeOK
  <2>3. NeverRejectsTheBridge'  BY <2>1 DEF NeverRejectsTheBridge
  <2>4. SessionData'  BY <1>0, <1>2, <2>1 DEF SessionData
  <2> QED  BY <2>1, <2>2, <2>3, <2>4, DownKeeps
<1> QED  BY <1>3, <1>4, <1>5

LEMMA OpenStepKeeps ==
  ASSUME SessionInv, NEW c \in Conns, OpenChannel(c)
  PROVE  SessionInv'
<1>1. /\ Accept(c) /\ link' = "opening" /\ channel' = c /\ stage' = "plain"
      /\ hello' = [hello EXCEPT ![c] =
           [lastAck |-> lastDelivered,
            mode |-> IF ~freshBaseline /\ lastDelivered = 0 THEN "adaptive" ELSE "plain"]]
      /\ uplink' = [uplink EXCEPT ![c] = <<>>]
      /\ UNCHANGED <<failure, attempts, lastDelivered, freshBaseline, highWater,
                     windowHigh, windowFrom, parked, shown, answered, excused>>
  BY DEF OpenChannel
<1>2. /\ UNCHANGED <<nextSequence, replay>> /\ pc' = [pc EXCEPT ![c] = "accepted"]
  BY <1>1 DEF Accept, windowVars
<1>3. [OpenNext]_vars  BY <1>1, InnerIsOpen DEF InnerStep
<1>4. BridgeInv'  BY <1>3, BridgeInvStep DEF SessionInv
<1>5. SessionTypeOK'
  <2>1. c # NoClient  BY BridgeAssumption
  <2> QED  BY <1>1, <2>1 DEF SessionInv, SessionTypeOK
<1>6. NeverRejectsTheBridge'  BY <1>1 DEF SessionInv, NeverRejectsTheBridge
<1>7. hello'[c].lastAck = lastDelivered
  BY <1>1 DEF SessionInv, SessionData
<1>8. SessionData'
  <2> DEFINE h == [lastAck |-> lastDelivered,
                   mode |-> IF ~freshBaseline /\ lastDelivered = 0 THEN "adaptive" ELSE "plain"]
  <2>1. h \in [lastAck : Nat, mode : {"adaptive", "plain"}] /\ h.lastAck = lastDelivered
    BY DEF SessionInv, SessionTypeOK
  <2>2. hello' = [hello EXCEPT ![c] = h]  BY <1>1
  <2> HIDE DEF h
  <2>3. hello' \in [Conns -> [lastAck : Nat, mode : {"adaptive", "plain"}]]
        /\ \A d \in Conns : hello'[d].lastAck <= nextSequence
    BY <2>1, <2>2 DEF SessionInv, SessionData
  <2>4. uplink' \in [Conns -> Seq(Replies)]
    BY <1>1, EmptySeq DEF SessionInv, SessionData
  <2> QED  BY <1>1, <1>2, <2>3, <2>4 DEF SessionInv, SessionData
<1>9. pc'[c] \in Away
  BY <1>2 DEF SessionInv, BridgeInv, TypeOK, HandlerType, Away
<1>10. Connected'
  BY <1>1, <1>7, <1>9 DEF Connected, OpeningWell
<1>11. ShownInv'
  BY <1>1, <1>2 DEF SessionInv, ShownInv
<1> QED  BY <1>4, <1>5, <1>6, <1>8, <1>10, <1>11 DEF SessionInv

(***************************************************************************)
(* The attach                                                              *)
(***************************************************************************)
(* What an attach puts under way serves the transport that asked for it.   *)
LEMMA PrimedServes ==
  ASSUME TypeOK, PendingIsPinned, WindowKept, NEW c, NEW lastAck \in 0 .. nextSequence,
         NEW requested \in {"adaptive", "plain"}, NEW mode,
         mode = ReplayMode(replay, replayBytes, lastAck, nextSequence, requested),
         NEW q, q = Primed(c, lastAck, mode), NEW have,
         NEW p, p.sent = IF mode = "pending" THEN nextSequence ELSE lastAck,
         p.base = nextSequence, p.last = lastAck,
         p.told <=> mode = "pending" \/ ReplayIncomplete(replay, lastAck, nextSequence)
  PROVE  /\ q # <<>> /\ q[1].type = "hello" /\ q[1].mode = mode /\ q[1].high = nextSequence
         /\ mode = "direct" => requested = "adaptive"
         /\ Serves(Tail(q), mode, 0, 0, p, pendingRequests, have)
<1> DEFINE t == Tail(q)
<1>1. mode \in Offers  BY OfferedModes
<1>2. mode = "direct" => requested = "adaptive" /\ ~ReplayIncomplete(replay, lastAck, nextSequence)
  BY Zenon DEF ReplayMode
<1>3. nextSequence \in Nat /\ lastAck \in Nat /\ lastAck <= nextSequence
  BY DEF TypeOK, WindowType
<1>4. \A h \in Hellos : h.type = "hello"  BY DEF Hellos
<1>5. CASE mode = "pending"
  <2>0. q = Primed(c, lastAck, "pending")  BY <1>5
  <2>1. PICK l : l = Len(q)  OBVIOUS
  <2> HIDE DEF t
  <2>2. /\ q \in Seq(Frames) /\ l \in Nat /\ l >= 2 /\ DOMAIN q = 1 .. l
        /\ q[1] = HelloFrame(c, "pending")
        /\ q[l] = [type |-> "replay_end"]
        /\ \A i \in 2 .. l - 1 : q[i] \in Pendings /\ q[i].id \in pendingRequests
        /\ \A x \in pendingRequests : \E i \in 2 .. l - 1 : q[i].id = x
    <3>1. /\ q \in Seq(Frames) /\ Len(q) \in Nat /\ Len(q) >= 2 /\ DOMAIN q = 1 .. Len(q)
          /\ q[1] = HelloFrame(c, "pending")
          /\ q[Len(q)] = [type |-> "replay_end"]
          /\ \A i \in 2 .. Len(q) - 1 : q[i] \in Pendings /\ q[i].id \in pendingRequests
          /\ \A x \in pendingRequests : \E i \in 2 .. Len(q) - 1 : q[i].id = x
      <4> DEFINE r == Primed(c, lastAck, "pending")
      <4>1. /\ r \in Seq(Frames) /\ Len(r) \in Nat /\ Len(r) >= 2 /\ DOMAIN r = 1 .. Len(r)
            /\ r[1] = HelloFrame(c, "pending")
            /\ r[Len(r)] = [type |-> "replay_end"]
            /\ \A i \in 2 .. Len(r) - 1 : r[i] \in Pendings /\ r[i].id \in pendingRequests
            /\ \A x \in pendingRequests : \E i \in 2 .. Len(r) - 1 : r[i].id = x
        BY PrimedPending
      <4>2. q = r  BY <2>0
      <4> HIDE DEF r
      <4> QED  BY <4>1, <4>2
    <3> QED  BY <2>1, <3>1
  <2>3. q # <<>>  BY <2>2, EmptySeq
  <2>4. q[1].type = "hello" /\ q[1].mode = mode /\ q[1].high = nextSequence
    BY <1>4, <1>5, <2>2, HelloIsFrame DEF Offers
  <2>5. DOMAIN t = 1 .. l - 1 /\ \A i \in DOMAIN t : t[i] = q[i + 1]
    BY <2>1, <2>2, <2>3, TailParts DEF t
  <2>6. l - 1 \in DOMAIN t /\ t[l - 1] = q[l]
    BY <2>2, <2>5
  <2>7. \A r \in Pendings : r.type = "pending"  BY DEF Pendings
  <2>8. \A i \in DOMAIN t : i # l - 1 => i + 1 \in 2 .. l - 1
    BY <2>2, <2>5
  <2>9. Ends(t)
    <3>1. t[l - 1].type = "replay_end"  BY <2>2, <2>6
    <3>2. ASSUME NEW i \in DOMAIN t
          PROVE  (i < l - 1 => t[i].type = "pending") /\ (i > l - 1 => Live(t[i]))
      <4>1. ~(i > l - 1)  BY <2>2, <2>5
      <4>2. i < l - 1 => t[i] \in Pendings  BY <2>2, <2>5, <2>8
      <4> QED  BY <2>7, <4>1, <4>2
    <3> QED  BY <2>6, <3>1, <3>2 DEF Ends
  <2>10. Promises(t, pendingRequests, have)
    <3> SUFFICES ASSUME NEW x \in pendingRequests
                 PROVE  \E i \in DOMAIN t : t[i].type = "pending" /\ t[i].id = x
      BY DEF Promises
    <3>1. PICK i \in 2 .. l - 1 : q[i].id = x  BY <2>2
    <3>2. q[i].type = "pending"  BY <2>2, <2>7
    <3>3. i - 1 \in DOMAIN t /\ t[i - 1] = q[i]  BY <2>2, <2>5
    <3> QED  BY <3>1, <3>2, <3>3
  <2>11. PendingRuns(t, p)  BY <1>3, <1>5, <2>9 DEF PendingRuns
  <2>12. Serves(t, mode, 0, 0, p, pendingRequests, have)
    BY <1>5, <2>10, <2>11 DEF Serves
  <2> QED  BY <1>2, <2>3, <2>4, <2>12 DEF t
<1>6. CASE mode \in {"plain", "direct"}
  <2> DEFINE gap == ReplayIncomplete(replay, lastAck, nextSequence)
             from == RetainedFrom(replay, nextSequence)
  <2>1. /\ q \in Seq(Frames) /\ q # <<>> /\ q[1] = HelloFrame(c, mode)
        /\ gap => /\ from \in 1 .. nextSequence
                  /\ 2 \in DOMAIN q /\ q[2] = [type |-> "overflow", from |-> from]
        /\ \A i \in DOMAIN q : i = 1 \/ (gap /\ i = 2) \/ (IsEvent(q[i]) /\ (gap => q[i].seq >= from))
        /\ Flows(q, lastAck, {s \in 1 .. nextSequence : gap /\ s \notin DOMAIN replay}, nextSequence)
    <3> DEFINE r == Primed(c, lastAck, mode)
               gone == {s \in 1 .. nextSequence : gap /\ s \notin DOMAIN replay}
    <3>1. /\ r \in Seq(Frames) /\ r # <<>> /\ r[1] = HelloFrame(c, mode)
          /\ gap => /\ from \in 1 .. nextSequence
                    /\ 2 \in DOMAIN r /\ r[2] = [type |-> "overflow", from |-> from]
          /\ \A i \in DOMAIN r : i = 1 \/ (gap /\ i = 2) \/ (IsEvent(r[i]) /\ (gap => r[i].seq >= from))
          /\ Flows(r, lastAck, gone, nextSequence)
      BY <1>6, PrimedReplay, ZenonT(30)
    <3>2. q = r  OBVIOUS
    <3> HIDE DEF r, gap, from, gone
    <3> QED  BY <3>1, <3>2 DEF gone
  <2>2. q[1].type = "hello" /\ q[1].mode = mode /\ q[1].high = nextSequence
    BY <1>1, <1>4, <2>1, HelloIsFrame
  <2>3. (p.told <=> gap) /\ p.sent = lastAck /\ (mode = "direct" => ~gap)
    <3>1. mode # "pending"  BY <1>6
    <3> QED  BY <1>2, <3>1
  <2> HIDE DEF gap, from
  <2>4. /\ Len(q) \in Nat /\ DOMAIN q = 1 .. Len(q) /\ DOMAIN t = 1 .. Len(q) - 1
        /\ \A i \in DOMAIN t : t[i] = q[i + 1]
        /\ \A i : i \in EventsIn(t) <=> i \in Nat \ {0} /\ i + 1 \in EventsIn(q)
        /\ t \in Seq(Frames) /\ Len(t) = Len(q) - 1
    BY <2>1, TailParts
  <2>5. \A i \in EventsIn(q) : q[i].seq \in Nat  BY <2>1 DEF Flows, InOrder
  <2> HIDE DEF t
  <2>6. \A i \in DOMAIN t : (gap /\ i = 1) \/ (IsEvent(t[i]) /\ (gap => t[i].seq >= from))
    BY <2>1, <2>4
  <2>7. gap => 1 \in DOMAIN t /\ t[1] = q[2]  BY <2>1, <2>4
  <2>8. Announced(t) <=> gap
    <3>1. gap => Announced(t)  BY <2>1, <2>4, <2>7, EmptySeq DEF Announced
    <3>2. Announced(t) => gap
      <4>1. t # <<>> => 1 \in DOMAIN t  BY <2>4, EmptySeq
      <4> QED  BY <2>6, <4>1 DEF Announced, IsEvent
    <3> QED  BY <3>1, <3>2
  <2>9. gap => /\ t[1].from = from /\ from \in 1 .. nextSequence
               /\ \A i \in EventsIn(t) : from <= t[i].seq
    <3> SUFFICES ASSUME gap, NEW i \in EventsIn(t) PROVE from <= t[i].seq
      BY <2>1, <2>7
    <3>1. i \in DOMAIN t /\ t[i] = q[i + 1] /\ i + 1 \in EventsIn(q) /\ IsEvent(t[i])
      BY <2>4 DEF EventsIn
    <3>2. i # 1  BY <2>1, <2>7, <3>1 DEF IsEvent
    <3>3. t[i].seq \in Nat /\ t[i].seq >= from /\ from \in Nat  BY <2>1, <2>5, <2>6, <3>1, <3>2
    <3> QED  BY <3>3
  <2>10. \A i \in DOMAIN t : Live(t[i]) \/ (i = 1 /\ Announced(t))
    BY <2>6, <2>8 DEF Live, IsEvent
  <2>11. PlainRuns(t, mode, 0, 0, p)
    BY <1>3, <2>3, <2>8, <2>9, <2>10 DEF PlainRuns
  <2>12. Serves(t, mode, 0, 0, p, pendingRequests, have)
    BY <1>6, <2>11 DEF Serves
  <2> QED  BY <1>2, <2>1, <2>2, <2>12 DEF t
<1> QED  BY <1>1, <1>5, <1>6 DEF Offers

LEMMA AttachKeeps ==
  ASSUME SessionInv, NEW d \in Conns, HandlerStep(d), AttachStep(d)
  PROVE  SessionInv'
<1>1. UNCHANGED <<link, failure, channel, attempts, lastDelivered, freshBaseline, stage, highWater,
                  windowHigh, windowFrom, parked, shown, excused, hello, uplink, answered>>
      /\ Have' = Have
  BY DEF HandlerStep, clientVars, linkVars, viewVars, wireVars, Have
<1>2. [OpenNext]_vars
  <2>1. OpenNext  BY DEF AttachStep, OpenNext, OpenStep
  <2> QED  BY <2>1
<1>3. BridgeInv'  BY <1>2, BridgeInvStep DEF SessionInv
<1>4. PICK lastAck \in 0 .. nextSequence, requested \in {"plain", "pending", "adaptive"} :
        Attach(d, lastAck, requested)
  BY DEF AttachStep
<1>5. UNCHANGED <<nextSequence, replay, replayBytes>> /\ pc[d] = "accepted"
  BY <1>4 DEF Attach, windowVars
<1>6. Attach(d, hello[d].lastAck, hello[d].mode)
  BY <1>5, Zenon DEF HandlerStep, CloseConnection, Answer, PassCache, TrackRequest, WriteProvider,
     WriteFails, UntrackRequest, ObserveMessage
<1>7. SessionTypeOK'  BY <1>1 DEF SessionInv, SessionTypeOK
<1>8. NeverRejectsTheBridge'  BY <1>1 DEF SessionInv, NeverRejectsTheBridge
<1>9. SessionData'  BY <1>1, <1>5 DEF SessionInv, SessionData
<1>10. ShownInv'  BY <1>1, <1>5 DEF SessionInv, ShownInv
<1>11. /\ pc \in [Conns -> Idle \cup Working] /\ nextSequence \in Nat
       /\ send \in [Conns -> Seq(Frames)] /\ base \in [Conns -> Nat] /\ sent \in [Conns -> Nat]
       /\ disclosed \in [Conns -> BOOLEAN]
       /\ hello[d].lastAck \in 0 .. nextSequence /\ hello[d].mode \in {"adaptive", "plain"}
  BY DEF SessionInv, BridgeInv, TypeOK, HandlerType, WindowType, SessionData, QueueInv, QueueType
<1>12. pendingRequests = {replay[s].id : s \in Pinned(replay)}
  BY DEF SessionInv, BridgeInv, PendingIsPinned
<1>13. CASE state = "stopped"
  <2>1. pc' = [pc EXCEPT ![d] = "idle"] /\ UNCHANGED <<send, base, sent, disclosed>>
    BY <1>6, <1>13 DEF Attach, queueVars
  <2>2. ASSUME NEW c \in Conns, c = channel
        PROVE  (link = "opening" => OpeningWell(c)') /\ (link = "up" => UpWell(c)')
    <3>1. Place(c)' = Place(c) /\ Needed(c)' = Needed(c)
      BY <1>1, <1>5, <2>1 DEF Place, Needed
    <3>2. pc'[c] = IF c = d THEN "idle" ELSE pc[c]  BY <1>11, <2>1
    <3>3. "idle" \in Away  BY DEF Away
    <3>4. /\ link = "opening" => OpeningWell(c)
          /\ link = "up" => UpWell(c)
      BY <2>2 DEF SessionInv, Connected
    <3> QED  BY <1>1, <2>1, <3>1, <3>2, <3>3, <3>4 DEF OpeningWell, UpWell
  <2>3. Connected'  BY <1>1, <2>2 DEF Connected
  <2> QED  BY <1>3, <1>7, <1>8, <1>9, <1>10, <2>3 DEF SessionInv
<1>14. CASE state # "stopped"
  <2> DEFINE mode == ReplayMode(replay, replayBytes, hello[d].lastAck, nextSequence, hello[d].mode)
             q == Primed(d, hello[d].lastAck, mode)
             from == IF mode = "pending" THEN nextSequence ELSE hello[d].lastAck
             gap == mode = "pending" \/ ReplayIncomplete(replay, hello[d].lastAck, nextSequence)
  <2>1. /\ send' = [send EXCEPT ![d] = q]
        /\ base' = [base EXCEPT ![d] = nextSequence]
        /\ sent' = [sent EXCEPT ![d] = from]
        /\ disclosed' = [disclosed EXCEPT ![d] = gap]
        /\ pc' = [pc EXCEPT ![d] = "serving"]
    BY <1>6, <1>14 DEF Attach, Register
  <2>2. ASSUME NEW c \in Conns, c = channel
        PROVE  (link = "opening" => OpeningWell(c)') /\ (link = "up" => UpWell(c)')
    <3>4. /\ link = "opening" => OpeningWell(c)
          /\ link = "up" => UpWell(c)
      BY <2>2 DEF SessionInv, Connected
    <3>5. CASE c # d
      <4>1. /\ pc'[c] = pc[c] /\ send'[c] = send[c] /\ base'[c] = base[c] /\ sent'[c] = sent[c]
            /\ disclosed'[c] = disclosed[c]
        <5> HIDE DEF mode, q, from, gap
        <5> QED  BY <1>11, <2>1, <3>5
      <4>2. Place(c)' = Place(c) /\ Needed(c)' = Needed(c)
        BY <1>1, <1>5, <4>1 DEF Place, Needed
      <4> QED  BY <1>1, <3>4, <4>1, <4>2 DEF OpeningWell, UpWell
    <3>6. CASE c = d
      <4>1. link # "up"  BY <1>5, <3>4, <3>6 DEF UpWell
      <4> SUFFICES ASSUME link = "opening" PROVE OpeningWell(c)'
        BY <4>1
      <4>2. hello[c].lastAck = lastDelivered  BY <3>4 DEF OpeningWell
      <4> DEFINE p == Place(c)'
      <4>3. /\ send'[c] = q /\ base'[c] = nextSequence /\ sent'[c] = from /\ disclosed'[c] = gap
        <5> HIDE DEF mode, q, from, gap
        <5> QED  BY <1>11, <2>1, <3>6
      <4>4. p.sent = from /\ p.base = nextSequence /\ p.last = hello[d].lastAck /\ (p.told <=> gap)
        BY <1>1, <3>6, <4>2, <4>3 DEF Place
      <4>5. TypeOK /\ PendingIsPinned /\ WindowKept
        BY DEF SessionInv, BridgeInv, QueueInv
      <4> DEFINE ack == hello[d].lastAck
                 want == hello[d].mode
      <4>51. /\ ack \in 0 .. nextSequence /\ want \in {"adaptive", "plain"}
             /\ mode = ReplayMode(replay, replayBytes, ack, nextSequence, want)
             /\ q = Primed(d, ack, mode)
        BY <1>11
      <4>52. /\ p.sent = IF mode = "pending" THEN nextSequence ELSE ack
             /\ p.base = nextSequence /\ p.last = ack
             /\ p.told <=> mode = "pending" \/ ReplayIncomplete(replay, ack, nextSequence)
        <5> HIDE DEF mode, p, q
        <5> QED  BY <4>4
      <4> HIDE DEF mode, p, q, ack, want
      <4>53. /\ q # <<>> /\ q[1].type = "hello" /\ q[1].mode = mode /\ q[1].high = nextSequence
             /\ mode = "direct" => want = "adaptive"
             /\ Serves(Tail(q), mode, 0, 0, p, pendingRequests, Have)
        BY <4>5, <4>51, <4>52, PrimedServes, SMTT(60)
      <4>6. /\ q # <<>> /\ q[1].type = "hello" /\ q[1].mode = mode /\ q[1].high = nextSequence
            /\ mode = "direct" => hello[d].mode = "adaptive"
            /\ Serves(Tail(q), mode, 0, 0, p, pendingRequests, Have)
        BY <4>53 DEF want
      <4>7. Needed(c)' \subseteq pendingRequests
        BY <1>5, <1>12 DEF Needed
      <4>8. Serves(Tail(q), mode, 0, 0, p, Needed(c)', Have')
        BY <1>1, <4>6, <4>7, ServesLess
      <4>9. lastDelivered <= nextSequence  BY DEF SessionInv, SessionData
      <4> QED  BY <1>1, <3>6, <4>2, <4>3, <4>6, <4>8, <4>9 DEF OpeningWell, p
    <3> QED  BY <3>5, <3>6
  <2>3. Connected'  BY <1>1, <2>2 DEF Connected
  <2> QED  BY <1>3, <1>7, <1>8, <1>9, <1>10, <2>3 DEF SessionInv
<1> QED  BY <1>13, <1>14

(***************************************************************************)
(* Frames the transport reads                                              *)
(***************************************************************************)
(* What Handle does to it, one operator for each kind of frame.            *)
GivesUp ==
  /\ link' = "failed" /\ failure' \in {"nonWriter", "bridgeError", "providerInvalid"}
  /\ UNCHANGED <<channel, attempts, viewVars>>

StaysUp == link' = "up" /\ failure' = failure /\ UNCHANGED <<channel, attempts>>

GotHello(f) ==
  /\ link = "opening" /\ f.type = "hello"
  /\ \/ link' = "up" /\ attempts' = 0 /\ failure' = failure
     \/ link' = "failed" /\ attempts' = attempts /\ failure' = "providerExited"
  /\ stage' = IF f.mode = "direct" /\ f.high = lastDelivered THEN "plain" ELSE f.mode
  /\ highWater' = f.high /\ windowHigh' = 0 /\ windowFrom' = 0
  /\ UNCHANGED <<channel, lastDelivered, parked, shown, excused>>

GotOverflow(f) ==
  /\ link = "up" /\ f.type = "overflow" /\ stage # "pending" /\ StaysUp
  /\ lastDelivered <= highWater
  /\ windowHigh' = IF highWater > lastDelivered THEN highWater ELSE 0
  /\ windowFrom' = IF highWater > lastDelivered THEN f.from ELSE 0
  /\ excused' = IF highWater > excused THEN highWater ELSE excused
  /\ UNCHANGED <<lastDelivered, stage, highWater, parked, shown>>

GotPending(f) ==
  /\ link = "up" /\ f.type = "pending" /\ stage = "pending" /\ StaysUp
  /\ parked' = Append(parked, f.id)
  /\ UNCHANGED <<lastDelivered, stage, highWater, windowHigh, windowFrom, shown, excused>>

GotEnd(f) ==
  /\ link = "up" /\ f.type = "replay_end" /\ stage = "pending" /\ StaysUp
  /\ lastDelivered <= highWater
  /\ lastDelivered' = highWater /\ excused' = highWater /\ stage' = "plain"
  /\ shown' = shown \cup ToSet(parked) /\ parked' = <<>>
  /\ UNCHANGED <<highWater, windowHigh, windowFrom>>

GotEvent(f) ==
  /\ link = "up" /\ f.type = "event" /\ stage # "pending"
  /\ Acceptable(f.seq) /\ CommitSequence(f.seq)
  /\ shown' = IF f.kind = "request" THEN shown \cup {f.id} ELSE shown
  /\ StaysUp \/ (/\ link' = "failed" /\ failure' \in {"providerExited", "providerInvalid"}
                 /\ UNCHANGED <<channel, attempts>>)
  /\ UNCHANGED <<highWater, parked, excused>>

(* Output that is no object: the window it ends may be closed, no more.    *)
GotBare(f) ==
  /\ link = "up" /\ stage # "pending"
  /\ link' = "failed" /\ failure' = "providerInvalid" /\ UNCHANGED <<channel, attempts>>
  /\ \/ UNCHANGED <<lastDelivered, windowHigh, windowFrom>>
     \/ /\ windowHigh # 0 /\ f.seq = windowHigh + 1
        /\ lastDelivered' = windowHigh /\ windowHigh' = 0 /\ windowFrom' = 0
  /\ f.type = "event"
  /\ UNCHANGED <<stage, highWater, parked, shown, excused>>

(* The place of the connection the transport reads.                        *)
LEMMA Reading ==
  ASSUME SessionInv, NEW c \in Conns, c = channel, send[c] # <<>>, link \in {"opening", "up"}
  PROVE  /\ TypeOK /\ QueueInv /\ nextSequence \in Nat
         /\ send[c] \in Seq(Frames) /\ send[c][1] \in Frames /\ Head(send[c]) = send[c][1]
         /\ base[c] \in Nat /\ base[c] <= nextSequence /\ sent[c] \in Nat
         /\ disclosed[c] \in BOOLEAN /\ pc[c] \notin Away
         /\ Flows(send[c], sent[c], Gone(c), nextSequence) /\ Faithful(send[c], replay)
         /\ \A s \in Gone(c) : s <= base[c] /\ disclosed[c] /\ s \notin DOMAIN replay
         /\ lastDelivered \in Nat /\ highWater \in Nat /\ windowHigh \in Nat /\ excused \in Nat
         /\ windowFrom \in 0 .. windowHigh /\ (windowHigh # 0 => lastDelivered < windowHigh)
         /\ stage \in Offers
         /\ link = "opening" =>
              /\ send[c][1].type = "hello"
              /\ send[c][1].high = base[c] /\ lastDelivered <= base[c]
              /\ send[c][1].mode = "direct" => hello[c].mode = "adaptive"
              /\ Serves(Tail(send[c]), send[c][1].mode, 0, 0, Place(c), Needed(c), Have)
         /\ link = "up" =>
              /\ highWater = base[c]
              /\ Serves(send[c], stage, windowHigh, windowFrom, Place(c), Needed(c), Have)
<1>1. TypeOK /\ QueueInv /\ nextSequence \in Nat
  BY DEF SessionInv, BridgeInv, TypeOK, WindowType
<1>2. /\ send[c] \in Seq(Frames) /\ base[c] \in Nat /\ base[c] <= nextSequence /\ sent[c] \in Nat
      /\ disclosed[c] \in BOOLEAN /\ pc[c] \notin Away
      /\ Flows(send[c], sent[c], Gone(c), nextSequence) /\ Faithful(send[c], replay)
  BY <1>1 DEF QueueInv, QueueType, QueueFlows, AwayIsEmpty
<1>3. send[c][1] \in Frames /\ Head(send[c]) = send[c][1]
  BY <1>2, TailParts
<1>4. \A s \in Gone(c) : s <= base[c] /\ disclosed[c] /\ s \notin DOMAIN replay
  BY <1>2 DEF Gone
<1>5. /\ lastDelivered \in Nat /\ highWater \in Nat /\ windowHigh \in Nat /\ excused \in Nat
      /\ windowFrom \in 0 .. windowHigh /\ (windowHigh # 0 => lastDelivered < windowHigh)
      /\ stage \in Offers
  BY DEF SessionInv, SessionTypeOK, Offers
<1>6. /\ link = "opening" => OpeningWell(c)
      /\ link = "up" => UpWell(c)
  BY DEF SessionInv, Connected
<1> QED  BY <1>1, <1>2, <1>3, <1>4, <1>5, <1>6 DEF OpeningWell, UpWell

(* Nothing the bridge sends is refused.                                    *)
LEMMA Outcomes ==
  ASSUME SessionInv, NEW c \in Conns, c = channel, send[c] # <<>>, link \in {"opening", "up"},
         NEW f, f = send[c][1], Handle(f)
  PROVE  \/ GivesUp
         \/ GotHello(f) \/ GotOverflow(f) \/ GotPending(f) \/ GotEnd(f) \/ GotEvent(f) \/ GotBare(f)
<1> DEFINE Goal == \/ GivesUp
                   \/ GotHello(f) \/ GotOverflow(f) \/ GotPending(f) \/ GotEnd(f) \/ GotEvent(f) \/ GotBare(f)
           q == send[c]
<1> SUFFICES Goal
  OBVIOUS
<1>1. /\ q \in Seq(Frames) /\ f \in Frames /\ q # <<>>
      /\ nextSequence \in Nat /\ base[c] \in Nat /\ sent[c] \in Nat /\ disclosed[c] \in BOOLEAN
      /\ Flows(q, sent[c], Gone(c), nextSequence)
      /\ \A s \in Gone(c) : s <= base[c] /\ disclosed[c]
      /\ lastDelivered \in Nat /\ highWater \in Nat /\ windowHigh \in Nat
      /\ windowFrom \in 0 .. windowHigh /\ (windowHigh # 0 => lastDelivered < windowHigh)
      /\ link = "opening" =>
           /\ f.type = "hello"
           /\ f.high = base[c] /\ lastDelivered <= base[c]
           /\ f.mode = "direct" => hello[c].mode = "adaptive"
      /\ link = "up" =>
           /\ highWater = base[c]
           /\ Serves(q, stage, windowHigh, windowFrom, Place(c), Needed(c), Have)
  BY Reading
<1>2. q[1] = f  OBVIOUS
<1>3. /\ Place(c).sent = sent[c] /\ Place(c).base = base[c] /\ Place(c).told = disclosed[c]
      /\ Place(c).last = lastDelivered
  BY DEF Place
<1> HIDE DEF q
<1>4. link = "up" /\ stage = "pending" =>
        /\ f.type \in {"pending", "replay_end"} /\ lastDelivered <= highWater
  <2> SUFFICES ASSUME link = "up", stage = "pending"
               PROVE  f.type \in {"pending", "replay_end"} /\ lastDelivered <= highWater
    OBVIOUS
  <2>1. PendingRuns(q, Place(c)) /\ Promises(q, Needed(c), Have)
    BY <1>1 DEF Serves
  <2>2. lastDelivered <= base[c]  BY <1>3, <2>1 DEF PendingRuns
  <2> QED  BY <1>1, <1>2, <2>1, <2>2, TakePending
<1>5. link = "up" /\ stage # "pending" => PlainRuns(q, stage, windowHigh, windowFrom, Place(c))
  BY <1>1 DEF Serves
<1>6. link = "up" /\ stage # "pending" => f.type \in {"event", "answer", "overflow"}
  BY <1>1, <1>2, <1>5, TakePlain DEF Live, Announced
<1> HIDE DEF Goal
<1>7. /\ GivesUp => Goal
      /\ GotHello(f) => Goal
      /\ GotOverflow(f) => Goal
      /\ GotPending(f) => Goal
      /\ GotEnd(f) => Goal
      /\ GotEvent(f) => Goal
      /\ GotBare(f) => Goal
  BY DEF Goal
<1>8. CASE f.type = "hello" /\ HandleHello(f)
  <2>1. link = "opening"  BY <1>4, <1>6, <1>8
  <2>2. f.high \in Nat /\ f.high >= lastDelivered /\ (f.mode = "direct" => hello[channel].mode = "adaptive")
    BY <1>1, <2>1
  <2>3. \/ ~f.canSend /\ Fail("nonWriter") /\ UNCHANGED viewVars
        \/ /\ stage' = IF f.mode = "direct" /\ f.high = lastDelivered THEN "plain" ELSE f.mode
           /\ highWater' = f.high /\ windowHigh' = 0 /\ windowFrom' = 0
           /\ \/ Fail("providerExited")
              \/ link' = "up" /\ attempts' = 0 /\ UNCHANGED <<failure, channel>>
           /\ UNCHANGED <<lastDelivered, parked, shown, excused>>
    <3>1. ~(f.high < lastDelivered)  BY <1>1, <2>2
    <3> QED  BY <1>8, <2>2, <3>1, Zenon DEF HandleHello
  <2>4. CASE ~f.canSend /\ Fail("nonWriter") /\ UNCHANGED viewVars
    <3>1. GivesUp  BY <2>4 DEF Fail, GivesUp
    <3> QED  BY <1>7, <3>1
  <2>5. CASE /\ stage' = IF f.mode = "direct" /\ f.high = lastDelivered THEN "plain" ELSE f.mode
             /\ highWater' = f.high /\ windowHigh' = 0 /\ windowFrom' = 0
             /\ \/ Fail("providerExited")
                \/ link' = "up" /\ attempts' = 0 /\ UNCHANGED <<failure, channel>>
             /\ UNCHANGED <<lastDelivered, parked, shown, excused>>
    <3>1. GotHello(f)  BY <1>8, <2>1, <2>5 DEF Fail, GotHello
    <3> QED  BY <1>7, <3>1
  <2> QED  BY <2>3, <2>4, <2>5
<1>9. CASE f.type = "overflow" /\ HandleOverflow(f)
  <2>1. link = "up" /\ stage # "pending"  BY <1>1, <1>4, <1>9
  <2>2. PlainRuns(q, stage, windowHigh, windowFrom, Place(c)) /\ Announced(q)
    BY <1>1, <1>2, <1>5, <1>9, <2>1 DEF Announced
  <2>3. /\ windowHigh = 0 /\ disclosed[c] /\ lastDelivered <= base[c] /\ f.from \in 1 .. base[c]
        /\ stage # "direct"
    BY <1>2, <1>3, <2>2 DEF PlainRuns
  <2>4. ~(\/ stage = "direct"
          \/ f.from = 0 \/ f.from > highWater
          \/ highWater < lastDelivered
          \/ windowHigh # 0)
    BY <1>1, <2>1, <2>3
  <2>5. /\ windowHigh' = IF highWater > lastDelivered THEN highWater ELSE 0
        /\ windowFrom' = IF highWater > lastDelivered THEN f.from ELSE 0
        /\ excused' = IF highWater > excused THEN highWater ELSE excused
        /\ StayLinked
        /\ UNCHANGED <<lastDelivered, freshBaseline, stage, highWater, parked, shown>>
    BY <1>9, <2>4, Zenon DEF HandleOverflow
  <2>6. GotOverflow(f)
    BY <1>1, <1>9, <2>1, <2>3, <2>5 DEF GotOverflow, StayLinked, StaysUp, linkVars
  <2> QED  BY <1>7, <2>6
<1>10. CASE f.type = "pending" /\ HandlePending(f)
  <2>1. link = "up" /\ stage = "pending"  BY <1>1, <1>6, <1>10
  <2>2. GotPending(f)
    BY <1>10, <2>1 DEF HandlePending, GotPending, StayLinked, StaysUp, linkVars
  <2> QED  BY <1>7, <2>2
<1>11. CASE f.type = "replay_end" /\ HandleReplayEnd
  <2>1. link = "up" /\ stage = "pending"  BY <1>1, <1>6, <1>11
  <2>2. lastDelivered <= highWater /\ ~(highWater < lastDelivered)  BY <1>1, <1>4, <2>1
  <2>3. GotEnd(f)
    BY <1>11, <2>1, <2>2 DEF HandleReplayEnd, GotEnd, StayLinked, StaysUp, linkVars
  <2> QED  BY <1>7, <2>3
<1>12. CASE f.type = "event" /\ f.kind # "garbled" /\ HandleEvent(f)
  <2>1. link = "up" /\ stage # "pending"  BY <1>1, <1>4, <1>12
  <2>2. PlainRuns(q, stage, windowHigh, windowFrom, Place(c)) /\ IsEvent(q[1])
    BY <1>2, <1>5, <1>12, <2>1 DEF IsEvent
  <2> DEFINE p == Place(c)
  <2>3. /\ p.base \in Nat /\ p.last \in Nat /\ p.told \in BOOLEAN
        /\ windowHigh # 0 => p.last < windowHigh
        /\ PlainRuns(q, stage, windowHigh, windowFrom, p)
        /\ \A s \in Gone(c) : s <= p.base /\ p.told
        /\ Flows(q, p.sent, Gone(c), nextSequence)
        /\ p.last = lastDelivered
    BY <1>1, <1>3, <2>2
  <2> HIDE DEF p
  <2>4. /\ f.seq \in Nat /\ f.seq > lastDelivered
        /\ windowHigh = 0 => f.seq = lastDelivered + 1
        /\ windowHigh # 0 => f.seq = windowHigh + 1 \/ (windowFrom <= f.seq /\ f.seq <= windowHigh)
    <3>0. /\ q \in Seq(Frames) /\ q # <<>> /\ nextSequence \in Nat
          /\ windowHigh \in Nat /\ windowFrom \in 0 .. windowHigh
      BY <1>1
    <3>1. /\ q[1].seq \in Nat /\ q[1].seq > p.last
          /\ windowHigh = 0 => q[1].seq = p.last + 1
          /\ windowHigh # 0 => q[1].seq = windowHigh + 1 \/ (windowFrom <= q[1].seq /\ q[1].seq <= windowHigh)
      BY <2>2, <2>3, <3>0, NextEvent
    <3> QED  BY <1>2, <2>3, <3>1
  <2>5. Acceptable(f.seq) /\ ~Ignored(f.seq)
    BY <1>1, <2>4 DEF Acceptable, Ignored
  <2> DEFINE taken == /\ CommitSequence(f.seq)
                      /\ shown' = IF f.kind = "request" THEN shown \cup {f.id} ELSE shown
                      /\ \/ Fail("providerExited")
                         \/ Fail("providerInvalid")
                         \/ StayLinked
                      /\ UNCHANGED <<freshBaseline, highWater, parked, excused>>
             bare == /\ EndWindow(f.seq)
                     /\ Fail("providerInvalid")
                     /\ UNCHANGED <<freshBaseline, stage, highWater, parked, shown, excused>>
  <2>6. taken \/ bare
    BY <1>12, <2>1, <2>5, Zenon DEF HandleEvent
  <2>7. CASE taken
    <3>1. GotEvent(f)
      BY <1>12, <2>1, <2>5, <2>7 DEF GotEvent, Fail, StayLinked, StaysUp, linkVars
    <3> QED  BY <1>7, <3>1
  <2>8. CASE bare
    <3>1. GotBare(f)
      BY <1>12, <2>1, <2>8 DEF GotBare, EndWindow, Fail
    <3> QED  BY <1>7, <3>1
  <2> QED  BY <2>6, <2>7, <2>8
<1>13. CASE (Fail("bridgeError") \/ Fail("providerInvalid")) /\ UNCHANGED viewVars
  <2>1. GivesUp  BY <1>13 DEF Fail, GivesUp
  <2> QED  BY <1>7, <2>1
<1>14. \/ f.type = "hello" /\ HandleHello(f)
       \/ f.type = "overflow" /\ HandleOverflow(f)
       \/ f.type = "pending" /\ HandlePending(f)
       \/ f.type = "replay_end" /\ HandleReplayEnd
       \/ f.type = "event" /\ f.kind # "garbled" /\ HandleEvent(f)
       \/ f.type = "event" /\ f.kind = "garbled" /\ Fail("providerInvalid") /\ UNCHANGED viewVars
       \/ f.type = "answer" /\ Fail("bridgeError") /\ UNCHANGED viewVars
  BY Zenon DEF Handle
<1> QED  BY <1>8, <1>9, <1>10, <1>11, <1>12, <1>13, <1>14

LEMMA ReceiveKeeps ==
  ASSUME SessionInv, Receive
  PROVE  SessionInv'
<1>1. link \in {"opening", "up"} /\ WriteFrame(channel) /\ Handle(Head(send[channel]))
      /\ UNCHANGED <<hello, uplink, answered>>
  BY DEF Receive, wireVars
<1>2. PICK c \in Conns : c = channel
  BY <1>1 DEF SessionInv, SessionTypeOK
<1> DEFINE q == send[c]
           f == q[1]
<1>3. q # <<>>  BY <1>1, <1>2 DEF WriteFrame
<1>4. /\ TypeOK /\ QueueInv /\ nextSequence \in Nat
      /\ q \in Seq(Frames) /\ f \in Frames /\ Head(q) = f
      /\ base[c] \in Nat /\ base[c] <= nextSequence /\ sent[c] \in Nat
      /\ disclosed[c] \in BOOLEAN /\ pc[c] \notin Away
      /\ Flows(q, sent[c], Gone(c), nextSequence) /\ Faithful(q, replay)
      /\ \A s \in Gone(c) : s <= base[c] /\ disclosed[c] /\ s \notin DOMAIN replay
      /\ lastDelivered \in Nat /\ highWater \in Nat /\ windowHigh \in Nat /\ excused \in Nat
      /\ windowFrom \in 0 .. windowHigh /\ (windowHigh # 0 => lastDelivered < windowHigh)
      /\ stage \in Offers
      /\ link = "opening" =>
           /\ f.type = "hello"
           /\ f.high = base[c] /\ lastDelivered <= base[c]
           /\ f.mode = "direct" => hello[c].mode = "adaptive"
           /\ Serves(Tail(q), f.mode, 0, 0, Place(c), Needed(c), Have)
      /\ link = "up" =>
           /\ highWater = base[c]
           /\ Serves(q, stage, windowHigh, windowFrom, Place(c), Needed(c), Have)
  BY <1>1, <1>2, <1>3, Reading
<1>5. \/ GivesUp
      \/ GotHello(f) \/ GotOverflow(f) \/ GotPending(f) \/ GotEnd(f) \/ GotEvent(f) \/ GotBare(f)
  BY <1>1, <1>2, <1>3, <1>4, Outcomes
<1>6. /\ send' = [send EXCEPT ![c] = Tail(q)]
      /\ sent' = [sent EXCEPT ![c] = IF f.type = "event" THEN f.seq ELSE @]
      /\ UNCHANGED <<nextSequence, replay, pc, base, disclosed>>
  BY <1>1, <1>2, <1>4 DEF WriteFrame, windowVars, handlerVars
<1>7. /\ send'[c] = Tail(q) /\ sent'[c] = (IF f.type = "event" THEN f.seq ELSE sent[c])
      /\ base'[c] = base[c] /\ disclosed'[c] = disclosed[c] /\ pc'[c] = pc[c]
      /\ Needed(c)' = Needed(c)
  BY <1>4, <1>6 DEF QueueInv, QueueType, Needed
<1>8. BridgeInv'
  <2>1. [OpenNext]_vars  BY <1>1, <1>2 DEF OpenNext, Next, ClientStep
  <2> QED  BY <2>1, BridgeInvStep DEF SessionInv
<1>9. /\ \A s \in Pinned(replay) : s \in DOMAIN replay /\ s <= nextSequence /\ s \in Nat
      /\ \A s \in Pinned(replay) : replay[s].kind = "request"
  BY <1>4 DEF TypeOK, WindowType, Pinned, QueueInv, WindowKept
<1>10. SessionTypeOK /\ NeverRejectsTheBridge /\ SessionData /\ ShownInv
  BY DEF SessionInv
<1>11. UNCHANGED <<hello, uplink, answered>>  BY <1>1
<1>12. /\ Place(c)'.sent = sent'[c] /\ Place(c)'.base = base[c] /\ Place(c)'.told = disclosed[c]
       /\ Place(c)'.last = lastDelivered'
       /\ Place(c).sent = sent[c] /\ Place(c).base = base[c] /\ Place(c).told = disclosed[c]
       /\ Place(c).last = lastDelivered
  BY <1>7 DEF Place
<1> HIDE DEF q, f
<1>13. f = q[1]  BY DEF f
<1>14. /\ f.type = "hello" => f.mode \in Offers
       /\ f.type = "overflow" => f.from \in Nat
       /\ f.type = "pending" => f.id \in ProviderRequests
       /\ f.type = "event" /\ f.kind = "request" => f.id \in ProviderRequests
  BY <1>4 DEF Frames, Hellos, Overflows, Pendings, Marks, Numbered
<1>15. /\ shown \subseteq ProviderRequests /\ ToSet(parked) \subseteq ProviderRequests
       /\ parked \in Seq(ProviderRequests) /\ attempts \in 0 .. MaxAttempts /\ MaxAttempts \in Nat
       /\ channel \in Conns /\ channel # NoClient
       /\ lastDelivered <= nextSequence /\ highWater <= nextSequence
       /\ excused <= nextSequence /\ windowHigh <= excused
       /\ windowHigh # 0 => windowHigh = highWater
  <2>1. parked \in Seq(ProviderRequests)  BY <1>10 DEF SessionData
  <2>2. ToSet(parked) \subseteq ProviderRequests
    BY <2>1 DEF ToSet
  <2>3. channel # NoClient  BY <1>2, BridgeAssumption
  <2> QED
    BY <1>2, <1>10, <2>1, <2>2, <2>3, SessionAssumption DEF SessionTypeOK, SessionData
<1>16. ASSUME Connected', SessionTypeOK', NeverRejectsTheBridge', SessionData', ShownInv'
       PROVE  SessionInv'
  BY <1>8, <1>16 DEF SessionInv
<1>17. ASSUME link' = "up" => UpWell(c)', link' \in {"up", "failed"}, channel' = channel
       PROVE  Connected'
  BY <1>2, <1>17 DEF Connected
<1>18. CASE GivesUp
  <2>1. /\ link' = "failed" /\ failure' \in {"nonWriter", "bridgeError", "providerInvalid"}
        /\ UNCHANGED <<channel, attempts, lastDelivered, freshBaseline, stage, highWater, windowHigh,
                       windowFrom, parked, shown, excused>>
    BY <1>18 DEF GivesUp, viewVars
  <2>2. SessionTypeOK'  BY <1>10, <1>11, <2>1 DEF SessionTypeOK
  <2>3. NeverRejectsTheBridge'  BY <2>1 DEF NeverRejectsTheBridge
  <2>4. SessionData'  BY <1>6, <1>10, <1>11, <2>1 DEF SessionData
  <2>5. ShownInv'  BY <1>6, <1>10, <2>1 DEF ShownInv
  <2> QED  BY <1>16, <1>17, <2>1, <2>2, <2>3, <2>4, <2>5
<1>19. CASE GotHello(f)
  <2>1. /\ link = "opening" /\ f.type = "hello"
        /\ \/ link' = "up" /\ attempts' = 0 /\ failure' = failure
           \/ link' = "failed" /\ attempts' = attempts /\ failure' = "providerExited"
        /\ stage' = IF f.mode = "direct" /\ f.high = lastDelivered THEN "plain" ELSE f.mode
        /\ highWater' = base[c] /\ windowHigh' = 0 /\ windowFrom' = 0
        /\ UNCHANGED <<channel, lastDelivered, parked, shown, excused>>
    BY <1>4, <1>19 DEF GotHello
  <2>2. SessionTypeOK'
    BY <1>4, <1>10, <1>11, <1>14, <1>15, <2>1 DEF SessionTypeOK, Offers
  <2>3. NeverRejectsTheBridge'  BY <1>10, <2>1 DEF NeverRejectsTheBridge
  <2>4. SessionData'  BY <1>4, <1>6, <1>10, <1>11, <2>1 DEF SessionData
  <2>5. ShownInv'  BY <1>6, <1>10, <2>1 DEF ShownInv
  <2>6. Have' = Have /\ Place(c)' = Place(c)
    BY <1>7, <2>1 DEF Have, Place
  <2>7. Serves(Tail(q), f.mode, 0, 0, Place(c), Needed(c), Have)
    BY <1>4, <2>1
  <2>8. Serves(Tail(q), stage', 0, 0, Place(c), Needed(c), Have)
    <3>1. CASE stage' = f.mode
      BY <2>7, <3>1
    <3>2. CASE f.mode = "direct" /\ stage' = "plain"
      BY <2>7, <3>2 DEF Serves, PlainRuns
    <3> QED  BY <2>1, <3>1, <3>2
  <2>9. UpWell(c)'
    BY <1>4, <1>7, <2>1, <2>6, <2>8 DEF UpWell, Away
  <2> QED  BY <1>16, <1>17, <2>1, <2>2, <2>3, <2>4, <2>5, <2>9
<1>20. CASE GotOverflow(f)
  <2>1. /\ link = "up" /\ f.type = "overflow" /\ stage # "pending"
        /\ link' = "up" /\ failure' = failure /\ UNCHANGED <<channel, attempts>>
        /\ lastDelivered <= highWater
        /\ windowHigh' = IF highWater > lastDelivered THEN highWater ELSE 0
        /\ windowFrom' = IF highWater > lastDelivered THEN f.from ELSE 0
        /\ excused' = IF highWater > excused THEN highWater ELSE excused
        /\ UNCHANGED <<lastDelivered, stage, highWater, parked, shown>>
    BY <1>20 DEF GotOverflow, StaysUp
  <2>2. PlainRuns(q, stage, windowHigh, windowFrom, Place(c)) /\ highWater = base[c]
    BY <1>4, <2>1 DEF Serves
  <2>3. Announced(q)  BY <1>3, <1>13, <2>1 DEF Announced, q
  <2>4. /\ windowHigh = 0 /\ disclosed[c] /\ f.from \in 1 .. base[c] /\ sent[c] = lastDelivered
        /\ \A i \in EventsIn(q) : f.from <= q[i].seq
    BY <1>12, <1>13, <2>2, <2>3 DEF PlainRuns
  <2>5. SessionTypeOK'
    BY <1>4, <1>10, <1>11, <1>14, <1>15, <2>1, <2>2, <2>4 DEF SessionTypeOK
  <2>6. NeverRejectsTheBridge'  BY <1>10, <2>1 DEF NeverRejectsTheBridge
  <2>7. SessionData'
    <3>1. excused' <= nextSequence /\ windowHigh' <= excused' /\ windowHigh' \in Nat
      BY <1>4, <1>15, <2>1
    <3> QED  BY <1>6, <1>10, <1>11, <2>1, <3>1 DEF SessionData
  <2>8. ShownInv'  BY <1>6, <1>10, <2>1 DEF ShownInv
  <2>9. /\ \A i \in DOMAIN Tail(q) : Live(Tail(q)[i])
        /\ ~Announced(Tail(q))
        /\ \A i \in EventsIn(Tail(q)) : i + 1 \in EventsIn(q) /\ Tail(q)[i] = q[i + 1]
    BY <1>3, <1>4, <2>2, TakePlain DEF q
  <2>10. /\ Place(c)'.sent = lastDelivered /\ Place(c)'.last = lastDelivered
         /\ stage = "direct" => ~Place(c)'.told
    <3>1. stage # "direct"  BY <1>12, <2>2, <2>4 DEF PlainRuns
    <3> QED  BY <1>7, <1>12, <2>1, <2>4, <3>1
  <2>11. windowHigh' # 0 => windowHigh' = base[c] /\ windowFrom' = f.from
    BY <2>1, <2>2
  <2>12. lastDelivered < base[c] => windowHigh' # 0
    BY <1>4, <2>1, <2>2
  <2>13. PlainRuns(Tail(q), stage, windowHigh', windowFrom', Place(c)')
    <3> DEFINE t == Tail(q)
               p == Place(c)'
    <3>1. p.sent = p.last /\ p.last = lastDelivered /\ p.base = base[c] /\ (stage = "direct" => ~p.told)
      BY <1>12, <2>10
    <3>2. /\ \A i \in DOMAIN t : Live(t[i])
          /\ ~Announced(t)
          /\ \A i \in EventsIn(t) : f.from <= t[i].seq
      BY <2>4, <2>9
    <3>3. f.from <= base[c]  BY <1>4, <2>4
    <3> HIDE DEF t, p
    <3>4. PlainRuns(t, stage, windowHigh', windowFrom', p)
      BY <2>11, <2>12, <3>1, <3>2, <3>3 DEF PlainRuns
    <3> QED  BY <3>4 DEF t, p
  <2>14. UpWell(c)'
    BY <1>4, <1>7, <2>1, <2>2, <2>13 DEF UpWell, Serves, Away
  <2> QED  BY <1>16, <1>17, <2>1, <2>5, <2>6, <2>7, <2>8, <2>14
<1>21. CASE GotPending(f)
  <2>1. /\ link = "up" /\ f.type = "pending" /\ stage = "pending"
        /\ link' = "up" /\ failure' = failure /\ UNCHANGED <<channel, attempts>>
        /\ parked' = Append(parked, f.id)
        /\ UNCHANGED <<lastDelivered, stage, highWater, windowHigh, windowFrom, shown, excused>>
    BY <1>21 DEF GotPending, StaysUp
  <2>2. SessionTypeOK'  BY <1>10, <1>11, <2>1 DEF SessionTypeOK
  <2>3. NeverRejectsTheBridge'  BY <1>10, <2>1 DEF NeverRejectsTheBridge
  <2>4. SessionData'
    <3>1. parked' \in Seq(ProviderRequests)  BY <1>14, <1>15, <2>1, AppendProperties
    <3> QED  BY <1>6, <1>10, <1>11, <2>1, <3>1 DEF SessionData
  <2>5. ShownInv'  BY <1>6, <1>10, <2>1 DEF ShownInv
  <2>6. /\ windowHigh = 0 /\ PendingRuns(q, Place(c)) /\ Promises(q, Needed(c), Have)
        /\ highWater = base[c]
    BY <1>4, <2>1 DEF Serves
  <2>7. PendingRuns(Tail(q), Place(c)) /\ Promises(Tail(q), Needed(c), Have \cup {f.id})
    BY <1>4, <1>13, <2>1, <2>6, TakePending
  <2>8. Place(c)' = Place(c)  BY <1>7, <2>1 DEF Place
  <2>9. Have' = Have \cup {f.id}
    <3>1. /\ DOMAIN parked = 1 .. Len(parked) /\ Len(parked) \in Nat
          /\ DOMAIN parked' = 1 .. Len(parked) + 1
          /\ \A i \in DOMAIN parked : parked'[i] = parked[i]
          /\ parked'[Len(parked) + 1] = f.id
      BY <1>14, <1>15, <2>1, AppendParts
    <3>2. ToSet(parked') = ToSet(parked) \cup {f.id}
      <4>1. \A i : i \in DOMAIN parked' <=> i \in DOMAIN parked \/ i = Len(parked) + 1
        BY <3>1
      <4>2. \A x : x \in ToSet(parked') <=> \E i \in DOMAIN parked' : x = parked'[i]
        BY DEF ToSet
      <4>3. \A x : x \in ToSet(parked) <=> \E i \in DOMAIN parked : x = parked[i]
        BY DEF ToSet
      <4>4. \A x : x \in ToSet(parked') <=> x \in ToSet(parked) \/ x = f.id
        BY <3>1, <4>1, <4>2, <4>3
      <4> QED  BY <4>4
    <3> QED  BY <2>1, <3>2 DEF Have
  <2>10. UpWell(c)'
    BY <1>4, <1>7, <2>1, <2>6, <2>7, <2>8, <2>9 DEF UpWell, Serves, Away
  <2> QED  BY <1>16, <1>17, <2>1, <2>2, <2>3, <2>4, <2>5, <2>10
<1>22. CASE GotEnd(f)
  <2>1. /\ link = "up" /\ f.type = "replay_end" /\ stage = "pending"
        /\ link' = "up" /\ failure' = failure /\ UNCHANGED <<channel, attempts>>
        /\ lastDelivered <= highWater
        /\ lastDelivered' = highWater /\ excused' = highWater /\ stage' = "plain"
        /\ shown' = shown \cup ToSet(parked) /\ parked' = <<>>
        /\ UNCHANGED <<highWater, windowHigh, windowFrom>>
    BY <1>22 DEF GotEnd, StaysUp
  <2>2. /\ windowHigh = 0 /\ PendingRuns(q, Place(c)) /\ Promises(q, Needed(c), Have)
        /\ highWater = base[c]
    BY <1>4, <2>1 DEF Serves
  <2>3. (\A i \in DOMAIN Tail(q) : Live(Tail(q)[i])) /\ Needed(c) \subseteq Have
    BY <1>4, <1>13, <2>1, <2>2, TakePending
  <2>4. SessionTypeOK'
    BY <1>4, <1>10, <1>11, <1>15, <2>1, <2>2 DEF SessionTypeOK
  <2>5. NeverRejectsTheBridge'  BY <1>10, <2>1 DEF NeverRejectsTheBridge
  <2>6. SessionData'
    BY <1>4, <1>6, <1>10, <1>11, <1>15, <2>1, <2>2, EmptySeq DEF SessionData
  <2>7. ShownInv'
    <3> SUFFICES ASSUME NEW s \in Pinned(replay), s <= base[c] PROVE replay[s].id \in shown'
      BY <1>6, <2>1, <2>2 DEF ShownInv
    <3>1. replay[s].id \in Needed(c)  BY DEF Needed
    <3> QED  BY <2>1, <2>3, <3>1 DEF Have
  <2>8. ~Announced(Tail(q))
    <3> SUFFICES ASSUME Tail(q) # <<>> PROVE Tail(q)[1].type # "overflow"
      BY DEF Announced
    <3>1. Tail(q) \in Seq(Frames)  BY <1>3, <1>4, TailParts DEF q
    <3>2. 1 \in DOMAIN Tail(q)  BY <3>1, EmptySeq, LenProperties
    <3> QED  BY <2>3, <3>2 DEF Live
  <2>9. Place(c)'.sent = base[c] /\ Place(c)'.last = base[c]
    BY <1>7, <1>12, <2>1, <2>2 DEF PendingRuns
  <2>10. PlainRuns(Tail(q), "plain", 0, windowFrom, Place(c)')
    BY <1>4, <1>12, <2>3, <2>8, <2>9 DEF PlainRuns
  <2>11. UpWell(c)'
    BY <1>4, <1>7, <2>1, <2>2, <2>10 DEF UpWell, Serves, Away
  <2> QED  BY <1>16, <1>17, <2>1, <2>4, <2>5, <2>6, <2>7, <2>11
<1>23. CASE GotEvent(f)
  <2>1. /\ link = "up" /\ f.type = "event" /\ stage # "pending"
        /\ lastDelivered' = f.seq
        /\ windowHigh' = IF f.seq >= windowHigh THEN 0 ELSE windowHigh
        /\ windowFrom' = IF f.seq >= windowHigh THEN 0 ELSE windowFrom
        /\ stage' \in {stage, "plain"}
        /\ shown' = IF f.kind = "request" THEN shown \cup {f.id} ELSE shown
        /\ link' \in {"up", "failed"} /\ failure' \in {failure, "providerExited", "providerInvalid"}
        /\ UNCHANGED <<channel, attempts, highWater, parked, excused>>
    BY <1>23 DEF GotEvent, StaysUp, CommitSequence
  <2>2. PlainRuns(q, stage, windowHigh, windowFrom, Place(c)) /\ IsEvent(q[1]) /\ highWater = base[c]
    BY <1>4, <1>13, <2>1 DEF Serves, IsEvent
  <2>3. Place(c)'.sent = f.seq /\ Place(c)'.last = f.seq /\ Place(c)'.base = Place(c).base
        /\ Place(c)'.told = Place(c).told
    BY <1>7, <1>12, <2>1
  <2> DEFINE o == Place(c)'
             p == Place(c)
  <2>4. /\ p.base \in Nat /\ p.last \in Nat /\ p.told \in BOOLEAN /\ p.sent = sent[c]
        /\ p.last = lastDelivered /\ p.base = base[c]
        /\ o.sent = f.seq /\ o.last = f.seq /\ o.base = p.base /\ o.told = p.told
        /\ windowHigh # 0 => p.last < windowHigh
        /\ \A s \in Gone(c) : s <= p.base /\ p.told
        /\ Flows(q, p.sent, Gone(c), nextSequence)
        /\ PlainRuns(q, stage, windowHigh, windowFrom, p)
    BY <1>4, <1>12, <2>2, <2>3 DEF q
  <2>41. q \in Seq(Frames) /\ q # <<>> /\ f = q[1]
    BY <1>3, <1>4, <1>13 DEF q
  <2> HIDE DEF o, p
  <2>42. /\ q[1].seq \in Nat /\ q[1].seq > p.last /\ q[1].seq <= nextSequence
         /\ windowHigh # 0 => q[1].seq = windowHigh + 1 \/ (windowFrom <= q[1].seq /\ q[1].seq <= windowHigh)
    BY <1>4, <2>2, <2>4, <2>41, NextEvent
  <2>43. PlainRuns(Tail(q), stage', windowHigh', windowFrom', o)
    BY <1>4, <2>1, <2>2, <2>4, <2>41, <2>42, EventTaken
  <2>5. /\ f.seq \in Nat /\ f.seq > lastDelivered /\ f.seq <= nextSequence
        /\ PlainRuns(Tail(q), stage', windowHigh', windowFrom', o)
    BY <2>4, <2>41, <2>42, <2>43
  <2>6. SessionTypeOK'
    BY <1>4, <1>10, <1>11, <1>14, <1>15, <2>1, <2>5 DEF SessionTypeOK
  <2>7. NeverRejectsTheBridge'  BY <1>10, <2>1 DEF NeverRejectsTheBridge
  <2>8. SessionData'
    BY <1>4, <1>6, <1>10, <1>11, <1>15, <2>1, <2>5 DEF SessionData
  <2>9. ShownInv'
    <3> SUFFICES ASSUME NEW s \in Pinned(replay), s <= f.seq PROVE replay[s].id \in shown'
      BY <1>6, <2>1 DEF ShownInv
    <3>1. CASE s <= lastDelivered
      BY <1>10, <2>1, <3>1 DEF ShownInv
    <3>2. CASE ~(s <= lastDelivered)
      <4>1. s \in sent[c] + 1 .. f.seq
        BY <1>4, <1>9, <2>4, <2>5, <3>2 DEF PlainRuns
      <4>2. s \notin Gone(c)  BY <1>4, <1>9
      <4>3. s = f.seq
        BY <1>3, <1>4, <1>13, <2>2, <4>1, <4>2, NoneBetween DEF q
      <4>4. 1 \in EventsIn(q)
        <5>1. 1 \in DOMAIN q  BY <1>3, <1>4, TailParts DEF q
        <5> QED  BY <2>2, <5>1 DEF EventsIn
      <4>5. f.kind = "request" /\ f.id = replay[s].id
        BY <1>4, <1>9, <1>13, <4>3, <4>4 DEF Faithful
      <4> QED  BY <2>1, <4>5
    <3> QED  BY <3>1, <3>2
  <2>10. UpWell(c)'
    <3>1. stage' # "pending"  BY <2>1
    <3> QED  BY <1>4, <1>7, <2>1, <2>2, <2>5, <3>1 DEF UpWell, Serves, Away, o
  <2> QED  BY <1>16, <1>17, <2>1, <2>6, <2>7, <2>8, <2>9, <2>10
<1>24. CASE GotBare(f)
  <2>1. /\ link = "up" /\ f.type = "event" /\ stage # "pending"
        /\ \/ UNCHANGED <<lastDelivered, windowHigh, windowFrom>>
           \/ /\ windowHigh # 0 /\ f.seq = windowHigh + 1
              /\ lastDelivered' = windowHigh /\ windowHigh' = 0 /\ windowFrom' = 0
        /\ link' = "failed" /\ failure' = "providerInvalid"
        /\ UNCHANGED <<channel, attempts, stage, highWater, parked, shown, excused>>
    BY <1>24 DEF GotBare
  <2>2. SessionTypeOK'
    BY <1>4, <1>10, <1>11, <1>15, <2>1 DEF SessionTypeOK
  <2>3. NeverRejectsTheBridge'  BY <2>1 DEF NeverRejectsTheBridge
  <2>4. SessionData'
    BY <1>4, <1>6, <1>10, <1>11, <1>15, <2>1 DEF SessionData
  <2>5. ShownInv'
    <3> SUFFICES ASSUME NEW s \in Pinned(replay), s <= lastDelivered' PROVE replay[s].id \in shown
      BY <1>6, <2>1 DEF ShownInv
    <3>1. s <= lastDelivered
      <4> SUFFICES ASSUME ~(s <= lastDelivered) PROVE FALSE
        OBVIOUS
      <4>1. /\ windowHigh # 0 /\ f.seq = windowHigh + 1
            /\ lastDelivered < s /\ s < f.seq
        BY <1>4, <1>9, <2>1
      <4>2. PlainRuns(q, stage, windowHigh, windowFrom, Place(c)) /\ IsEvent(q[1])
        BY <1>4, <1>13, <2>1 DEF Serves, IsEvent
      <4>3. s \in sent[c] + 1 .. f.seq
        BY <1>4, <1>9, <1>12, <4>1, <4>2 DEF PlainRuns
      <4>4. s \notin Gone(c)  BY <1>4, <1>9
      <4>5. s = f.seq
        BY <1>3, <1>4, <1>13, <4>2, <4>3, <4>4, NoneBetween DEF q
      <4> QED  BY <1>4, <1>9, <4>1, <4>5
    <3> QED  BY <1>10, <3>1 DEF ShownInv
  <2> QED  BY <1>16, <1>17, <2>1, <2>2, <2>3, <2>4, <2>5
<1> QED  BY <1>5, <1>18, <1>19, <1>20, <1>21, <1>22, <1>23, <1>24

(***************************************************************************)
(* The invariant is one                                                    *)
(***************************************************************************)
LEMMA SessionInitInv == SessionInit => SessionInv
<1> SUFFICES ASSUME SessionInit PROVE SessionInv
  OBVIOUS
<1>1. /\ Init /\ link = "down" /\ failure = "none" /\ channel = NoClient /\ attempts = 0
      /\ hello = [c \in Conns |-> [lastAck |-> 0, mode |-> "plain"]]
      /\ uplink = [c \in Conns |-> <<>>]
      /\ lastDelivered = 0 /\ stage = "plain" /\ highWater = 0 /\ windowHigh = 0 /\ windowFrom = 0
      /\ parked = <<>> /\ shown = {} /\ answered = {} /\ excused = 0
  BY DEF SessionInit
<1>2. BridgeInv  BY <1>1, BridgeInit
<1>3. nextSequence = 0 /\ Pinned(replay) = {}  BY <1>1 DEF Init, Pinned
<1>4. SessionTypeOK  BY <1>1, SessionAssumption DEF SessionTypeOK
<1>5. NeverRejectsTheBridge  BY <1>1 DEF NeverRejectsTheBridge
<1>6. SessionData
  <2>1. hello \in [Conns -> [lastAck : Nat, mode : {"adaptive", "plain"}]]
        /\ \A c \in Conns : hello[c].lastAck = 0
    BY <1>1
  <2>2. uplink \in [Conns -> Seq(Replies)] /\ parked \in Seq(ProviderRequests)
    BY <1>1, EmptySeq
  <2> QED  BY <1>1, <1>3, <2>1, <2>2 DEF SessionData
<1>7. Connected  BY <1>1 DEF Connected
<1>8. ShownInv  BY <1>3 DEF ShownInv
<1> QED  BY <1>2, <1>4, <1>5, <1>6, <1>7, <1>8 DEF SessionInv

(* What the bridge, the network and the app's answers do.                  *)
Aside ==
  \/ BridgeStep
  \/ \E id \in ProviderRequests : AnswerRequest(id)
  \/ \E c \in Conns : ReceiveUplink(c) \/ BridgeSideLoss(c) \/ HelloLost(c) \/ HandlerStep(c)

LEMMA SessionSteps ==
  SessionNext => \/ Aside
                 \/ OpenFails \/ ChannelLoss \/ ChannelDone \/ RestartApp \/ Receive
                 \/ \E c \in Conns : OpenChannel(c)
BY DEF SessionNext, Aside

LEMMA AsideKeeps == SessionInv /\ Aside => SessionInv'
<1> SUFFICES ASSUME SessionInv, Aside PROVE SessionInv'
  OBVIOUS
<1>1. ASSUME NEW c \in Conns, HandlerStep(c), AttachStep(c) PROVE SessionInv'
  BY <1>1, AttachKeeps
<1>2. ASSUME NEW c \in Conns, HandlerStep(c), ~AttachStep(c) PROVE SessionInv'
  BY <1>2, BridgeSideSteps
<1> QED  BY <1>1, <1>2, BridgeSideSteps DEF Aside

LEMMA SessionStep == SessionInv /\ [SessionNext]_sessionVars => SessionInv'
<1> SUFFICES ASSUME SessionInv, [SessionNext]_sessionVars PROVE SessionInv'
  OBVIOUS
<1>1. CASE SessionNext
  BY <1>1, SessionSteps, AsideKeeps, LossSteps, ReceiveKeeps, OpenStepKeeps
<1>2. CASE UNCHANGED sessionVars
  <2>1. UNCHANGED <<vars, linkVars, viewVars, hello, uplink, answered>>
    BY <1>2 DEF sessionVars, clientVars, wireVars
  <2>2. NoneAccepted  BY <2>1 DEF NoneAccepted, vars, handlerVars
  <2>3. answered \subseteq ProviderRequests /\ uplink \in [Conns -> Seq(Replies)]
    BY DEF SessionInv, SessionTypeOK, SessionData
  <2> QED  BY <2>1, <2>2, <2>3, InnerKeeps DEF QuietClient
<1> QED  BY <1>1, <1>2

LEMMA SessionInvariant == SessionSpec => []SessionInv
BY SessionInitInv, SessionStep, PTL DEF SessionSpec

(* The transport's state keeps its types: an announced window reaches up   *)
(* to the high water mark of the handshake and is closed when the last     *)
(* number in it was committed (_handleReplayOverflow, _commitSequence).    *)
THEOREM TransportTyped == SessionSpec => []SessionTypeOK
BY SessionInvariant, PTL DEF SessionInv

(* Whatever was evicted, detached, lost or restarted: the transport never  *)
(* fails with sequenceGap or invalidFrame on what the bridge sends it, so  *)
(* the checks of _handleFrame reject only a bridge that is broken.         *)
THEOREM TransportTrustsTheBridge == SessionSpec => []NeverRejectsTheBridge
BY SessionInvariant, PTL DEF SessionInv

(* A connected view that has read all that was sent to it knows each       *)
(* request of the provider that is pending: handleAttach's pending frames, *)
(* the replay and the events after it leave none out.                      *)
THEOREM PendingReachesTheApp == SessionSpec => []PendingIsShown
<1>1. SessionInv => PendingIsShown
  <2> SUFFICES ASSUME SessionInv, link = "up", stage = "plain", channel \in clients, send[channel] = <<>>,
                      NEW x \in pendingRequests
               PROVE  x \in shown
    BY DEF PendingIsShown
  <2>1. /\ TypeOK /\ QueueInv /\ clients \subseteq Conns /\ nextSequence \in Nat
        /\ DOMAIN replay \subseteq 1 .. nextSequence
        /\ pendingRequests = {replay[s].id : s \in Pinned(replay)}
        /\ ShownInv /\ lastDelivered \in Nat
    BY DEF SessionInv, BridgeInv, TypeOK, LeaseType, WindowType, PendingIsPinned, SessionTypeOK
  <2>2. PICK c \in Conns : c = channel  BY <2>1
  <2>3. /\ pc[c] \notin Away /\ sent[c] \in Nat
        /\ HasAll(send[c], sent[c], Gone(c), nextSequence)
    BY <2>1, <2>2 DEF QueueInv, QueueType, AwayIsEmpty, QueueFlows
  <2>4. sent[c] = lastDelivered
    <3>1. Serves(send[c], "plain", windowHigh, windowFrom, Place(c), Needed(c), Have)
      BY <2>2, <2>3 DEF SessionInv, Connected, UpWell
    <3>2. Place(c).sent = sent[c] /\ Place(c).last = lastDelivered  BY DEF Place
    <3> QED  BY <3>1, <3>2 DEF Serves, PlainRuns
  <2>5. PICK s \in Pinned(replay) : x = replay[s].id  BY <2>1
  <2>6. s \in DOMAIN replay /\ s \in 1 .. nextSequence  BY <2>1 DEF Pinned
  <2>7. s <= lastDelivered
    <3> SUFFICES ASSUME ~(s <= lastDelivered) PROVE FALSE
      OBVIOUS
    <3>1. s \in sent[c] + 1 .. nextSequence  BY <2>1, <2>4, <2>6
    <3>2. EventsIn(send[c]) = {}
      <4>1. send[c] = <<>>  BY <2>2
      <4> QED  BY <4>1, EmptySeq DEF EventsIn
    <3>3. s \in Gone(c)  BY <2>3, <3>1, <3>2 DEF HasAll
    <3> QED  BY <2>6, <3>3 DEF Gone
  <2> QED  BY <2>1, <2>5, <2>7 DEF ShownInv
<1> QED  BY <1>1, SessionInvariant, PTL

(***************************************************************************)
(* The stream                                                              *)
(***************************************************************************)
(* What the transport has no part in is an event published, or nothing.    *)
LEMMA AsidePublishes ==
  ASSUME SessionInv, Aside
  PROVE  /\ UNCHANGED <<lastDelivered, excused>>
         /\ nextSequence' \in {nextSequence, nextSequence + 1}
<1>0. /\ hello \in [Conns -> [lastAck : Nat, mode : {"adaptive", "plain"}]]
      /\ \A c \in Conns : hello[c].lastAck <= nextSequence
      /\ uplink \in [Conns -> Seq(Replies)] /\ nextSequence \in Nat /\ BridgeInv
  BY DEF SessionInv, BridgeInv, TypeOK, WindowType, SessionData
<1>1. CASE BridgeStep
  <2>1. UNCHANGED <<lastDelivered, excused>>
    BY <1>1 DEF BridgeStep, clientVars, viewVars
  <2>2. [OpenNext]_vars  BY <1>1 DEF BridgeStep, OpenNext, Next
  <2> QED  BY <1>0, <2>1, <2>2, PinnedMoves
<1>2. ASSUME NEW id \in ProviderRequests, AnswerRequest(id)
      PROVE  UNCHANGED <<lastDelivered, excused, nextSequence>>
  BY <1>2 DEF AnswerRequest, vars, windowVars, viewVars
<1>3. ASSUME NEW c \in Conns, ReceiveUplink(c) \/ BridgeSideLoss(c) \/ HelloLost(c) \/ HandlerStep(c)
      PROVE  UNCHANGED <<lastDelivered, excused>> /\ OpenNext
  <2>1. CASE ReceiveUplink(c)
    <3>1. /\ uplink[c] # <<>> /\ ReceiveInput(c, Head(uplink[c]))
          /\ UNCHANGED <<lastDelivered, excused>>
      BY <2>1 DEF ReceiveUplink, viewVars
    <3>2. Head(uplink[c]) \in ClientMessages
      <4>1. Head(uplink[c]) \in Replies  BY <1>0, <3>1, TailParts
      <4> QED  BY <4>1 DEF Replies, ClientMessages
    <3>3. OpenStep(c)  BY <3>1, <3>2 DEF OpenStep
    <3> QED  BY <3>1, <3>3 DEF OpenNext
  <2>2. CASE BridgeSideLoss(c)
    <3>1. DetachClient(c) /\ UNCHANGED <<lastDelivered, excused>>
      BY <2>2 DEF BridgeSideLoss, viewVars
    <3> QED  BY <3>1 DEF OpenNext, Next, ClientStep
  <2>3. CASE HelloLost(c)
    <3>1. Hangup(c) /\ UNCHANGED <<lastDelivered, excused>>
      BY <2>3 DEF HelloLost, clientVars, viewVars
    <3> QED  BY <3>1 DEF OpenNext, Next, ConnectionStep
  <2>4. CASE HandlerStep(c)
    <3>1. UNCHANGED <<lastDelivered, excused>>
      BY <2>4 DEF HandlerStep, clientVars, viewVars
    <3>2. CASE Attach(c, hello[c].lastAck, hello[c].mode)
      <4>1. hello[c].lastAck \in 0 .. nextSequence /\ hello[c].mode \in {"plain", "pending", "adaptive"}
        BY <1>0
      <4>2. OpenStep(c)  BY <3>2, <4>1 DEF OpenStep
      <4> QED  BY <3>1, <4>2 DEF OpenNext
    <3>3. CASE ~Attach(c, hello[c].lastAck, hello[c].mode)
      <4>1. ClientStep(c)  BY <2>4, <3>3 DEF HandlerStep, ClientStep
      <4> QED  BY <3>1, <4>1 DEF OpenNext, Next
    <3> QED  BY <3>2, <3>3
  <2> QED  BY <1>3, <2>1, <2>2, <2>3, <2>4
<1>4. ASSUME OpenNext PROVE nextSequence' \in {nextSequence, nextSequence + 1}
  BY <1>0, <1>4, PinnedMoves
<1> QED  BY <1>1, <1>2, <1>3, <1>4 DEF Aside

(* A frame that is read delivers the next event, or the first one after a  *)
(* disclosed gap; discloses a gap; sets a baseline; or does nothing to the *)
(* stream.                                                                 *)
LEMMA ReceiveRefines ==
  ASSUME SessionInv, Receive
  PROVE  \/ UNCHANGED <<nextSequence, lastDelivered, excused>>
         \/ Stream!Deliver \/ Stream!Disclose \/ Stream!Baseline
<1>1. link \in {"opening", "up"} /\ WriteFrame(channel) /\ Handle(Head(send[channel]))
  BY DEF Receive
<1>2. PICK c \in Conns : c = channel
  BY <1>1 DEF SessionInv, SessionTypeOK
<1> DEFINE q == send[c]
           f == q[1]
<1>3. q # <<>> /\ nextSequence' = nextSequence
  BY <1>1, <1>2 DEF WriteFrame, windowVars
<1>4. /\ nextSequence \in Nat /\ q \in Seq(Frames) /\ Head(q) = f
      /\ base[c] \in Nat /\ base[c] <= nextSequence /\ sent[c] \in Nat
      /\ disclosed[c] \in BOOLEAN
      /\ Flows(q, sent[c], Gone(c), nextSequence)
      /\ \A s \in Gone(c) : s <= base[c] /\ disclosed[c]
      /\ lastDelivered \in Nat /\ highWater \in Nat /\ windowHigh \in Nat /\ excused \in Nat
      /\ windowFrom \in 0 .. windowHigh /\ (windowHigh # 0 => lastDelivered < windowHigh)
      /\ link = "up" =>
           /\ highWater = base[c]
           /\ Serves(q, stage, windowHigh, windowFrom, Place(c), Needed(c), Have)
  BY <1>1, <1>2, <1>3, Reading
<1>5. highWater <= nextSequence /\ windowHigh <= excused /\ excused <= nextSequence
  BY DEF SessionInv, SessionData
<1>6. \/ GivesUp
      \/ GotHello(f) \/ GotOverflow(f) \/ GotPending(f) \/ GotEnd(f) \/ GotEvent(f) \/ GotBare(f)
  BY <1>1, <1>2, <1>3, <1>4, Outcomes
<1> HIDE DEF q, f
<1>7. CASE GivesUp \/ GotHello(f) \/ GotPending(f)
  BY <1>3, <1>7 DEF GivesUp, GotHello, GotPending, viewVars
<1>8. CASE GotOverflow(f)
  <2>1. /\ lastDelivered <= highWater /\ lastDelivered' = lastDelivered
        /\ excused' = IF highWater > excused THEN highWater ELSE excused
    BY <1>8 DEF GotOverflow
  <2>2. CASE highWater > excused
    <3>1. excused' \in lastDelivered .. nextSequence /\ excused' >= excused
      BY <1>4, <1>5, <2>1, <2>2
    <3>2. Stream!Disclose  BY <1>3, <2>1, <3>1 DEF Stream!Disclose
    <3> QED  BY <3>2
  <2>3. CASE ~(highWater > excused)
    BY <1>3, <2>1, <2>3
  <2> QED  BY <2>2, <2>3
<1>9. CASE GotEnd(f)
  <2>1. lastDelivered <= highWater /\ lastDelivered' = highWater /\ excused' = highWater
    BY <1>9 DEF GotEnd
  <2>2. lastDelivered' \in lastDelivered .. nextSequence
    BY <1>4, <1>5, <2>1
  <2>3. Stream!Baseline  BY <1>3, <2>1, <2>2 DEF Stream!Baseline
  <2> QED  BY <2>3
<1>10. CASE GotEvent(f)
  <2>1. /\ link = "up" /\ f.type = "event" /\ stage # "pending"
        /\ lastDelivered' = f.seq /\ excused' = excused
    BY <1>10 DEF GotEvent, CommitSequence
  <2>2. PlainRuns(q, stage, windowHigh, windowFrom, Place(c)) /\ IsEvent(q[1]) /\ f = q[1]
    BY <1>4, <2>1 DEF Serves, IsEvent, f
  <2> DEFINE p == Place(c)
  <2>3. /\ p.base \in Nat /\ p.last \in Nat /\ p.told \in BOOLEAN
        /\ windowHigh # 0 => p.last < windowHigh
        /\ PlainRuns(q, stage, windowHigh, windowFrom, p)
        /\ \A s \in Gone(c) : s <= p.base /\ p.told
        /\ Flows(q, p.sent, Gone(c), nextSequence)
        /\ p.last = lastDelivered
    BY <1>4, <2>2 DEF Place
  <2> HIDE DEF p
  <2>4. /\ q \in Seq(Frames) /\ q # <<>> /\ nextSequence \in Nat
        /\ windowHigh \in Nat /\ windowFrom \in 0 .. windowHigh
    BY <1>3, <1>4
  <2>5. /\ q[1].seq \in Nat /\ q[1].seq > p.last /\ q[1].seq <= nextSequence
        /\ windowHigh = 0 => q[1].seq = p.last + 1
        /\ windowHigh # 0 => q[1].seq = windowHigh + 1 \/ (windowFrom <= q[1].seq /\ q[1].seq <= windowHigh)
    BY <2>2, <2>3, <2>4, NextEvent
  <2>6. /\ f.seq \in lastDelivered + 1 .. nextSequence
        /\ f.seq = lastDelivered + 1 \/ f.seq <= excused + 1
    BY <1>4, <1>5, <2>2, <2>3, <2>5
  <2>7. Stream!Deliver  BY <1>3, <2>1, <2>6 DEF Stream!Deliver
  <2> QED  BY <2>7
<1>11. CASE GotBare(f)
  <2>1. CASE lastDelivered' = lastDelivered
    BY <1>3, <1>11, <2>1 DEF GotBare
  <2>2. CASE lastDelivered' # lastDelivered
    <3>1. /\ windowHigh # 0 /\ lastDelivered' = windowHigh /\ excused' = excused
          /\ link = "up" /\ stage # "pending"
      BY <1>11, <2>2 DEF GotBare
    <3>2. windowHigh \in lastDelivered + 1 .. nextSequence
      BY <1>4, <1>5, <3>1
    <3>3. Stream!Deliver  BY <1>3, <1>4, <1>5, <3>1, <3>2 DEF Stream!Deliver
    <3> QED  BY <3>3
  <2> QED  BY <2>1, <2>2
<1> QED  BY <1>6, <1>7, <1>8, <1>9, <1>10, <1>11

(* The bridge and the transport together promise the numbered stream: in   *)
(* every run the app gets each event once and in order (_commitSequence),  *)
(* from where it was or after a gap that was announced to it.              *)
THEOREM SessionIsAStream == SessionSpec => ImplementsStream
<1>1. SessionInit => Stream!Init
  BY DEF SessionInit, Init, Stream!Init
<1>2. SessionInv /\ [SessionNext]_sessionVars => [Stream!Next]_Stream!vars
  <2> SUFFICES ASSUME SessionInv, [SessionNext]_sessionVars
               PROVE  [Stream!Next]_Stream!vars
    OBVIOUS
  <2>1. ASSUME UNCHANGED <<nextSequence, lastDelivered, excused>> PROVE [Stream!Next]_Stream!vars
    BY <2>1 DEF Stream!vars
  <2>2. ASSUME Stream!Publish \/ Stream!Deliver \/ Stream!Disclose \/ Stream!Baseline \/ Stream!Restart
        PROVE  [Stream!Next]_Stream!vars
    BY <2>2 DEF Stream!Next
  <2>3. CASE Aside
    <3>1. UNCHANGED <<lastDelivered, excused>> /\ nextSequence' \in {nextSequence, nextSequence + 1}
      BY <2>3, AsidePublishes
    <3>2. CASE nextSequence' = nextSequence + 1
      <4>1. Stream!Publish  BY <3>1, <3>2 DEF Stream!Publish
      <4> QED  BY <2>2, <4>1
    <3> QED  BY <2>1, <3>1, <3>2
  <2>4. CASE OpenFails \/ ChannelLoss \/ ChannelDone \/ \E c \in Conns : OpenChannel(c)
    <3>1. UNCHANGED <<nextSequence, lastDelivered, excused>>
      BY <2>4 DEF OpenFails, ChannelLoss, ChannelDone, OpenChannel, LoseChannel, Accept, vars,
                  windowVars, viewVars
    <3> QED  BY <2>1, <3>1
  <2>5. CASE RestartApp
    <3>1. Stream!Restart  BY <2>5 DEF RestartApp, Stream!Restart, vars, windowVars
    <3> QED  BY <2>2, <3>1
  <2>6. CASE Receive
    BY <2>1, <2>2, <2>6, ReceiveRefines
  <2>7. CASE UNCHANGED sessionVars
    <3>1. UNCHANGED <<nextSequence, lastDelivered, excused>>
      BY <2>7 DEF sessionVars, vars, windowVars, clientVars, viewVars
    <3> QED  BY <2>1, <3>1
  <2> QED  BY <2>3, <2>4, <2>5, <2>6, <2>7, SessionSteps
<1> QED  BY <1>1, <1>2, SessionInvariant, PTL DEF SessionSpec, ImplementsStream, Stream!Spec
================================================================================
