----------------------------- MODULE AttachOutput -----------------------------
(***************************************************************************)
(* What the attach clients of a muxServer (src/remote/monkeymux/main.go)   *)
(* are sent of one window: their write queues, the gates in them, and the  *)
(* terminal queries of the program in the window, which one client at most *)
(* is to answer.                                                           *)
(*                                                                         *)
(* Output is the numbers of its chunks, history holds all of them, and a   *)
(* query goes by the number of its chunk.  A write is what it shows of the *)
(* output, the queries in it, and its size; the step of a thread that      *)
(* holds attachMu is one action.  The threads are the window's reader, the *)
(* timers that end its redraw pauses, each client's write loop, and the    *)
(* goroutines that watch the write of a query that is sent again.          *)
(***************************************************************************)
EXTENDS Naturals, Sequences, FiniteSets, SequencesExt, FiniteSetsExt

CONSTANTS
  Clients,    \* attach connections, as numbers from 1
  QueueLimit, \* attachWriteQueueLimitBytes; a chunk, a frame or its queries count 1
  ChunkLimit, \* attachWriteChunkBytes, in the same unit
  PendingLimit, \* pendingTerminalQueryLimitBytes; a chunk's queries count 1
  MaxPauses,  \* bound: redraws
  Scenarios,  \* bounds: how many clients are attached at first and attach later,
              \* which chunks ask, how often the rest happens
  NoClient

ASSUME OutputAssumption ==
  /\ IsFiniteSet(Clients) /\ Clients = 1 .. Cardinality(Clients) /\ NoClient = 0
  /\ {QueueLimit, ChunkLimit, PendingLimit, MaxPauses} \subseteq Nat
  /\ \A s \in Scenarios :
       /\ s \in [attached : 0 .. Cardinality(Clients), asking : Seq(BOOLEAN), redraws : BOOLEAN,
                 attach : Nat, focus : Nat, switch : Nat, pause : Nat, lose : Nat]
       /\ s.attach + s.focus + s.pause + s.switch <= MaxPauses

VARIABLES
  client,    \* attachClient: its queue, queuedBytes, open, the write in hand, ...
  focus,     \* registered clients in the order of their focusSequence
  awaited,   \* the client that a replay is owed: it has been given the focus
  arrived,   \* all that ever were, in the order of their sequence
  redraws, shown,      \* the window repaints itself on a resize; it is active
  emitted, queries,    \* outputGeneration; history: the chunks with queries
  reading,   \* what handleWindowOutput took under mu and has not written yet
  job,       \* reader and timers: a query whose writes are under way
  gates,     \* attachWriteGates that were decided
  results,   \* completions of writes that someone waits for
  pending, inFlight,   \* pendingTerminalQueries, pendingTerminalQueriesInFlight
  watches,   \* goroutines of watchTerminalQueryWrite
  paused, buffer,      \* redrawForwarding...: Paused, Buffer and QueryBuffer
  pauses, timers,      \* redrawForwardingGeneration, and timers that will fire
  missed,    \* history: queries dropped by a switch or for want of room
  answered,  \* history: queries answered by the server
  budget     \* what is left of the scenario

attachVars == <<focus, awaited, arrived>>
windowVars == <<redraws, shown, emitted, queries, reading, answered>>
queryVars  == <<pending, inFlight, watches, missed>>
pauseVars  == <<paused, buffer, pauses, timers>>
vars == <<client, attachVars, windowVars, job, gates, results, queryVars, pauseVars, budget>>

\* Who waits for a write: a window's reader, the timer of a pause, ...
Reader   == 0
Writers  == {Reader} \cup 1 .. MaxPauses
Resender == MaxPauses + 1
Attacher == MaxPauses + 2
Nobody   == MaxPauses + 3

NoToken == [who |-> Nobody, asks |-> {}, client |-> NoClient]
NoGate  == [token |-> NoToken, part |-> "none"]
NoWrite == [shows |-> {}, asks |-> {}, size |-> 0, token |-> NoToken, gate |-> NoGate]
NoJob   == [asks |-> {}, wait |-> NoClient, rest |-> <<>>, gated |-> {}, delivered |-> TRUE]
NoRead  == [chunk |-> 0, asks |-> {}, primary |-> NoClient, latest |-> 0]
NoBuffer == [asks |-> {}, primary |-> NoClient]
Away == [queue |-> <<>>, bytes |-> 0, open |-> TRUE, held |-> NoWrite, gone |-> FALSE,
         mark |-> 0, flush |-> FALSE, saw |-> {}, asked |-> {}]

Spend(event) == budget[event] > 0 /\ budget' = [budget EXCEPT ![event] = @ - 1]
Registered == ToSet(focus)
Primary == IF focus = <<>> THEN NoClient ELSE Last(focus)
History == 1 .. emitted

\* What is left of s: its members that are in K, in their order.
Kept(s, K) ==
  LET at == {i \in DOMAIN s : s[i] \in K}
      q  == CHOOSE p \in [1 .. Cardinality(at) -> at] :
              ToSet(p) = at /\ \A i, j \in DOMAIN p : i < j => p[i] < p[j]
  IN [i \in DOMAIN q |-> s[q[i]]]
Sequence(c) == CHOOSE i \in 1 .. Len(arrived) : arrived[i] = c

(***************************************************************************)
(* A client's queue                                                        *)
(***************************************************************************)
Plain(w) == w.token = NoToken /\ w.asks = {} /\ w.gate = NoGate
Data(shows, asks) == [NoWrite EXCEPT !.shows = shows, !.asks = asks,
                        !.size = Cardinality({s \in {"shows"} : shows # {}})
                               + Cardinality({a \in {"asks"} : asks # {}})]

Bytes(q) == SumFunction([i \in DOMAIN q |-> q[i].size])

Fits(r, w) == r.open /\ r.bytes + w.size <= QueueLimit

\* attachWritesCanCoalesce, and the append of enqueueWrite.
Joined(v, w) == [v EXCEPT !.shows = @ \cup w.shows, !.size = @ + w.size]
Appended(q, w) ==
  IF q # <<>> /\ Plain(w) /\ Plain(Last(q)) /\ Last(q).size + w.size <= ChunkLimit
    THEN Append(Front(q), Joined(Last(q), w)) ELSE Append(q, w)

\* Mutant: what is joined to the last write is not counted.
PutUncounted(r, w) ==
  LET q == Appended(r.queue, w) IN
  IF w.size = 0 THEN r
  ELSE IF Fits(r, w)
    THEN [r EXCEPT !.bytes = IF Len(q) = Len(r.queue) THEN @ ELSE @ + w.size, !.queue = q]
  ELSE [r EXCEPT !.open = FALSE]

\* enqueueWrite: nothing is queued when there is nothing to write, and a client
\* whose queue would overflow is closed.
Put(r, w) ==
  IF w.size = 0 THEN r
  ELSE IF Fits(r, w) THEN [r EXCEPT !.bytes = @ + w.size, !.queue = Appended(@, w)]
  ELSE [r EXCEPT !.open = FALSE]

PutTo(cs, w) == [c \in Clients |-> IF c \in cs THEN Put(client[c], w) ELSE client[c]]

Report(w, ok) ==
  results' = IF w.token = NoToken THEN results ELSE results \cup {[token |-> w.token, ok |-> ok]}

\* The write loop takes the first write ...
TakeWrite(c) ==
  LET r == client[c] IN
  /\ r.held = NoWrite /\ r.queue # <<>> /\ ~r.gone
  /\ client' = [client EXCEPT ![c].held = Head(r.queue), ![c].queue = Tail(r.queue)]
  /\ UNCHANGED <<attachVars, windowVars, job, gates, results, queryVars, pauseVars, budget>>

\* ... passes by it when its gate says so ...
Returned(r) == [r EXCEPT !.bytes = @ - r.held.size, !.held = NoWrite]

SkipWrite(c) ==
  LET w == client[c].held IN
  /\ w.gate # NoGate /\ [gate |-> w.gate, deliver |-> FALSE] \in gates
  /\ gates' = gates \ {[gate |-> w.gate, deliver |-> FALSE]}
  /\ client' = [client EXCEPT ![c] = Returned(@)]
  /\ UNCHANGED <<attachVars, windowVars, job, results, queryVars, pauseVars, budget>>

\* ... or writes it; the connection may have been closed meanwhile.
DeliverWrite(c) ==
  LET w == client[c].held
      g == [gate |-> w.gate, deliver |-> TRUE] IN
  /\ w # NoWrite /\ (w.gate # NoGate => g \in gates)
  /\ gates' = gates \ {g}
  /\ client' = [client EXCEPT ![c] = [Returned(client[c]) EXCEPT !.saw = @ \cup w.shows,
                                                                 !.asked = @ \cup w.asks]]
  /\ Report(w, TRUE)
  /\ UNCHANGED <<attachVars, windowVars, job, queryVars, pauseVars, budget>>

\* A write that fails closes the client, and so does its connection.
CloseClient(c) ==
  /\ c \in ToSet(arrived) /\ client[c].open /\ Spend("lose")
  /\ client' = [client EXCEPT ![c].open = FALSE]
  /\ UNCHANGED <<attachVars, windowVars, job, gates, results, queryVars, pauseVars>>

FailWrite(c) ==
  LET w == client[c].held IN
  /\ w # NoWrite /\ ~client[c].open
  /\ client' = [client EXCEPT ![c] = [Returned(@) EXCEPT !.gone = TRUE]] /\ Report(w, FALSE)
  /\ UNCHANGED <<attachVars, windowVars, job, gates, queryVars, pauseVars, budget>>

\* failQueuedWrites, at the end of the write loop.
FailQueued(c) ==
  LET r == client[c] IN
  /\ ~r.open /\ r.held = NoWrite /\ (r.queue # <<>> \/ ~r.gone)
  /\ client' = [client EXCEPT ![c] = [r EXCEPT !.queue = <<>>, !.gone = TRUE,
                  !.bytes = @ - Bytes(r.queue)]]
  /\ results' = results \cup {[token |-> w.token, ok |-> FALSE] :
                                w \in {v \in ToSet(r.queue) : v.token # NoToken}}
  /\ UNCHANGED <<attachVars, windowVars, job, gates, queryVars, pauseVars, budget>>

(***************************************************************************)
(* Queries that wait for a client                                          *)
(***************************************************************************)
\* Mutant: what waits already is replaced.
StoredInstead(asks) == IF asks = {} THEN pending ELSE asks

\* storePendingTerminalQueriesLocked: what does not fit is given up in silence.
NoRoom(asks) == Cardinality(pending) + Cardinality(asks) > PendingLimit
Stored(asks) == IF NoRoom(asks) THEN pending ELSE pending \cup asks
Store(asks) ==
  /\ pending' = Stored(asks)
  /\ missed' = IF NoRoom(asks) THEN missed \cup asks ELSE missed

\* enqueuePrimaryAttachLocked: the first that takes it, in the order of the
\* last focus f; those that refuse are closed.
Takers(cs, f, w) == {i \in 1 .. Len(f) : Fits(cs[f[i]], w)}
Taker(cs, f, w)  == IF Takers(cs, f, w) = {} THEN 0 ELSE Max(Takers(cs, f, w))
Offered(cs, f, w) ==
  [c \in Clients |-> IF \E i \in 1 .. Len(f) : f[i] = c /\ i >= Taker(cs, f, w)
                       THEN Put(cs[c], w) ELSE cs[c]]

Again(asks, c) == [Data({}, asks) EXCEPT !.token = [who |-> Resender, asks |-> asks, client |-> c]]
Watching(asks, flight, c) == [token |-> Again(asks, c).token, flight |-> flight]

\* restorePendingTerminalQueries for a flush that was in flight, and
\* storePendingTerminalQueriesLocked for any other.  The flush is no longer in
\* flight even if there is no room to put its queries back.
PutBack(asks, flight) == Store(asks) /\ inFlight' = IF flight THEN {} ELSE inFlight

\* redeliverTerminalQueries
Redeliver(asks, flight, others) ==
  LET i == IF shown THEN Taker(client, focus, Data({}, asks)) ELSE 0 IN
  IF i > 0
    THEN /\ client' = Offered(client, focus, Again(asks, focus[i]))
         /\ watches' = others \cup {Watching(asks, flight, focus[i])}
         /\ UNCHANGED <<pending, inFlight, missed>>
    ELSE /\ client' = IF shown THEN Offered(client, focus, Data({}, asks)) ELSE client
         /\ watches' = others /\ PutBack(asks, flight)

\* watchTerminalQueryWrite.
QuerySent(w) ==
  /\ [token |-> w.token, ok |-> TRUE] \in results
  /\ results' = results \ {[token |-> w.token, ok |-> TRUE]}
  /\ watches' = watches \ {w} /\ inFlight' = IF w.flight THEN {} ELSE inFlight
  /\ UNCHANGED <<client, attachVars, windowVars, job, gates, pending, missed, pauseVars, budget>>

QueryFailed(w) ==
  /\ [token |-> w.token, ok |-> FALSE] \in results
  /\ results' = results \ {[token |-> w.token, ok |-> FALSE]}
  /\ Redeliver(w.token.asks, w.flight, watches \ {w})
  /\ UNCHANGED <<attachVars, windowVars, job, gates, pauseVars, budget>>

\* flushPendingTerminalQueriesLocked for client c, when cs is what the clients
\* have become; one flush is in flight at a time.
Flushed(cs, c) ==
  LET i == Taker(cs, focus', Data({}, pending)) IN
  IF ~shown' \/ focus' = <<>> \/ inFlight # {} \/ pending = {}
    THEN client' = cs /\ UNCHANGED queryVars
  ELSE IF Last(focus') # c THEN client' = cs /\ UNCHANGED queryVars
  ELSE IF i = 0 THEN client' = Offered(cs, focus', Data({}, pending)) /\ UNCHANGED queryVars
  ELSE /\ client' = Offered(cs, focus', Again(pending, focus'[i]))
       /\ pending' = {} /\ inFlight' = pending
       /\ watches' = watches \cup {Watching(pending, TRUE, focus'[i])} /\ UNCHANGED missed

(***************************************************************************)
(* The window's output                                                     *)
(***************************************************************************)
Watched == shown /\ focus # <<>>

\* handleWindowOutput, under mu: while no client shows the window its queries
\* are answered from a client's hint or stored, and while it redraws they are
\* kept for the end of that.
Emit ==
  LET n == emitted + 1
      asking == budget.asking[n]
      asks == IF asking THEN {n} ELSE {} IN
  /\ n <= Len(budget.asking) /\ reading = NoRead /\ job[Reader] = NoJob
  /\ emitted' = n /\ queries' = queries \cup asks
  /\ IF Watched /\ ~paused
       THEN reading' = [chunk |-> n, asks |-> asks, primary |-> Primary, latest |-> Len(arrived)]
       ELSE UNCHANGED reading
  /\ buffer' = IF Watched /\ paused THEN [buffer EXCEPT !.asks = @ \cup asks] ELSE buffer
  /\ IF Watched THEN UNCHANGED <<pending, missed, answered>>
     ELSE \/ Store(asks) /\ UNCHANGED answered
          \/ asking /\ answered' = answered \cup asks /\ UNCHANGED <<pending, missed>>
  /\ UNCHANGED <<client, attachVars, redraws, shown, job, gates, results, inFlight, watches,
                 paused, pauses, timers, budget>>

\* Mutant: the first chunk after the replay is taken for a part of it.
SuppressesNext(c, n) == n <= client[c].mark + 1

\* suppressesReplayedOutput: the replay that a client was sent had the chunk.
\* A mark that a chunk has passed suppresses no later one: it may as well stay.
Suppresses(c, n) == n <= client[c].mark

Informed(c, w, n) == IF Suppresses(c, n) THEN client[c] ELSE Put(client[c], w)

\* The writes of a query: the first client's is made at once, every other's
\* waits behind a gate, and so does what it shows if it need not ask.
Asked(t, c, shows, asks) ==
  [Data(shows, asks) EXCEPT !.token = [who |-> t, asks |-> asks, client |-> c]]
GateOf(t, c, asks, part) ==
  [token |-> [who |-> t, asks |-> asks, client |-> c], part |-> part]
AskGated(t, c, shows, asks) ==
  [Asked(t, c, shows, asks) EXCEPT !.gate = GateOf(t, c, asks, "ask")]
RestGated(t, c, shows, asks) ==
  [Data(shows, {}) EXCEPT !.gate = GateOf(t, c, asks, "rest")]

\* first, or NoClient; others in the order in which they may have to ask; what
\* each is to be shown.
Launch(t, first, others, shows, asks) ==
  LET takes(c) == Fits(client[c], AskGated(t, c, shows[c], asks))
      asked(c) == Put(client[c], AskGated(t, c, shows[c], asks))
      rest(c)  == takes(c) /\ Fits(asked(c), RestGated(t, c, shows[c], asks)) /\ shows[c] # {} IN
  /\ client' = [c \in Clients |->
       IF c = first THEN Put(client[c], Asked(t, c, shows[c], asks))
       ELSE IF c \notin ToSet(others) THEN client[c]
       ELSE IF takes(c) THEN Put(asked(c), RestGated(t, c, shows[c], asks))
       ELSE asked(c)]
  /\ job' = [job EXCEPT ![t] =
       [asks |-> asks, delivered |-> FALSE,
        wait |-> IF first # NoClient /\ Fits(client[first], Asked(t, first, shows[first], asks))
                   THEN first ELSE NoClient,
        rest |-> Kept(others, {c \in Clients : takes(c)}), gated |-> {c \in ToSet(others) : rest(c)}]]

\* writeAttachOutputIfActive: a window that is not shown any more drops the
\* chunk, which its replay will hold.
WriteOutput ==
  LET n == reading.chunk
      known == {c \in Registered : Sequence(c) <= reading.latest}
      first == IF reading.primary \in known THEN reading.primary ELSE NoClient
      shows == [c \in Clients |-> IF c \in known /\ ~Suppresses(c, n) THEN {n} ELSE {}] IN
  /\ reading # NoRead /\ reading' = NoRead
  /\ IF ~shown THEN missed' = missed \cup reading.asks /\ UNCHANGED <<client, job>>
     ELSE IF reading.asks = {}
       THEN /\ client' = [c \in Clients |->
                 IF c \in known THEN Informed(c, Data({n}, {}), n) ELSE client[c]]
            /\ UNCHANGED <<missed, job>>
       ELSE /\ Launch(Reader, first, Kept(Reverse(focus), Clients \ {first}), shows, reading.asks)
            /\ UNCHANGED missed
  /\ UNCHANGED <<attachVars, redraws, shown, emitted, queries, answered, gates, results,
                 pending, inFlight, watches, pauseVars, budget>>

\* The thread that made them waits for the first write ...
Waiting(t) == job[t] # NoJob /\ job[t].wait # NoClient
ResultOf(t, ok) == [token |-> [who |-> t, asks |-> job[t].asks, client |-> job[t].wait], ok |-> ok]

AwaitPrimary(t) ==
  /\ Waiting(t) /\ (job[t].rest # <<>> => Head(job[t].rest) # job[t].wait)
  /\ \E ok \in BOOLEAN :
       /\ ResultOf(t, ok) \in results /\ results' = results \ {ResultOf(t, ok)}
       /\ job' = [job EXCEPT ![t].wait = NoClient, ![t].delivered = ok]
  /\ UNCHANGED <<client, attachVars, windowVars, gates, queryVars, pauseVars, budget>>

\* Mutant: every fallback is let through.
DecidedAlways(t, c, part, deliver) ==
  [gate |-> GateOf(t, c, job[t].asks, part), deliver |-> deliver \/ part = "ask"]

\* Mutant: the gate of what a fallback need not be shown is left shut.
RestForgotten(t, c, deliver) ==
  IF c \in job[t].gated /\ deliver
    THEN {[gate |-> GateOf(t, c, job[t].asks, "rest"), deliver |-> TRUE]} ELSE {}

\* ... then has the others ask, one after the other, until one has.
Decided(t, c, part, deliver) == [gate |-> GateOf(t, c, job[t].asks, part), deliver |-> deliver]
RestDecided(t, c, deliver) ==
  IF c \in job[t].gated THEN {Decided(t, c, "rest", deliver)} ELSE {}

PassFallback(t) ==
  LET c == Head(job[t].rest) IN
  /\ job[t].rest # <<>> /\ job[t].wait = NoClient /\ job[t].delivered
  /\ gates' = gates \cup {Decided(t, c, "ask", FALSE)} \cup RestDecided(t, c, TRUE)
  /\ job' = [job EXCEPT ![t].rest = Tail(@)]
  /\ UNCHANGED <<client, attachVars, windowVars, results, queryVars, pauseVars, budget>>

TryFallback(t) ==
  LET c == Head(job[t].rest) IN
  /\ job[t].rest # <<>> /\ job[t].wait = NoClient /\ ~job[t].delivered
  /\ gates' = gates \cup {Decided(t, c, "ask", TRUE)}
  /\ job' = [job EXCEPT ![t].wait = c]
  /\ UNCHANGED <<client, attachVars, windowVars, results, queryVars, pauseVars, budget>>

AwaitFallback(t) ==
  LET c == Head(job[t].rest) IN
  /\ Waiting(t) /\ job[t].rest # <<>> /\ c = job[t].wait
  /\ \E ok \in BOOLEAN :
       /\ ResultOf(t, ok) \in results /\ results' = results \ {ResultOf(t, ok)}
       /\ job' = [job EXCEPT ![t].wait = NoClient, ![t].rest = Tail(@), ![t].delivered = ok]
  /\ gates' = gates \cup RestDecided(t, c, FALSE)
  /\ UNCHANGED <<client, attachVars, windowVars, queryVars, pauseVars, budget>>

\* A query that nobody was asked is sent again.
EndJob(t) ==
  /\ job[t] # NoJob /\ job[t].rest = <<>> /\ job[t].wait = NoClient
  /\ job' = [job EXCEPT ![t] = NoJob]
  /\ IF job[t].delivered THEN UNCHANGED <<client, queryVars>>
     ELSE Redeliver(job[t].asks, FALSE, watches)
  /\ UNCHANGED <<attachVars, windowVars, gates, results, pauseVars, budget>>

(***************************************************************************)
(* Redraws                                                                 *)
(***************************************************************************)
\* pauseAttachForwardingForRedrawLocked: output is kept back until the program
\* has repainted; a pause that starts again keeps the queries.
Paused ==
  /\ paused' = TRUE /\ pauses' = pauses + 1 /\ timers' = timers \cup {pauses'}
  /\ buffer' = [asks |-> buffer.asks,
                primary |-> IF buffer.asks # {} /\ buffer.primary \in ToSet(focus')
                              THEN buffer.primary ELSE Last(focus')]
PausedIf(p) == IF p /\ redraws /\ focus' # <<>> THEN Paused ELSE UNCHANGED pauseVars

Pause ==
  /\ Watched /\ redraws /\ Spend("pause") /\ UNCHANGED attachVars /\ Paused
  /\ UNCHANGED <<client, windowVars, job, gates, results, queryVars>>

\* A replay: the history, unless the program repaints what is on the screen.
Frame(shows) == [NoWrite EXCEPT !.shows = shows, !.size = 1]
Replay == Frame(IF redraws THEN {} ELSE History)

\* resumePausedAttachForwarding: the repainted frame, and the queries that were
\* kept.
ResumeWrites(g, first) ==
  LET others == IF shown THEN Kept(Reverse(focus), Clients \ {first}) ELSE <<>> IN
  IF buffer.asks # {} THEN Launch(g, first, others, [c \in Clients |-> History], buffer.asks)
  ELSE client' = PutTo(IF shown THEN Registered ELSE {}, Frame(History)) /\ UNCHANGED job

\* The timer of an earlier pause does nothing.
Resume(g) ==
  LET first == IF ~shown THEN NoClient
               ELSE IF buffer.primary \in Registered THEN buffer.primary ELSE Primary IN
  /\ g \in timers /\ timers' = timers \ {g}
  /\ IF paused /\ g = pauses
       THEN paused' = FALSE /\ buffer' = NoBuffer /\ ResumeWrites(g, first)
       ELSE UNCHANGED <<client, job, paused, buffer>>
  /\ UNCHANGED <<attachVars, windowVars, gates, results, queryVars, pauses, budget>>

(***************************************************************************)
(* Clients and windows come and go                                         *)
(***************************************************************************)
\* terminalViewportTransitionSafe
Safe == reading = NoRead /\ job[Reader] = NoJob /\ ~paused

\* handleAttach: the replay is sent, and once it is the queries that waited.
Attach(c) ==
  LET w == [Replay EXCEPT !.token = [who |-> Attacher, asks |-> {}, client |-> c]] IN
  /\ c \notin ToSet(arrived) /\ c - 1 \in {0} \cup ToSet(arrived) /\ (shown => Safe) /\ Spend("attach")
  /\ focus' = Append(focus, c) /\ arrived' = Append(arrived, c) /\ awaited' = NoClient
  /\ client' = [client EXCEPT ![c] =
       IF shown THEN Put([@ EXCEPT !.mark = emitted, !.flush = TRUE], w) ELSE @]
  /\ UNCHANGED <<windowVars, job, gates, results, queryVars, pauseVars>>

FlushAttached(c) ==
  LET r(ok) == [token |-> [who |-> Attacher, asks |-> {}, client |-> c], ok |-> ok]
      cs == [client EXCEPT ![c].flush = FALSE] IN
  /\ client[c].flush /\ UNCHANGED <<attachVars, windowVars>>
  /\ \E ok \in BOOLEAN :
       /\ r(ok) \in results /\ results' = results \ {r(ok)}
       /\ PausedIf(ok /\ c \in Registered)
  /\ Flushed(cs, c)
  /\ UNCHANGED <<job, gates, budget>>

\* focusAttachClientLocked, and the replay that it owes a new primary client.
Focus(c) ==
  /\ c \in Registered /\ Spend("focus")
  /\ focus' = Append(Kept(focus, Clients \ {c}), c)
  /\ awaited' \in IF c = Primary THEN {awaited} ELSE {NoClient, c}
  /\ UNCHANGED <<client, arrived, windowVars, job, gates, results, queryVars, pauseVars>>

ReplayFocused ==
  LET c == awaited
      cs == [client EXCEPT ![c] = Put([@ EXCEPT !.mark = emitted], Replay)] IN
  /\ awaited # NoClient /\ awaited' = NoClient /\ shown /\ Safe
  /\ UNCHANGED <<focus, arrived, windowVars>>
  /\ IF Fits(client[c], Replay) THEN PausedIf(TRUE) /\ Flushed(cs, c)
     ELSE client' = [cs EXCEPT ![c].mark = 0] /\ UNCHANGED <<queryVars, pauseVars>>
  /\ UNCHANGED <<job, gates, results, budget>>

\* selectWindowWithSkip: another window, and this one again.
Hide ==
  /\ shown /\ shown' = FALSE /\ awaited' \in {awaited, NoClient} /\ Spend("switch")
  /\ UNCHANGED <<client, focus, arrived, redraws, emitted, queries, reading, answered,
                 job, gates, results, queryVars, pauseVars>>

Show ==
  /\ ~shown /\ shown' = TRUE /\ awaited' \in {awaited, NoClient}
  /\ UNCHANGED <<focus, arrived, redraws, emitted, queries, reading, answered>>
  /\ PausedIf(TRUE)
  /\ Flushed(PutTo(IF redraws THEN {} ELSE Registered, Replay), Primary)
  /\ UNCHANGED <<job, gates, results, budget>>

\* removeAttachClient
Leave(c) ==
  /\ c \in Registered /\ IF client[c].open THEN Spend("lose") ELSE UNCHANGED budget
  /\ focus' = Kept(focus, Clients \ {c})
  /\ awaited' = IF awaited = c THEN NoClient ELSE awaited
  /\ client' = [client EXCEPT ![c].open = FALSE]
  /\ UNCHANGED <<arrived, windowVars, job, gates, results, queryVars, pauseVars>>

(***************************************************************************)
(* The specification                                                       *)
(***************************************************************************)
\* At first nothing has been written yet to those that are attached.
Init ==
  \E s \in Scenarios : LET n == s.attached IN
    /\ budget = s /\ redraws = s.redraws /\ shown = TRUE
    /\ client = [c \in Clients |-> Away] /\ awaited = NoClient
    /\ focus = [i \in 1 .. n |-> i] /\ arrived = focus
    /\ emitted = 0 /\ queries = {} /\ reading = NoRead /\ missed = {} /\ answered = {}
    /\ job = [t \in Writers |-> NoJob] /\ gates = {} /\ results = {}
    /\ pending = {} /\ inFlight = {} /\ watches = {}
    /\ paused = FALSE /\ buffer = NoBuffer /\ pauses = 0 /\ timers = {}

ClientStep(c) ==
  \/ TakeWrite(c) \/ SkipWrite(c) \/ DeliverWrite(c) \/ FailWrite(c) \/ FailQueued(c)
  \/ FlushAttached(c)

ServerStep ==
  \/ WriteOutput \/ ReplayFocused
  \/ \E w \in watches : QuerySent(w) \/ QueryFailed(w)
  \/ \E t \in Writers :
       AwaitPrimary(t) \/ PassFallback(t) \/ TryFallback(t) \/ AwaitFallback(t) \/ EndJob(t)
  \/ \E g \in timers : Resume(g)

Outside ==
  \/ Emit
  \/ \E c \in Clients : Attach(c) \/ CloseClient(c) \/ Focus(c) \/ Leave(c)
  \/ Pause \/ Hide \/ Show

Next == Outside \/ ServerStep \/ \E c \in Clients : ClientStep(c)

Spec == Init /\ [][Next]_vars

(***************************************************************************)
(* Properties                                                              *)
(***************************************************************************)
\* queuedBytes is the size of what is queued or being written, and bounded.
OutputTypes ==
  /\ \A c \in Clients : LET r == client[c] IN
       /\ r.bytes = r.held.size + Bytes(r.queue) /\ r.bytes <= QueueLimit
       /\ r.mark \in 0 .. emitted /\ r.asked \subseteq queries
  /\ Registered \subseteq ToSet(arrived) /\ awaited \in Registered \cup {NoClient}
  /\ timers \subseteq 1 .. pauses /\ pauses <= MaxPauses /\ inFlight \subseteq queries
  /\ \A t \in Writers : job[t].gated \subseteq Clients

\* Simultaneous terminals never answer one query twice: it is written to one.
AskedOnce ==
  \A c, d \in Clients : c # d => client[c].asked \cap client[d].asked = {}

\* A query is asked of a client, answered by the server or on its way to one
\* of these, whatever connections fail meanwhile.  There are two exceptions:
\* what a switch of the window drops between reading and writing, and what is
\* to wait, for the first time or again, when as much waits as there is room for.
OnItsWay ==
  pending \cup inFlight \cup buffer.asks \cup reading.asks
    \cup (UNION {job[t].asks : t \in Writers}) \cup (UNION {w.token.asks : w \in watches})

NotLost ==
  queries \subseteq OnItsWay \cup missed \cup answered \cup (UNION {client[c].asked : c \in Clients})

\* When all is written, an attached client has been sent all of the output of
\* the window it is shown, by replays, redraws or as it came.
Resting ==
  /\ reading = NoRead /\ timers = {} /\ watches = {}
  /\ \A t \in Writers : job[t] = NoJob
  /\ \A c \in Clients : client[c].queue = <<>> /\ client[c].held = NoWrite /\ ~client[c].flush

NoGap ==
  Resting /\ shown => \A c \in Registered : client[c].open => History \subseteq client[c].saw

\* Whoever waits for a gate, or for a write, does not wait for ever.
WritersGoOn ==
  Resting \/ (ENABLED ServerStep) \/ \E c \in Clients : ENABLED ClientStep(c)
=============================================================================
