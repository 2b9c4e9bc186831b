------------------------------ MODULE AcpBridge ------------------------------
(***************************************************************************)
(* The ACP bridge daemon (src/remote/monkeymux/acp_bridge.go): one         *)
(* provider process whose newline-delimited output is sequenced, retained  *)
(* in a bounded replay window and fanned out to the attached clients, one  *)
(* of which holds the writer lease and may send input to the provider.     *)
(*                                                                         *)
(* Goroutines and the variable that holds where each one stands:           *)
(*   reader   readProviderOutput, and failProviderProtocol which it runs   *)
(*   waiter   waitForProvider                                              *)
(*   stopper  the one caller that gets to run the body of stop             *)
(*   pc[c]    the connection handler of c (hello, reader loop, command)    *)
(*   the writer of c, writeClient, is the action WriteFrame(c)             *)
(* One action is one critical section of bridge.mu, or one call that waits *)
(* for something outside the bridge.                                       *)
(*                                                                         *)
(* A connection stands for its clientID as well: the code draws a fresh    *)
(* one for every attach, and here a connection is taken again only after   *)
(* its handler returned.  The ack a client reports is stored by recordAck  *)
(* and never read, so only its effect on lastActivity is kept.             *)
(***************************************************************************)
EXTENDS AcpReplay, Sequences, SequencesExt

CONSTANTS
  Conns,                \* connections accepted on the bridge's socket
  NoClient,             \* the empty writerClientID
  ClientRequests,       \* ids of JSON-RPC requests clients send (UUIDs)
  Initializes,          \* those whose method is initialize
  SessionSetups,        \* those whose method is session/new, load, resume, fork
  ProviderRequests,     \* ids of JSON-RPC requests the provider sends
  Note,                 \* the id of a message without one
  EventSizes,           \* sizes of provider frames
  OutputKinds,          \* what it prints: "request", "result", "failure", "note",
                        \* "bare" (JSON, but no object), "garbled" (not UTF-8)
  InputKinds,           \* what clients send: "request", "reply", "note", "invalid"
  Commands,             \* what commands reach the daemon: "stop", "gc", "other"
  Modes,                \* replay modes clients ask for: "plain", "pending", "adaptive"
  LastAcks,             \* the sequence numbers clients resume from
  Faults,               \* what goes wrong: "disconnect", "garbage", "exit", "held"
  LiveCapacity,         \* acpClientLiveQueueCapacity
  QueueMargin,          \* acpAttachQueueSafetyMargin
  MaxSequence           \* bound: provider output stops here, states may follow

ASSUME BridgeAssumption ==
  /\ NoClient \notin Conns
  /\ Initializes \subseteq ClientRequests
  /\ SessionSetups \subseteq ClientRequests
  /\ ClientRequests \cap ProviderRequests = {}
  /\ Note \notin ClientRequests \cup ProviderRequests
  /\ EventSizes \subseteq Nat \ {0}
  /\ OutputKinds \subseteq {"request", "result", "failure", "note", "bare", "garbled"}
  /\ InputKinds \subseteq {"request", "reply", "note", "invalid"}
  /\ Commands \subseteq {"stop", "gc", "other"}
  /\ Modes \subseteq {"plain", "pending", "adaptive"}
  /\ LastAcks \subseteq Nat
  /\ Faults \subseteq {"disconnect", "garbage", "exit", "held"}
  /\ LiveCapacity \in Nat \ {0}
  /\ QueueMargin \in Nat \ {0}
  /\ MaxSequence \in Nat

VARIABLES
  nextSequence,
  replay, replayBytes, pendingReplayEvents, pendingReplayBytes,
  state,                \* "running", "protocol_error", "exited", "stopped"
  clients,              \* the registered connections
  writerClientID,
  pendingRequests, inFlightTurns,
  initializeRequestIDs, initializeResult, \* ids; has a result been cached?
  sessionSetupRequests, sessionID,  \* ids; the one whose identity was committed
  idle,                 \* has lastActivity been acpIdleTimeout ago?
  stdin,                \* is the provider's input pipe still owned?
  reapAllowed,          \* providerReapAllowed
  reader, waiter, stopper,
  pc, msg,              \* handler state; the input frame it is working on
  send, capacity,       \* the clients' queues (closed with their connection)
  base, sent, disclosed,  \* history, per attach: nextSequence at registration,
                          \* last sequence written, was a gap announced?
  provider,             \* environment: is the process group alive?
  held,                 \* environment: a stray process keeps stdout open
  asked,                \* environment: its requests whose reply it has not got
  owed                  \* environment: requests it has got and not answered

windowVars == <<nextSequence, replay, replayBytes, pendingReplayEvents,
                pendingReplayBytes>>
bookVars   == <<pendingRequests, inFlightTurns, initializeRequestIDs,
                initializeResult, sessionSetupRequests, sessionID>>
leaseVars  == <<clients, writerClientID>>
lifeVars   == <<state, stdin, reapAllowed, provider, held>>
threadVars == <<reader, waiter, stopper>>
handlerVars == <<pc, msg>>
queueVars  == <<send, capacity, base, sent, disclosed>>
peerVars   == <<asked, owed>>
vars == <<windowVars, bookVars, leaseVars, lifeVars, threadVars, handlerVars,
          queueVars, peerVars, idle>>

(***************************************************************************)
(* Frames and messages                                                     *)
(***************************************************************************)
Event(kind, id, bytes) ==
  [kind |-> kind, id |-> id, bytes |-> bytes, pinned |-> kind = "request"]

Events ==
  [kind : {"request", "result", "failure", "note", "bare", "garbled", "state"},
   id : ProviderRequests \cup ClientRequests \cup {Note, "protocol_error", "exited"},
   bytes : Nat, pinned : BOOLEAN]

(* A state frame carries no payload: it counts as the overhead of one.     *)
StateEvent(s) == Event("state", s, 1)

EventFrame(s, e) == [type |-> "event", seq |-> s, kind |-> e.kind, id |-> e.id]

NoMsg == [kind |-> "none", id |-> Note]

ClientMessages ==
  [kind : {"request"}, id : ClientRequests] \cup
  [kind : {"reply"}, id : ProviderRequests] \cup
  [kind : {"note", "invalid"}, id : {Note}]

(* What the provider may print: a request of its own under an id that is   *)
(* not in use, an answer to a request it has got, or a notification.  What *)
(* json.Valid takes is published, so a line that is an array or a scalar,  *)
(* and one with invalid UTF-8 in a string, passes for a notification.      *)
FreshRequests ==
  ProviderRequests \ (asked \cup pendingRequests \cup {msg[c].id : c \in Conns}
                      \cup {replay[s].id : s \in DOMAIN replay})

ProviderOutputs ==
  {e \in {Event("request", i, b) : i \in FreshRequests, b \in EventSizes} \cup
         {Event(k, i, b) : k \in {"result", "failure"}, i \in owed, b \in EventSizes} \cup
         {Event(k, Note, b) : k \in {"note", "bare", "garbled"}, b \in EventSizes} :
     e.kind \in OutputKinds}

(***************************************************************************)
(* publish: one critical section                                           *)
(***************************************************************************)
PendingLimitReached(e) ==
  /\ e.kind = "request"
  /\ \/ pendingReplayEvents >= PendingMaxEvents
     \/ pendingReplayBytes + e.bytes > PendingMaxBytes

(* Provider responses settle the client request they answer.               *)
SettleResponse(e) ==
  LET answers == e.kind \in {"result", "failure"}
      ok      == e.kind = "result"
  IN /\ pendingRequests' = IF e.kind = "request" THEN pendingRequests \cup {e.id}
                                                 ELSE pendingRequests
     /\ inFlightTurns' = IF answers THEN inFlightTurns \ {e.id} ELSE inFlightTurns
     /\ initializeResult' = (initializeResult \/ (ok /\ e.id \in initializeRequestIDs))
     /\ initializeRequestIDs' =
          IF answers THEN initializeRequestIDs \ {e.id} ELSE initializeRequestIDs
     /\ sessionID' = IF ok /\ e.id \in sessionSetupRequests THEN e.id ELSE sessionID
     /\ sessionSetupRequests' =
          IF answers THEN sessionSetupRequests \ {e.id} ELSE sessionSetupRequests

(* Mutant: the event is numbered one too far ahead.                        *)
AppendAhead(e) ==
  LET n        == nextSequence + 2
      appended == [s \in DOMAIN replay \cup {n} |-> IF s = n THEN e ELSE replay[s]]
      total    == replayBytes + e.bytes
  IN /\ replay' = Trim(appended, total)
     /\ replayBytes' = total - Bytes(appended, Evicted(appended, total))
     /\ pendingReplayEvents' = pendingReplayEvents + (IF e.pinned THEN 1 ELSE 0)
     /\ pendingReplayBytes' = pendingReplayBytes + (IF e.pinned THEN e.bytes ELSE 0)

AppendReplay(e) ==
  LET n        == nextSequence + 1
      appended == [s \in DOMAIN replay \cup {n} |-> IF s = n THEN e ELSE replay[s]]
      total    == replayBytes + e.bytes
  IN /\ replay' = Trim(appended, total)
     /\ replayBytes' = total - Bytes(appended, Evicted(appended, total))
     /\ pendingReplayEvents' = pendingReplayEvents + (IF e.pinned THEN 1 ELSE 0)
     /\ pendingReplayBytes' = pendingReplayBytes + (IF e.pinned THEN e.bytes ELSE 0)

(* A client whose queue is full is detached on the spot; the others get    *)
(* the event.                                                              *)
FanOut(e) ==
  LET full == {c \in clients : Len(send[c]) >= capacity[c]}
  IN /\ clients' = clients \ full
     /\ writerClientID' = IF writerClientID \in full THEN NoClient ELSE writerClientID
     /\ send' = [c \in Conns |->
                   IF c \in clients \ full
                   THEN Append(send[c], EventFrame(nextSequence + 1, e))
                   ELSE send[c]]

Publish(e) ==
  /\ SettleResponse(e)
  /\ AppendReplay(e)
  /\ nextSequence' = nextSequence + 1
  /\ FanOut(e)
  /\ idle' = FALSE
  /\ UNCHANGED <<capacity, base, sent, disclosed>>

(***************************************************************************)
(* The reader of the provider's output                                     *)
(***************************************************************************)
(* A line is read and published.  Output a dead provider left in the pipe  *)
(* is still read.                                                          *)
ProviderOutput ==
  /\ reader = "reading"
  /\ nextSequence < MaxSequence
  /\ \E e \in ProviderOutputs :
       IF PendingLimitReached(e)
       THEN /\ reader' = "failed"
            /\ UNCHANGED <<windowVars, bookVars, leaseVars, queueVars, peerVars, idle>>
       ELSE /\ Publish(e)
            /\ asked' = IF e.kind = "request" THEN asked \cup {e.id} ELSE asked
            /\ owed' = owed \ {e.id}
            /\ UNCHANGED reader
  /\ UNCHANGED <<lifeVars, waiter, stopper, handlerVars>>

(* A malformed or oversized line, or a read cut short by the drain timeout. *)
ProviderGarbage ==
  /\ reader = "reading"
  /\ "garbage" \in Faults \/ waiter = "drainwait"
  /\ reader' = "failed"
  /\ UNCHANGED <<windowVars, bookVars, leaseVars, lifeVars, waiter, stopper,
                 handlerVars, queueVars, peerVars, idle>>

(* The provider closed its output or died; a stray process that inherited  *)
(* the pipe keeps it open beyond that.                                     *)
ProviderEOF ==
  /\ reader = "reading"
  /\ provider = "dead" \/ "exit" \in Faults
  /\ ~held
  /\ reader' = "eof"
  /\ UNCHANGED <<windowVars, bookVars, leaseVars, lifeVars, waiter, stopper,
                 handlerVars, queueVars, peerVars, idle>>

(* failProviderProtocol, in four steps of the reader.                      *)
StampFailure ==        \* mutant: whatever the state was
  /\ reader = "failed"
  /\ state' = "protocol_error"
  /\ idle' = FALSE
  /\ reader' = "announcing"
  /\ UNCHANGED <<windowVars, bookVars, leaseVars, stdin, reapAllowed, provider,
                 held, waiter, stopper, handlerVars, queueVars, peerVars>>

FailState ==
  /\ reader = "failed"
  /\ state' = IF state = "running" THEN "protocol_error" ELSE state
  /\ idle' = IF state = "running" THEN FALSE ELSE idle
  /\ reader' = "announcing"
  /\ UNCHANGED <<windowVars, bookVars, leaseVars, stdin, reapAllowed, provider,
                 held, waiter, stopper, handlerVars, queueVars, peerVars>>

FailPublish ==
  /\ reader = "announcing"
  /\ Publish(StateEvent("protocol_error"))
  /\ reader' = "closing"
  /\ UNCHANGED <<lifeVars, waiter, stopper, handlerVars, peerVars>>

(* closeProviderInput and stopProviderProcess, shared with stop.           *)
CloseProviderInput == stdin' = FALSE

StopProviderProcess ==
  /\ provider' = IF reapAllowed THEN provider ELSE "dead"
  /\ reapAllowed' = TRUE

FailClose ==
  /\ reader = "closing"
  /\ CloseProviderInput
  /\ reader' = "killing"
  /\ UNCHANGED <<windowVars, bookVars, leaseVars, state, reapAllowed, provider,
                 held, waiter, stopper, handlerVars, queueVars, peerVars, idle>>

FailStop ==
  /\ reader = "killing"
  /\ StopProviderProcess
  /\ reader' = "eof"
  /\ UNCHANGED <<windowVars, bookVars, leaseVars, state, stdin, held, waiter,
                 stopper, handlerVars, queueVars, peerVars, idle>>

(***************************************************************************)
(* waitForProvider                                                         *)
(***************************************************************************)
ReaderDone == reader = "eof"

(* The leader is reaped once a stop opened the reap gate, or once the      *)
(* output ended and no member of the group is left.                        *)
ReapProvider ==
  /\ waiter = "waiting"
  /\ provider = "dead"
  /\ reapAllowed \/ ReaderDone
  /\ reapAllowed' = TRUE
  /\ waiter' = "draining"
  /\ UNCHANGED <<windowVars, bookVars, leaseVars, state, stdin, provider, held,
                 reader, stopper, handlerVars, queueVars, peerVars, idle>>

DrainForever ==        \* mutant: no timeout, the waiter waits for the reader
  /\ waiter = "draining"
  /\ ReaderDone
  /\ waiter' = "drainwait"
  /\ UNCHANGED <<windowVars, bookVars, leaseVars, lifeVars, reader, stopper,
                 handlerVars, queueVars, peerVars, idle>>

DrainTimeout ==
  /\ waiter = "draining"
  /\ ~ReaderDone
  /\ waiter' = "drainwait"
  /\ UNCHANGED <<windowVars, bookVars, leaseVars, lifeVars, reader, stopper,
                 handlerVars, queueVars, peerVars, idle>>

(* releaseAllPendingReplayLocked resets the counters instead of counting.  *)
ReleaseWithoutBytes ==  \* mutant: one of the two counters is forgotten
  LET free == Unpin(replay, DOMAIN replay)
  IN /\ replay' = Trim(free, replayBytes)
     /\ replayBytes' = replayBytes - Bytes(free, Evicted(free, replayBytes))
     /\ pendingReplayEvents' = 0
     /\ UNCHANGED pendingReplayBytes

ReleaseAllPendingReplay ==
  LET free == Unpin(replay, DOMAIN replay)
  IN /\ replay' = Trim(free, replayBytes)
     /\ replayBytes' = replayBytes - Bytes(free, Evicted(free, replayBytes))
     /\ pendingReplayEvents' = 0
     /\ pendingReplayBytes' = 0

ProviderExited ==
  /\ waiter \in {"draining", "drainwait"}
  /\ ReaderDone
  /\ state' = IF state = "stopped" THEN "stopped" ELSE "exited"
  /\ idle' = IF state = "stopped" THEN idle ELSE FALSE
  /\ pendingRequests' = {}
  /\ inFlightTurns' = {}
  /\ ReleaseAllPendingReplay
  /\ waiter' = "exiting"
  /\ UNCHANGED <<nextSequence, initializeRequestIDs, initializeResult,
                 sessionSetupRequests, sessionID, leaseVars, stdin, reapAllowed,
                 provider, held, reader, stopper, handlerVars, queueVars, peerVars>>

PublishExit ==
  /\ waiter = "exiting"
  /\ Publish(StateEvent("exited"))
  /\ waiter' = "done"
  /\ UNCHANGED <<lifeVars, reader, stopper, handlerVars, peerVars>>

(***************************************************************************)
(* stop: the body of stopOnce.  A second caller only waits for the first.  *)
(***************************************************************************)
BeginStop ==
  /\ stopper = "none"
  /\ state' = "stopped"
  /\ idle' = FALSE
  /\ clients' = {}
  /\ stopper' = "closing"
  /\ UNCHANGED <<windowVars, bookVars, writerClientID, stdin, reapAllowed,
                 provider, held, reader, waiter, queueVars, peerVars>>

(* A signal to the daemon, or a connection whose command is stop.          *)
StopSignal == "stop" \in Commands /\ BeginStop /\ UNCHANGED handlerVars

StopClose ==
  /\ stopper = "closing"
  /\ CloseProviderInput
  /\ stopper' = "killing"
  /\ UNCHANGED <<windowVars, bookVars, leaseVars, state, reapAllowed, provider,
                 held, reader, waiter, handlerVars, queueVars, peerVars, idle>>

StopKill ==
  /\ stopper = "killing"
  /\ StopProviderProcess
  /\ stopper' = "done"
  /\ UNCHANGED <<windowVars, bookVars, leaseVars, state, stdin, held, reader,
                 waiter, handlerVars, queueVars, peerVars, idle>>

(***************************************************************************)
(* handleConnection                                                        *)
(***************************************************************************)
Accept(c) ==
  /\ pc[c] = "idle"
  /\ stopper # "done"
  /\ pc' = [pc EXCEPT ![c] = "accepted"]
  /\ UNCHANGED <<windowVars, bookVars, leaseVars, lifeVars, threadVars, msg,
                 queueVars, peerVars, idle>>

(* The first frame never came, or is one that is answered and closed.      *)
Hangup(c) ==
  /\ "other" \in Commands
  /\ pc[c] = "accepted"
  /\ pc' = [pc EXCEPT ![c] = "idle"]
  /\ UNCHANGED <<windowVars, bookVars, leaseVars, lifeVars, threadVars, msg,
                 queueVars, peerVars, idle>>

StopCommand(c) ==
  /\ "stop" \in Commands
  /\ pc[c] = "accepted"
  /\ BeginStop
  /\ pc' = [pc EXCEPT ![c] = "idle"]
  /\ UNCHANGED msg

(* gc: shouldIdleShutdown and stop lock separately.                        *)
ShouldIdleShutdown ==
  clients = {} /\ pendingRequests = {} /\ inFlightTurns = {} /\ idle

GcCommand(c) ==
  /\ "gc" \in Commands
  /\ pc[c] = "accepted"
  /\ ShouldIdleShutdown
  /\ pc' = [pc EXCEPT ![c] = "collecting"]
  /\ UNCHANGED <<windowVars, bookVars, leaseVars, lifeVars, threadVars, msg,
                 queueVars, peerVars, idle>>

GcStop(c) ==
  /\ pc[c] = "collecting"
  /\ IF stopper = "none" THEN BeginStop
     ELSE UNCHANGED <<windowVars, bookVars, leaseVars, lifeVars, threadVars,
                      queueVars, peerVars, idle>>
  /\ pc' = [pc EXCEPT ![c] = "idle"]
  /\ UNCHANGED msg

(* Everything a new client is told at once, before it becomes visible.     *)
HelloFrame(c, mode) ==
  [type |-> "hello", canSend |-> writerClientID \in {NoClient, c}, mode |-> mode,
   high |-> nextSequence, state |-> state]

Ascending(S) ==
  CHOOSE q \in [1 .. Cardinality(S) -> S] :
    ToSet(q) = S /\ \A i, j \in DOMAIN q : i < j => q[i] < q[j]

Replayed(S) ==
  LET q == Ascending(S) IN [i \in DOMAIN q |-> EventFrame(q[i], replay[q[i]])]

PendingFrames ==
  LET q == Ascending(Pinned(replay))
  IN [i \in DOMAIN q |-> [type |-> "pending", id |-> replay[q[i]].id]]

Primed(c, lastAck, mode) ==
  <<HelloFrame(c, mode)>> \o
  IF mode = "pending"
  THEN PendingFrames \o <<[type |-> "replay_end"]>>
  ELSE (IF ReplayIncomplete(replay, lastAck, nextSequence)
        THEN <<[type |-> "overflow", from |-> RetainedFrom(replay, nextSequence)]>>
        ELSE <<>>)
       \o Replayed({s \in DOMAIN replay : s > lastAck})

LiveCapacityOnly(n) == LiveCapacity   \* mutant: not sized for the replay

QueueCapacityFor(n) ==
  IF n + QueueMargin > LiveCapacity THEN n + QueueMargin ELSE LiveCapacity

Register(c, lastAck, requested) ==
  LET mode   == ReplayMode(replay, replayBytes, lastAck, nextSequence, requested)
      primed == Primed(c, lastAck, mode)
  IN /\ writerClientID' = IF writerClientID = NoClient THEN c ELSE writerClientID
     /\ clients' = clients \cup {c}
     /\ send' = [send EXCEPT ![c] = primed]
     /\ capacity' = [capacity EXCEPT ![c] = QueueCapacityFor(Len(primed))]
     /\ base' = [base EXCEPT ![c] = nextSequence]
     /\ sent' = [sent EXCEPT ![c] = IF mode = "pending" THEN nextSequence ELSE lastAck]
     /\ disclosed' = [disclosed EXCEPT ![c] =
          mode = "pending" \/ ReplayIncomplete(replay, lastAck, nextSequence)]
     /\ idle' = FALSE
     /\ pc' = [pc EXCEPT ![c] = "serving"]

AttachUnchecked(c, lastAck, requested) ==   \* mutant: also after stop
  /\ pc[c] = "accepted"
  /\ Register(c, lastAck, requested)
  /\ UNCHANGED <<windowVars, bookVars, lifeVars, threadVars, msg, peerVars>>

(* A hello that arrives after stop is dropped with its connection.         *)
Attach(c, lastAck, requested) ==
  /\ pc[c] = "accepted"
  /\ IF state = "stopped"
     THEN /\ pc' = [pc EXCEPT ![c] = "idle"]
          /\ UNCHANGED <<leaseVars, queueVars, idle>>
     ELSE Register(c, lastAck, requested)
  /\ UNCHANGED <<windowVars, bookVars, lifeVars, threadVars, msg, peerVars>>

(***************************************************************************)
(* The reader loop of an attached client                                   *)
(***************************************************************************)
DropKeepingLease(c) ==  \* mutant: the lease stays with the dropped client
  /\ clients' = clients \ {c}
  /\ UNCHANGED writerClientID

Drop(c) ==
  /\ clients' = clients \ {c}
  /\ writerClientID' = IF writerClientID = c THEN NoClient ELSE writerClientID

(* The connection breaks, or the writer goroutine cannot write to it.      *)
DetachClient(c) ==
  /\ "disconnect" \in Faults
  /\ c \in clients
  /\ Drop(c)
  /\ idle' = FALSE
  /\ UNCHANGED <<windowVars, bookVars, lifeVars, threadVars, handlerVars,
                 queueVars, peerVars>>

(* The handler of a client that is gone returns; its queue goes with it.   *)
CloseConnection(c) ==
  /\ pc[c] = "serving"
  /\ c \notin clients
  /\ pc' = [pc EXCEPT ![c] = "idle"]
  /\ send' = [send EXCEPT ![c] = <<>>]
  /\ capacity' = [capacity EXCEPT ![c] = 0]
  /\ base' = [base EXCEPT ![c] = 0]
  /\ sent' = [sent EXCEPT ![c] = 0]
  /\ disclosed' = [disclosed EXCEPT ![c] = FALSE]
  /\ UNCHANGED <<windowVars, bookVars, leaseVars, lifeVars, threadVars, msg,
                 peerVars, idle>>

(* recordAck *)
Ack(c, n) ==
  /\ pc[c] = "serving"
  /\ c \in clients
  /\ n <= nextSequence
  /\ idle' = FALSE
  /\ UNCHANGED <<windowVars, bookVars, leaseVars, lifeVars, threadVars,
                 handlerVars, queueVars, peerVars>>

(* A frame that is only answered: status, an unknown type, a wrong version. *)
OtherFrame(c) ==
  /\ "other" \in Commands
  /\ pc[c] = "serving"
  /\ c \in clients
  /\ pc' = [pc EXCEPT ![c] = "answering"]
  /\ UNCHANGED <<windowVars, bookVars, leaseVars, lifeVars, threadVars, msg,
                 queueVars, peerVars, idle>>

(* clientCanSend: a client takes a free lease on its first input.          *)
ReceiveInput(c, m) ==
  /\ pc[c] = "serving"
  /\ c \in clients
  /\ IF writerClientID \in {NoClient, c}
     THEN /\ writerClientID' = c
          /\ msg' = [msg EXCEPT ![c] = m]
          /\ pc' = [pc EXCEPT ![c] = IF m.kind = "invalid" THEN "answering"
                                                             ELSE "leased"]
     ELSE /\ pc' = [pc EXCEPT ![c] = "answering"]
          /\ UNCHANGED <<writerClientID, msg>>
  /\ UNCHANGED <<windowVars, bookVars, clients, lifeVars, threadVars, queueVars,
                 peerVars, idle>>

(* enqueue: an answer that does not fit detaches the client.               *)
Answer(c) ==
  /\ pc[c] = "answering"
  /\ \/ /\ c \notin clients
        /\ UNCHANGED <<leaseVars, send, idle>>
     \/ /\ c \in clients
        /\ Len(send[c]) < capacity[c]
        /\ send' = [send EXCEPT ![c] = Append(@, [type |-> "answer"])]
        /\ UNCHANGED <<leaseVars, idle>>
     \/ /\ c \in clients
        /\ Len(send[c]) >= capacity[c]
        /\ Drop(c)
        /\ idle' = FALSE
        /\ UNCHANGED send
  /\ pc' = [pc EXCEPT ![c] = "serving"]
  /\ msg' = [msg EXCEPT ![c] = NoMsg]
  /\ UNCHANGED <<windowVars, bookVars, lifeVars, threadVars, capacity, base, sent,
                 disclosed, peerVars>>

IsCachedInitialize(m) ==
  m.kind = "request" /\ m.id \in Initializes /\ initializeResult

(* A repeated initialize is answered by the bridge, to every client.       *)
AnswerFromCache(c) ==
  /\ pc[c] = "leased"
  /\ IsCachedInitialize(msg[c])
  /\ Publish(Event("result", msg[c].id, 1))
  /\ pc' = [pc EXCEPT ![c] = "serving"]
  /\ msg' = [msg EXCEPT ![c] = NoMsg]
  /\ UNCHANGED <<lifeVars, threadVars, peerVars>>

(* The check of the cache and the registration lock separately.            *)
PassCache(c) ==
  /\ pc[c] = "leased"
  /\ ~IsCachedInitialize(msg[c])
  /\ pc' = [pc EXCEPT ![c] = "uncached"]
  /\ UNCHANGED <<windowVars, bookVars, leaseVars, lifeVars, threadVars, msg,
                 queueVars, peerVars, idle>>

(* Mutant: a reply settles its request before it is written.               *)
SettleBeforeWrite(c) ==
  /\ pc[c] = "uncached"
  /\ LET ids == IF msg[c].kind = "request" THEN {msg[c].id} ELSE {}
     IN /\ inFlightTurns' = inFlightTurns \cup ids
        /\ sessionSetupRequests' = sessionSetupRequests \cup (ids \cap SessionSetups)
        /\ initializeRequestIDs' = initializeRequestIDs \cup (ids \cap Initializes)
  /\ pendingRequests' = pendingRequests \ {msg[c].id}
  /\ pc' = [pc EXCEPT ![c] = "tracked"]
  /\ UNCHANGED <<windowVars, initializeResult, sessionID, leaseVars, lifeVars,
                 threadVars, msg, queueVars, peerVars, idle>>

(* Mutant: the request is written without being registered.                *)
ForgetRequest(c) ==
  /\ pc[c] = "uncached"
  /\ pc' = [pc EXCEPT ![c] = "tracked"]
  /\ UNCHANGED <<windowVars, bookVars, leaseVars, lifeVars, threadVars, msg,
                 queueVars, peerVars, idle>>

(* Requests are registered before they are written.                        *)
TrackRequest(c) ==
  /\ pc[c] = "uncached"
  /\ LET ids == IF msg[c].kind = "request" THEN {msg[c].id} ELSE {}
     IN /\ inFlightTurns' = inFlightTurns \cup ids
        /\ sessionSetupRequests' = sessionSetupRequests \cup (ids \cap SessionSetups)
        /\ initializeRequestIDs' = initializeRequestIDs \cup (ids \cap Initializes)
  /\ pc' = [pc EXCEPT ![c] = "tracked"]
  /\ UNCHANGED <<windowVars, pendingRequests, initializeResult, sessionID, leaseVars,
                 lifeVars, threadVars, msg, queueVars, peerVars, idle>>

(* writeProvider succeeds while the bridge owns the pipe and the provider  *)
(* has not been reaped; a dead provider does not read what it is sent.     *)
WriteProvider(c) ==
  /\ pc[c] = "tracked"
  /\ stdin
  /\ waiter = "waiting"
  /\ LET m == msg[c]
         heard == provider = "alive"
     IN /\ owed' = IF heard /\ m.kind = "request" THEN owed \cup {m.id} ELSE owed
        /\ asked' = IF heard /\ m.kind = "reply" THEN asked \ {m.id} ELSE asked
  /\ pc' = [pc EXCEPT ![c] = "written"]
  /\ UNCHANGED <<windowVars, bookVars, leaseVars, lifeVars, threadVars, msg,
                 queueVars, idle>>

WriteFails(c) ==
  /\ pc[c] = "tracked"
  /\ ~stdin \/ provider = "dead"
  /\ pc' = [pc EXCEPT ![c] = "unwritten"]
  /\ UNCHANGED <<windowVars, bookVars, leaseVars, lifeVars, threadVars, msg,
                 queueVars, peerVars, idle>>

KeepTracked(c) ==      \* mutant: a request that was not written stays tracked
  /\ pc[c] = "unwritten"
  /\ pc' = [pc EXCEPT ![c] = "answering"]
  /\ UNCHANGED <<windowVars, bookVars, leaseVars, lifeVars, threadVars, msg,
                 queueVars, peerVars, idle>>

UntrackRequest(c) ==
  /\ pc[c] = "unwritten"
  /\ LET ids == IF msg[c].kind = "request" THEN {msg[c].id} ELSE {}
     IN /\ inFlightTurns' = inFlightTurns \ ids
        /\ sessionSetupRequests' = sessionSetupRequests \ ids
        /\ initializeRequestIDs' = initializeRequestIDs \ ids
  /\ pc' = [pc EXCEPT ![c] = "answering"]
  /\ UNCHANGED <<windowVars, pendingRequests, initializeResult, sessionID, leaseVars,
                 lifeVars, threadVars, msg, queueVars, peerVars, idle>>

(* releasePendingReplayLocked: every pin of the answered request goes.     *)
ReleaseWithoutTrim(id) ==   \* mutant: the window is not trimmed again
  LET freed == {s \in Pinned(replay) : replay[s].id = id}
  IN /\ replay' = Unpin(replay, freed)
     /\ pendingReplayEvents' = pendingReplayEvents - Cardinality(freed)
     /\ pendingReplayBytes' = pendingReplayBytes - Bytes(replay, freed)
     /\ UNCHANGED replayBytes

ReleasePendingReplay(id) ==
  LET freed == {s \in Pinned(replay) : replay[s].id = id}
      free  == Unpin(replay, freed)
  IN /\ replay' = Trim(free, replayBytes)
     /\ replayBytes' = replayBytes - Bytes(free, Evicted(free, replayBytes))
     /\ pendingReplayEvents' = pendingReplayEvents - Cardinality(freed)
     /\ pendingReplayBytes' = pendingReplayBytes - Bytes(replay, freed)

(* Mutant: the answered request stays pinned.                              *)
ObserveKeepingPin(c) ==
  /\ pc[c] = "written"
  /\ pendingRequests' = IF msg[c].kind = "reply" THEN pendingRequests \ {msg[c].id}
                                                 ELSE pendingRequests
  /\ idle' = IF msg[c].kind = "note" THEN idle ELSE FALSE
  /\ pc' = [pc EXCEPT ![c] = "serving"]
  /\ msg' = [msg EXCEPT ![c] = NoMsg]
  /\ UNCHANGED <<windowVars, inFlightTurns, initializeRequestIDs, initializeResult,
                 sessionSetupRequests, sessionID, leaseVars, lifeVars, threadVars,
                 queueVars, peerVars>>

(* observeClientMessage, after the write returned.                         *)
ObserveMessage(c) ==
  /\ pc[c] = "written"
  /\ IF msg[c].kind = "reply"
     THEN /\ pendingRequests' = pendingRequests \ {msg[c].id}
          /\ ReleasePendingReplay(msg[c].id)
     ELSE UNCHANGED <<pendingRequests, replay, replayBytes, pendingReplayEvents,
                      pendingReplayBytes>>
  /\ idle' = IF msg[c].kind = "note" THEN idle ELSE FALSE
  /\ pc' = [pc EXCEPT ![c] = "serving"]
  /\ msg' = [msg EXCEPT ![c] = NoMsg]
  /\ UNCHANGED <<nextSequence, inFlightTurns, initializeRequestIDs, initializeResult,
                 sessionSetupRequests, sessionID, leaseVars, lifeVars, threadVars,
                 queueVars, peerVars>>

(* writeClient: one queued frame reaches the connection.                   *)
WriteFrame(c) ==
  /\ send[c] # <<>>
  /\ send' = [send EXCEPT ![c] = Tail(@)]
  /\ sent' = [sent EXCEPT ![c] =
       IF Head(send[c]).type = "event" THEN Head(send[c]).seq ELSE @]
  /\ UNCHANGED <<windowVars, bookVars, leaseVars, lifeVars, threadVars, handlerVars,
                 capacity, base, disclosed, peerVars, idle>>

(* The idle timeout passes since the last activity.                        *)
Age ==
  /\ "gc" \in Commands
  /\ ~idle
  /\ idle' = TRUE
  /\ UNCHANGED <<windowVars, bookVars, leaseVars, lifeVars, threadVars, handlerVars,
                 queueVars, peerVars>>

(* The provider's process group ends on its own.                           *)
ProviderDies ==
  /\ "exit" \in Faults
  /\ provider = "alive"
  /\ provider' = "dead"
  /\ UNCHANGED <<windowVars, bookVars, leaseVars, state, stdin, reapAllowed, held,
                 threadVars, handlerVars, queueVars, peerVars, idle>>

(* Input a client may send: request ids are UUIDs, so never one in use,    *)
(* and only requests that were published are answered.                     *)
FreshInputs ==
  {m \in {n \in ClientMessages : n.kind \in InputKinds} :
     /\ m.kind = "request" =>
          /\ m.id \notin inFlightTurns \cup owed
          /\ m.id \notin initializeRequestIDs \cup sessionSetupRequests
          /\ \A d \in Conns : msg[d].id # m.id
          /\ \A s \in DOMAIN replay : replay[s].id # m.id
     /\ m.kind = "reply" => m.id \in asked \cup pendingRequests}

(***************************************************************************)
(* The specification                                                       *)
(***************************************************************************)
Init ==
  /\ nextSequence = 0
  /\ replay = [s \in {} |-> StateEvent("running")]
  /\ replayBytes = 0
  /\ pendingReplayEvents = 0
  /\ pendingReplayBytes = 0
  /\ state = "running"
  /\ clients = {}
  /\ writerClientID = NoClient
  /\ pendingRequests = {}
  /\ inFlightTurns = {}
  /\ initializeRequestIDs = {}
  /\ initializeResult = FALSE
  /\ sessionSetupRequests = {}
  /\ sessionID = Note
  /\ idle = FALSE
  /\ stdin = TRUE
  /\ reapAllowed = FALSE
  /\ reader = "reading"
  /\ waiter = "waiting"
  /\ stopper = "none"
  /\ pc = [c \in Conns |-> "idle"]
  /\ msg = [c \in Conns |-> NoMsg]
  /\ send = [c \in Conns |-> <<>>]
  /\ capacity = [c \in Conns |-> 0]
  /\ base = [c \in Conns |-> 0]
  /\ sent = [c \in Conns |-> 0]
  /\ disclosed = [c \in Conns |-> FALSE]
  /\ provider = "alive"
  /\ held \in {h \in BOOLEAN : h => "held" \in Faults}
  /\ asked = {}
  /\ owed = {}

ReaderStep == ProviderOutput \/ ProviderGarbage \/ ProviderEOF \/ FailState
              \/ FailPublish \/ FailClose \/ FailStop

WaiterStep == ReapProvider \/ DrainTimeout \/ ProviderExited \/ PublishExit

StopperStep == StopSignal \/ StopClose \/ StopKill

ConnectionStep(c) ==
  \/ Accept(c) \/ Hangup(c) \/ StopCommand(c) \/ GcCommand(c) \/ GcStop(c)
  \/ \E lastAck \in LastAcks \cap 0 .. nextSequence, requested \in Modes :
       Attach(c, lastAck, requested)

ClientStep(c) ==
  \/ DetachClient(c) \/ CloseConnection(c) \/ OtherFrame(c) \/ Answer(c)
  \/ \E n \in 0 .. nextSequence : Ack(c, n)
  \/ \E m \in FreshInputs : ReceiveInput(c, m)
  \/ AnswerFromCache(c) \/ PassCache(c) \/ TrackRequest(c) \/ WriteProvider(c) \/ WriteFails(c)
  \/ UntrackRequest(c) \/ ObserveMessage(c) \/ WriteFrame(c)

Next ==
  \/ ReaderStep \/ WaiterStep \/ StopperStep \/ ProviderDies \/ Age
  \/ \E c \in Conns : ConnectionStep(c) \/ ClientStep(c)

Spec == Init /\ [][Next]_vars

(***************************************************************************)
(* Properties                                                              *)
(***************************************************************************)
Idle == {"idle", "accepted", "collecting", "serving", "answering"}
Working == {"leased", "uncached", "tracked", "written", "unwritten"}

(* The types of the bridge's own state, one conjunct for each group of     *)
(* variables.  What the queues hold is said by NoSilentGap and QueueFits.  *)
WindowType ==
  /\ nextSequence \in Nat
  /\ DOMAIN replay \subseteq 1 .. nextSequence
  /\ \A s \in DOMAIN replay : replay[s] \in Events
  /\ pendingReplayEvents \in Int

BookType ==
  /\ pendingRequests \subseteq ProviderRequests
  /\ inFlightTurns \subseteq ClientRequests
  /\ initializeRequestIDs \subseteq ClientRequests
  /\ initializeResult \in BOOLEAN
  /\ sessionSetupRequests \subseteq ClientRequests
  /\ sessionID \in ClientRequests \cup {Note}

LeaseType ==
  /\ clients \subseteq Conns
  /\ writerClientID \in Conns \cup {NoClient}

LifeType ==
  /\ state \in {"running", "protocol_error", "exited", "stopped"}
  /\ stdin \in BOOLEAN /\ reapAllowed \in BOOLEAN /\ held \in BOOLEAN
  /\ provider \in {"alive", "dead"}

ThreadType ==
  /\ reader \in {"reading", "failed", "announcing", "closing", "killing", "eof"}
  /\ waiter \in {"waiting", "draining", "drainwait", "exiting", "done"}
  /\ stopper \in {"none", "closing", "killing", "done"}

HandlerType ==
  /\ pc \in [Conns -> Idle \cup Working]
  /\ msg \in [Conns -> ClientMessages \cup {NoMsg}]

PeerType ==
  /\ asked \subseteq ProviderRequests
  /\ owed \subseteq ClientRequests

TypeOK ==
  /\ WindowType /\ BookType /\ LeaseType /\ LifeType
  /\ ThreadType /\ HandlerType /\ PeerType
  /\ idle \in BOOLEAN

(* The three running counters that limit the window are exactly what the   *)
(* window holds, through appends, both eviction passes, replies and the    *)
(* wholesale release at provider exit.                                     *)
CountersExact ==
  /\ replayBytes = Bytes(replay, DOMAIN replay)
  /\ pendingReplayEvents = Cardinality(Pinned(replay))
  /\ pendingReplayBytes = Bytes(replay, Pinned(replay))

(* README: "the bridge retains a bounded in-memory replay window".  Over   *)
(* its limits the window holds nothing but unanswered requests, and those  *)
(* have limits of their own.                                               *)
WindowBounded ==
  /\ OverWithout(replay, replayBytes, {}, ReplayMaxEvents, ReplayMaxBytes)
       => Pinned(replay) = DOMAIN replay
  /\ Cardinality(Pinned(replay)) <= PendingMaxEvents
  /\ Bytes(replay, Pinned(replay)) <= PendingMaxBytes

(* A request counted as pending is retained verbatim, and what is retained *)
(* as pending is counted: no eviction, reply or exit separates the two.    *)
PendingIsPinned ==
  pendingRequests = {replay[s].id : s \in Pinned(replay)}

(* README: provider requests "remain pending while no client is attached". *)
(* While the provider lives, a request whose answer it has not got is      *)
(* pending, whoever attached, detached or answered something else.         *)
AskedStaysPending == provider = "alive" => asked \subseteq pendingRequests

(* A request the provider is still working on is counted as in flight, so  *)
(* idle cleanup sees a busy bridge: requests are tracked before they are   *)
(* written, and only their own response settles them.                      *)
OwedIsInFlight == provider = "alive" => owed \subseteq inFlightTurns

(* After the provider exited nothing keeps the bridge from idle cleanup,   *)
(* save an input frame a handler has in its hands: whatever was pending is *)
(* gone, and a request tracked too late is untracked by its failed write.  *)
ExitedIsCollectable ==
  waiter \in {"exiting", "done"} =>
    /\ pendingRequests = {}
    /\ inFlightTurns \subseteq
         {msg[c].id : c \in {d \in Conns : pc[d] \in {"tracked", "unwritten"}}}

(* README: "only one attached client holds the input writer lease at a     *)
(* time; another client can take the lease after that writer disconnects". *)
(* The lease never stays with a client that is gone, and an attached client *)
(* whose input is under way holds it.                                      *)
LeaseSound ==
  /\ state # "stopped" => writerClientID \in clients \cup {NoClient}
  /\ \A c \in clients : pc[c] \in Working => writerClientID = c

EventFrames(c) == {i \in DOMAIN send[c] : send[c][i].type = "event"}

(* What is queued for a client goes on exactly where what it was sent      *)
(* ended, in order and once; an event is missing only if it is older than  *)
(* the attach, the client was told of a gap, and the window has lost it.   *)
NoSilentGap ==
  \A c \in clients :
    /\ \A i \in EventFrames(c) :
         /\ sent[c] < send[c][i].seq
         /\ \A j \in EventFrames(c) : i < j => send[c][i].seq < send[c][j].seq
    /\ \A s \in sent[c] + 1 .. nextSequence :
         \/ \E i \in EventFrames(c) : send[c][i].seq = s
         \/ disclosed[c] /\ s <= base[c] /\ s \notin DOMAIN replay

(* The frames an attach primes under the bridge's lock fit the queue made  *)
(* for them: a send that blocked there would stop the whole bridge.        *)
QueueFits == \A c \in Conns : Len(send[c]) <= capacity[c]

(* A client that starts over without history is given every request the    *)
(* provider waits for, before its baseline moves past them.                *)
FreshAttachSeesPending ==
  [][\A c \in clients' \ clients :
       send'[c][1].mode = "pending" =>
         {send'[c][i].id : i \in {j \in DOMAIN send'[c] : send'[c][j].type = "pending"}}
           = pendingRequests]_vars

(* The state a client or a status reads only moves on: a late protocol     *)
(* failure does not hide an exit, an exit does not hide a stop.            *)
Rank(s) == CASE s = "running" -> 0 [] s = "protocol_error" -> 1
             [] s = "exited" -> 2 [] s = "stopped" -> 3

StateOnlyAdvances == [][Rank(state') >= Rank(state)]_vars

(* Nobody is registered with a stopped bridge, a hello that was on its way *)
(* when the stop came included.                                            *)
StoppedHasNoClients == state = "stopped" => clients = {}

(* When the provider is gone and its output has ended, or a stop has       *)
(* opened the reap gate, the exit is announced, even if a stray process    *)
(* holds the output open.                                                  *)
ExitAnnounced ==
  (provider = "dead" /\ (~held \/ reapAllowed)) ~> waiter = "done"

(* TestAcpIdleCleanupRequiresTrueIdle: gc stops a bridge that has nobody   *)
(* attached, nothing pending and no turn in flight.                        *)
GcStopsOnlyIdle ==
  [][\A c \in Conns :
       (pc[c] = "collecting" /\ pc'[c] = "idle" /\ state # "stopped")
         => clients = {} /\ pendingRequests = {} /\ inFlightTurns = {}]_vars
=============================================================================
