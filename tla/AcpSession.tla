------------------------------ MODULE AcpSession ------------------------------
(***************************************************************************)
(* The app's end of an ACP bridge, MonkeyMuxAcpTransport in                *)
(* lib/domain/services/monkeymux_acp_bridge_service.dart, composed with    *)
(* the bridge of module AcpBridge over channels that break.                *)
(*                                                                         *)
(* The transport attaches with the last sequence number it delivered,      *)
(* validates every frame against what the handshake announced, delivers    *)
(* output once and in order, and opens a new channel when one is lost.  A  *)
(* frame it does not expect is a terminal failure, so the two programs     *)
(* must agree on the protocol in every interleaving.                       *)
(*                                                                         *)
(* A channel is a connection of the bridge and the queue of that           *)
(* connection is what is under way to the app: frames are taken from it    *)
(* one at a time, and a lost channel loses the rest.  Neither end learns   *)
(* of the loss when the other does.                                        *)
(***************************************************************************)
EXTENDS AcpBridge

CONSTANTS
  MaxAttempts,          \* length of the reconnect backoff
  MaxLosses,            \* bound: channels lost in a run
  MaxRestarts           \* bound: times the app is started anew

ASSUME SessionAssumption ==
  MaxAttempts \in Nat /\ MaxLosses \in Nat /\ MaxRestarts \in Nat

VARIABLES
  link,                 \* "down", "opening", "up", "failed"
  failure,              \* kind of the terminal failure
  channel,              \* the connection the transport reads and writes
  hello,                \* the first frame sent on each connection
  uplink,               \* input frames under way on each connection
  lastDelivered,        \* _lastDeliveredSequence
  freshBaseline,        \* _freshBaselineEstablished
  stage,                \* what the handshake negotiated: "plain", "pending", "direct"
  highWater,            \* _handshakeHighWaterSequence
  windowHigh,           \* _replayWindowHighWaterSequence, 0 when null
  windowFrom,           \* _replayWindowRetainedFrom
  parked,               \* _pendingReplayFrames
  attempts,             \* _reconnectAttempt
  shown,                \* history: provider requests handed to the app
  answered,             \* those the app has answered
  excused,              \* history: gaps up to here were disclosed to the app
  losses, restarts

linkVars == <<link, failure, channel, attempts>>
viewVars == <<lastDelivered, freshBaseline, stage, highWater, windowHigh, windowFrom,
              parked, shown, excused>>
wireVars == <<hello, uplink, answered>>
boundVars == <<losses, restarts>>
clientVars == <<linkVars, viewVars, wireVars, boundVars>>
sessionVars == <<vars, clientVars>>

(***************************************************************************)
(* Opening a channel                                                       *)
(***************************************************************************)
(* _openChannel: the hello carries the last delivered sequence number, and *)
(* asks for an adaptive replay until a first baseline is established.      *)
OpenChannel(c) ==
  /\ link = "down"
  /\ c # channel
  /\ Accept(c)
  /\ link' = "opening"
  /\ channel' = c
  /\ hello' = [hello EXCEPT ![c] =
       [lastAck |-> lastDelivered,
        mode |-> IF ~freshBaseline /\ lastDelivered = 0 THEN "adaptive" ELSE "plain"]]
  /\ stage' = "plain"
  /\ uplink' = [uplink EXCEPT ![c] = <<>>]
  /\ UNCHANGED <<failure, attempts, lastDelivered, freshBaseline, highWater,
                 windowHigh, windowFrom, parked, shown, answered, excused, boundVars>>

Retry ==
  IF attempts < MaxAttempts
  THEN link' = "down" /\ attempts' = attempts + 1 /\ UNCHANGED failure
  ELSE link' = "failed" /\ failure' = "sshChannel" /\ UNCHANGED attempts

(* The bridge's socket is gone: opening fails and is retried.              *)
OpenFails ==
  /\ link = "down"
  /\ stopper = "done"
  /\ Retry
  /\ UNCHANGED <<vars, channel, viewVars, wireVars, boundVars>>

(* _handleChannelLoss: buffered frames and the announced window go.        *)
LoseChannel ==
  /\ channel' = NoClient
  /\ parked' = <<>>
  /\ highWater' = 0
  /\ windowHigh' = 0
  /\ windowFrom' = 0
  /\ Retry
  /\ UNCHANGED <<lastDelivered, freshBaseline, stage, shown, excused, wireVars>>

(* The app's side of the channel breaks, or the handshake times out; the   *)
(* bridge has not noticed.                                                 *)
ChannelLoss ==
  /\ link \in {"opening", "up"}
  /\ losses < MaxLosses
  /\ losses' = losses + 1
  /\ LoseChannel
  /\ UNCHANGED <<vars, restarts>>

DoneWhileUp ==          \* mutant: unnoticed before the hello arrived
  /\ link = "up"
  /\ pc[channel] = "idle"
  /\ LoseChannel
  /\ UNCHANGED <<vars, boundVars>>

(* The bridge closed the connection and all it had sent was read.          *)
ChannelDone ==
  /\ link \in {"opening", "up"}
  /\ pc[channel] = "idle"
  /\ LoseChannel
  /\ UNCHANGED <<vars, boundVars>>

(* The app is killed and started again: a new transport, with no history.  *)
RestartApp ==
  /\ restarts < MaxRestarts
  /\ restarts' = restarts + 1
  /\ link' = "down" /\ failure' = "none" /\ channel' = NoClient /\ attempts' = 0
  /\ lastDelivered' = 0 /\ freshBaseline' = FALSE /\ stage' = "plain"
  /\ highWater' = 0 /\ windowHigh' = 0 /\ windowFrom' = 0 /\ parked' = <<>>
  /\ shown' = {} /\ excused' = 0 /\ answered' = {}
  /\ UNCHANGED <<vars, hello, uplink, losses>>

(***************************************************************************)
(* Frames from the bridge.  Each handler leaves the transport as it is     *)
(* except for what it names; Fail is _failTerminal.                        *)
(***************************************************************************)
Fail(kind) ==
  /\ link' = "failed"
  /\ failure' = kind
  /\ UNCHANGED <<channel, attempts>>

StayLinked == UNCHANGED linkVars

HandleHello(f) ==
  \/ /\ ~f.canSend
     /\ Fail("nonWriter")
     /\ UNCHANGED viewVars
  \/ /\ f.canSend
     /\ f.high < lastDelivered
     /\ Fail("sequenceGap")
     /\ UNCHANGED viewVars
  \/ /\ f.canSend
     /\ f.high >= lastDelivered
     /\ f.mode = "direct" /\ hello[channel].mode # "adaptive"
     /\ Fail("invalidFrame")
     /\ UNCHANGED viewVars
  \/ /\ f.canSend
     /\ f.high >= lastDelivered
     /\ f.mode = "direct" => hello[channel].mode = "adaptive"
     /\ stage' = IF f.mode = "direct" /\ f.high = lastDelivered THEN "plain" ELSE f.mode
     /\ freshBaseline' = (freshBaseline \/ f.mode # "pending")
     /\ highWater' = f.high
     /\ windowHigh' = 0
     /\ windowFrom' = 0
     /\ IF f.state \in {"exited", "stopped"}
        THEN Fail("providerExited")
        ELSE link' = "up" /\ attempts' = 0 /\ UNCHANGED <<failure, channel>>
     /\ UNCHANGED <<lastDelivered, parked, shown, excused>>

IgnoreOverflow(f) ==    \* mutant: an announced window is forgotten
  StayLinked /\ UNCHANGED viewVars

HandleOverflow(f) ==
  LET invalid == \/ stage = "direct"
                 \/ f.from = 0 \/ f.from > highWater
                 \/ highWater < lastDelivered
                 \/ windowHigh # 0
      kind    == IF stage # "direct" /\ f.from = 0 THEN "invalidFrame" ELSE "sequenceGap"
  IN \/ invalid /\ Fail(kind) /\ UNCHANGED viewVars
     \/ /\ ~invalid
        /\ windowHigh' = IF highWater > lastDelivered THEN highWater ELSE 0
        /\ windowFrom' = IF highWater > lastDelivered THEN f.from ELSE 0
        /\ excused' = IF highWater > excused THEN highWater ELSE excused
        /\ StayLinked
        /\ UNCHANGED <<lastDelivered, freshBaseline, stage, highWater, parked, shown>>

HandlePending(f) ==
  \/ /\ link # "up" \/ stage # "pending"
     /\ Fail("invalidFrame")
     /\ UNCHANGED viewVars
  \/ /\ link = "up"
     /\ stage = "pending"
     /\ parked' = Append(parked, f.id)
     /\ StayLinked
     /\ UNCHANGED <<lastDelivered, freshBaseline, stage, highWater, windowHigh,
                    windowFrom, shown, excused>>

BaselineOnly ==         \* mutant: the parked requests are not handed on
  /\ stage = "pending"
  /\ lastDelivered' = highWater
  /\ excused' = highWater
  /\ freshBaseline' = TRUE
  /\ stage' = "plain"
  /\ parked' = <<>>
  /\ StayLinked
  /\ UNCHANGED <<highWater, windowHigh, windowFrom, shown>>

(* The baseline is committed before the parked requests reach the app.     *)
HandleReplayEnd ==
  \/ /\ link # "up" \/ stage # "pending"
     /\ Fail("invalidFrame")
     /\ UNCHANGED viewVars
  \/ /\ link = "up" /\ stage = "pending"
     /\ highWater < lastDelivered
     /\ Fail("sequenceGap")
     /\ UNCHANGED viewVars
  \/ /\ link = "up" /\ stage = "pending"
     /\ highWater >= lastDelivered
     /\ lastDelivered' = highWater
     /\ excused' = highWater
     /\ freshBaseline' = TRUE
     /\ stage' = "plain"
     /\ shown' = shown \cup ToSet(parked)
     /\ parked' = <<>>
     /\ StayLinked
     /\ UNCHANGED <<highWater, windowHigh, windowFrom>>

(* _sequenceIsAcceptable: inside an announced window numbers may be        *)
(* missing, and the first live event after it ends it; elsewhere an event  *)
(* already delivered is ignored and a gap is fatal.                        *)
Acceptable(n) ==
  IF windowHigh # 0
  THEN n = windowHigh + 1
       \/ (n > lastDelivered /\ n >= windowFrom /\ n <= windowHigh)
  ELSE n = lastDelivered + 1

Ignored(n) == windowHigh = 0 /\ n <= lastDelivered

CommitBaseline(n) ==    \* mutant: a direct replay is committed at its first event
  /\ lastDelivered' = IF stage = "direct" THEN highWater ELSE n
  /\ windowHigh' = IF n >= windowHigh THEN 0 ELSE windowHigh
  /\ windowFrom' = IF n >= windowHigh THEN 0 ELSE windowFrom
  /\ stage' = IF stage = "direct" /\ n = highWater THEN "plain" ELSE stage

KeepWindow(n) ==        \* mutant: an announced window is never closed
  /\ lastDelivered' = n
  /\ stage' = IF stage = "direct" /\ n = highWater THEN "plain" ELSE stage
  /\ UNCHANGED <<windowHigh, windowFrom>>

(* _commitSequence and _finishDirectReplayIfComplete                       *)
CommitSequence(n) ==
  /\ lastDelivered' = n
  /\ windowHigh' = IF n >= windowHigh THEN 0 ELSE windowHigh
  /\ windowFrom' = IF n >= windowHigh THEN 0 ELSE windowFrom
  /\ stage' = IF stage = "direct" /\ n = highWater THEN "plain" ELSE stage

(* The first live event ends an announced window before it is looked at.   *)
EndWindow(n) ==
  IF windowHigh # 0 /\ n = windowHigh + 1
  THEN lastDelivered' = windowHigh /\ windowHigh' = 0 /\ windowFrom' = 0
  ELSE UNCHANGED <<lastDelivered, windowHigh, windowFrom>>

(* _handleOutput and _handleProviderState.  Output that is no object ends  *)
(* the transport without being committed.  The kind that reports what the  *)
(* provider printed is invalidFrame too; it is kept apart from a frame the *)
(* bridge itself should not have sent.                                     *)
HandleEvent(f) ==
  LET early == link # "up" /\ f.kind # "state"
  IN
  \/ early /\ Fail("invalidFrame") /\ UNCHANGED viewVars
  \/ ~early /\ Ignored(f.seq) /\ StayLinked /\ UNCHANGED viewVars
  \/ /\ ~early /\ ~Ignored(f.seq) /\ ~Acceptable(f.seq)
     /\ Fail("sequenceGap")
     /\ UNCHANGED viewVars
  \/ /\ ~early /\ Acceptable(f.seq) /\ f.kind = "bare"
     /\ EndWindow(f.seq)
     /\ Fail("providerInvalid")
     /\ UNCHANGED <<freshBaseline, stage, highWater, parked, shown, excused>>
  \/ /\ ~early /\ Acceptable(f.seq) /\ f.kind # "bare"
     /\ CommitSequence(f.seq)
     /\ shown' = IF f.kind = "request" THEN shown \cup {f.id} ELSE shown
     /\ \/ f.kind = "state" /\ f.id = "exited" /\ Fail("providerExited")
        \/ f.kind = "state" /\ f.id = "protocol_error" /\ Fail("providerInvalid")
        \/ f.kind # "state" /\ StayLinked
     /\ UNCHANGED <<freshBaseline, highWater, parked, excused>>

(* _handleWireFrame: a frame that cannot be decoded reaches no handler.    *)
Handle(f) ==
  \/ f.type = "hello" /\ HandleHello(f)
  \/ f.type = "overflow" /\ HandleOverflow(f)
  \/ f.type = "pending" /\ HandlePending(f)
  \/ f.type = "replay_end" /\ HandleReplayEnd
  \/ f.type = "event" /\ f.kind # "garbled" /\ HandleEvent(f)
  \/ f.type = "event" /\ f.kind = "garbled" /\ Fail("providerInvalid") /\ UNCHANGED viewVars
  \/ f.type = "answer" /\ Fail("bridgeError") /\ UNCHANGED viewVars

Receive ==
  /\ link \in {"opening", "up"}
  /\ WriteFrame(channel)
  /\ Handle(Head(send[channel]))
  /\ UNCHANGED <<wireVars, boundVars>>

(***************************************************************************)
(* Input.  A write while the channel is down is refused, and a direct      *)
(* replay holds input back until it is complete.                           *)
(***************************************************************************)
AnswerRequest(id) ==
  /\ link = "up"
  /\ stage # "direct"
  /\ id \in shown \ answered
  /\ uplink' = [uplink EXCEPT ![channel] =
                  Append(@, [kind |-> "reply", id |-> id])]
  /\ answered' = answered \cup {id}
  /\ UNCHANGED <<vars, linkVars, viewVars, hello, boundVars>>

ReceiveUplink(c) ==
  /\ uplink[c] # <<>>
  /\ ReceiveInput(c, Head(uplink[c]))
  /\ uplink' = [uplink EXCEPT ![c] = Tail(@)]
  /\ UNCHANGED <<linkVars, viewVars, hello, answered, boundVars>>

(***************************************************************************)
(* The bridge's side of a channel breaks                                   *)
(***************************************************************************)
BridgeSideLoss(c) ==
  /\ c = channel => losses < MaxLosses
  /\ losses' = IF c = channel THEN losses + 1 ELSE losses
  /\ DetachClient(c)
  /\ UNCHANGED <<linkVars, viewVars, wireVars, restarts>>

(* Before its hello was read, only the loss of the app's side ends it.     *)
HelloLost(c) == c # channel /\ Hangup(c) /\ UNCHANGED clientVars

HandlerStep(c) ==
  /\ \/ Attach(c, hello[c].lastAck, hello[c].mode)
     \/ CloseConnection(c) \/ Answer(c) \/ PassCache(c) \/ TrackRequest(c) \/ WriteProvider(c)
     \/ WriteFails(c) \/ UntrackRequest(c) \/ ObserveMessage(c)
  /\ UNCHANGED clientVars

BridgeStep ==
  /\ ReaderStep \/ WaiterStep \/ StopperStep \/ ProviderDies
  /\ UNCHANGED clientVars

(***************************************************************************)
(* The specification                                                       *)
(***************************************************************************)
SessionInit ==
  /\ Init
  /\ link = "down" /\ failure = "none" /\ channel = NoClient /\ attempts = 0
  /\ hello = [c \in Conns |-> [lastAck |-> 0, mode |-> "plain"]]
  /\ uplink = [c \in Conns |-> <<>>]
  /\ lastDelivered = 0 /\ freshBaseline = FALSE /\ stage = "plain"
  /\ highWater = 0 /\ windowHigh = 0 /\ windowFrom = 0 /\ parked = <<>>
  /\ shown = {} /\ answered = {} /\ excused = 0
  /\ losses = 0 /\ restarts = 0

SessionNext ==
  \/ BridgeStep \/ OpenFails \/ ChannelLoss \/ ChannelDone \/ RestartApp \/ Receive
  \/ \E id \in ProviderRequests : AnswerRequest(id)
  \/ \E c \in Conns : OpenChannel(c) \/ ReceiveUplink(c) \/ BridgeSideLoss(c)
                      \/ HelloLost(c) \/ HandlerStep(c)

SessionSpec == SessionInit /\ [][SessionNext]_sessionVars

(* The goroutines of the bridge keep running: lines are read to the end of *)
(* a dead provider's output, the waiter and a stop run to their end.       *)
BridgeFairness ==
  /\ WF_sessionVars(provider = "dead" /\ ProviderEOF /\ UNCHANGED clientVars)
  /\ WF_sessionVars(waiter = "drainwait" /\ ProviderGarbage /\ UNCHANGED clientVars)
  /\ WF_sessionVars((FailState \/ FailPublish \/ FailClose \/ FailStop)
                      /\ UNCHANGED clientVars)
  /\ WF_sessionVars(WaiterStep /\ UNCHANGED clientVars)
  /\ WF_sessionVars((StopClose \/ StopKill) /\ UNCHANGED clientVars)

(* Channels open, carry frames and are torn down at both ends in time.     *)
(* Nothing makes the provider print, the app answer or a channel break.    *)
FairSession ==
  /\ SessionSpec
  /\ BridgeFairness
  /\ WF_sessionVars(Receive)
  /\ WF_sessionVars(ChannelDone)
  /\ WF_sessionVars(OpenFails)
  /\ WF_sessionVars(\E c \in Conns : OpenChannel(c))
  /\ \A c \in Conns :
       /\ WF_sessionVars(HandlerStep(c))
       /\ WF_sessionVars(c # channel /\ BridgeSideLoss(c))
       /\ WF_sessionVars(HelloLost(c))

(***************************************************************************)
(* Properties                                                              *)
(***************************************************************************)
(* The types of the transport's state.  A window is announced up to the    *)
(* handshake's high water mark, and closed when it has been delivered.     *)
SessionTypeOK ==
  /\ link \in {"down", "opening", "up", "failed"}
  /\ channel \in Conns \cup {NoClient}
  /\ link \in {"opening", "up"} => channel # NoClient
  /\ lastDelivered \in Nat /\ highWater \in Nat
  /\ windowHigh # 0 => (windowHigh = highWater /\ lastDelivered < windowHigh)
  /\ windowFrom \in 0 .. windowHigh /\ excused \in Nat
  /\ stage \in {"plain", "pending", "direct"}
  /\ shown \subseteq ProviderRequests /\ answered \subseteq ProviderRequests
  /\ attempts \in 0 .. MaxAttempts

(* The transport takes an unexpected number or frame for a broken helper   *)
(* and gives up for good.  Whatever was evicted, detached, reconnected or  *)
(* restarted, the bridge never makes it do so.  What the provider printed  *)
(* may end it too: the bridge forwards lines that are no objects or cannot *)
(* be decoded, and those are told apart here (HandleEvent, Handle).        *)
NeverRejectsTheBridge == failure \notin {"sequenceGap", "invalidFrame"}

(* A view that is connected and has read what was sent to it knows every   *)
(* provider request that is still pending, also the ones made while no app *)
(* was there and the ones whose history it skipped.                        *)
PendingIsShown ==
  (link = "up" /\ stage = "plain" /\ channel \in clients /\ send[channel] = <<>>)
    => pendingRequests \subseteq shown

(* The composition implements the numbered stream of module AcpStream.     *)
Stream == INSTANCE AcpStream WITH published <- nextSequence,
                                  delivered <- lastDelivered, excused <- excused

ImplementsStream == Stream!Spec

(* When channels stop breaking, the view ends up with everything the       *)
(* bridge published, or has failed.                                        *)
CatchesUp == <>[](link = "failed" \/ lastDelivered = nextSequence)

(* monkeymux_acp_bridge.dart: "Another attached client owns provider       *)
(* input."  The app of the model has one transport at a time, so only one  *)
(* left behind by a restart can own what its successor is refused.         *)
NonWriterMeansAnotherClient ==
  failure = "nonWriter" => restarts > 0
=============================================================================
