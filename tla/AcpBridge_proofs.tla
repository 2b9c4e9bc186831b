--------------------------- MODULE AcpBridge_proofs ---------------------------
(***************************************************************************)
(* What TLAPS proves about AcpBridge for every value of its constants.     *)
(***************************************************************************)
EXTENDS AcpBridge, FiniteSetTheorems, TLAPS

(***************************************************************************)
(* The replay window                                                       *)
(***************************************************************************)
(* Trimming only removes events.                                           *)
LEMMA TrimKeeps ==
  ASSUME NEW r, NEW total
  PROVE  /\ DOMAIN Trim(r, total) = DOMAIN r \ Evicted(r, total)
         /\ \A s \in DOMAIN Trim(r, total) : Trim(r, total)[s] = r[s]
BY DEF Trim, Restrict

LEMMA RestrictPinned ==
  ASSUME NEW r, NEW S \in SUBSET DOMAIN r
  PROVE  /\ DOMAIN Restrict(r, S) = S
         /\ \A s \in S : Restrict(r, S)[s] = r[s]
BY DEF Restrict

(* Neither eviction pass takes an event that holds an unanswered request.  *)
LEMMA EvictedUnpinned ==
  ASSUME NEW r, DOMAIN r \subseteq Int, NEW total
  PROVE  \A s \in Evicted(r, total) : s \in DOMAIN r /\ ~r[s].pinned
<1> DEFINE head == HeadEvicted(r, total)
           rest == Restrict(r, DOMAIN r \ head)
           left == total - Bytes(r, head)
<1>1. \A s \in head : s \in DOMAIN r /\ ~r[s].pinned
  BY DEF HeadEvicted
<1>2. \A s \in CompactEvicted(rest, left) : s \in DOMAIN rest /\ ~rest[s].pinned
  BY DEF CompactEvicted
<1>3. DOMAIN rest \subseteq DOMAIN r /\ \A s \in DOMAIN rest : rest[s] = r[s]
  BY DEF Restrict
<1>4. Evicted(r, total) \subseteq head \cup CompactEvicted(rest, left)
  BY DEF Evicted
<1> QED
  BY <1>1, <1>2, <1>3, <1>4

(* So a trimmed window pins what the window pinned.                        *)
LEMMA TrimPinned ==
  ASSUME NEW r, DOMAIN r \subseteq Int, NEW total
  PROVE  Pinned(Trim(r, total)) = Pinned(r)
<1>1. /\ DOMAIN Trim(r, total) = DOMAIN r \ Evicted(r, total)
      /\ \A s \in DOMAIN Trim(r, total) : Trim(r, total)[s] = r[s]
  BY TrimKeeps
<1>2. \A s \in Evicted(r, total) : s \in DOMAIN r /\ ~r[s].pinned
  BY EvictedUnpinned
<1>3. ASSUME NEW s PROVE s \in Pinned(Trim(r, total)) <=> s \in Pinned(r)
  BY <1>1, <1>2, Zenon DEF Pinned
<1> QED
  BY <1>3

(***************************************************************************)
(* Types                                                                   *)
(***************************************************************************)
LEMMA WindowFinite ==
  ASSUME WindowType, NEW S \in SUBSET DOMAIN replay
  PROVE  IsFiniteSet(S) /\ Cardinality(S) \in Nat
<1>1. IsFiniteSet(1 .. nextSequence)
  BY FS_Interval DEF WindowType
<1>2. IsFiniteSet(S)
  BY <1>1, FS_Subset DEF WindowType
<1> QED
  BY <1>2, FS_CardinalityType

(* A published event keeps the types of all it touches.                    *)
LEMMA PublishType ==
  ASSUME TypeOK, NEW e \in Events, e.kind = "request" => e.id \in ProviderRequests,
         Publish(e)
  PROVE  WindowType' /\ BookType' /\ LeaseType' /\ idle' \in BOOLEAN
<1> DEFINE n == nextSequence + 1
           appended == [s \in DOMAIN replay \cup {n} |-> IF s = n THEN e ELSE replay[s]]
<1>1. nextSequence' = n /\ n \in Nat
  BY DEF Publish, TypeOK, WindowType
<1>2. replay' = Trim(appended, replayBytes + e.bytes)
  BY DEF Publish, AppendReplay
<1>3. DOMAIN replay' \subseteq DOMAIN appended
  BY <1>2, TrimKeeps
<1>4. DOMAIN appended \subseteq 1 .. n
  BY DEF TypeOK, WindowType
<1>5. pendingReplayEvents' \in Int
  BY DEF Publish, AppendReplay, TypeOK, WindowType
<1>6. WindowType'
  <2>1. \A s \in DOMAIN appended : appended[s] \in Events
    BY DEF TypeOK, WindowType
  <2>2. ASSUME NEW s \in DOMAIN replay' PROVE replay'[s] \in Events
    <3>1. replay'[s] = appended[s]
      BY <1>2, TrimKeeps
    <3> QED
      BY <1>3, <2>1, <3>1
  <2> QED
    BY <1>1, <1>3, <1>4, <1>5, <2>2 DEF WindowType
<1>7. initializeResult' \in BOOLEAN
  BY Zenon DEF Publish, SettleResponse
<1>8. BookType'
  BY <1>7 DEF Publish, SettleResponse, TypeOK, BookType
<1>9. LeaseType'
  BY DEF Publish, FanOut, TypeOK, LeaseType
<1> QED
  BY <1>6, <1>8, <1>9 DEF Publish

(* Everything the bridge publishes is an event.                            *)
LEMMA OutputIsEvent ==
  ASSUME TypeOK, NEW e \in ProviderOutputs
  PROVE  /\ e \in Events /\ (e.kind = "request" => e.id \in ProviderRequests)
         /\ e.pinned => e.kind = "request"
<1>1. PICK k \in {"request", "result", "failure", "note", "bare", "garbled"},
           i \in ProviderRequests \cup ClientRequests \cup {Note}, b \in EventSizes :
        e = Event(k, i, b) /\ (k = "request" => i \in ProviderRequests)
  BY DEF ProviderOutputs, FreshRequests, TypeOK, PeerType
<1>2. b \in Nat
  BY BridgeAssumption
<1> QED
  BY <1>1, <1>2 DEF Event, Events

LEMMA StateIsEvent ==
  ASSUME NEW s \in {"protocol_error", "exited"}
  PROVE  StateEvent(s) \in Events /\ StateEvent(s).kind = "state"
BY DEF StateEvent, Event, Events

(* Releasing pins keeps the window within the published numbers.           *)
LEMMA ReleaseType ==
  ASSUME WindowType, NEW S, NEW total, replay' = Trim(Unpin(replay, S), total)
  PROVE  /\ DOMAIN replay' \subseteq 1 .. nextSequence
         /\ \A s \in DOMAIN replay' : replay'[s] \in Events
<1>1. DOMAIN Unpin(replay, S) = DOMAIN replay
  BY DEF Unpin
<1>2. \A s \in DOMAIN replay : Unpin(replay, S)[s] \in Events
  BY DEF Unpin, WindowType, Events
<1> QED
  BY <1>1, <1>2, TrimKeeps DEF WindowType

LEMMA TypeInit == Init => TypeOK
<1> SUFFICES ASSUME Init PROVE TypeOK
  OBVIOUS
<1>1. WindowType
  BY DEF Init, WindowType
<1>2. BookType
  <2>1. initializeResult \in BOOLEAN
    BY Zenon DEF Init
  <2> QED
    BY <2>1 DEF Init, BookType
<1>3. LeaseType
  BY DEF Init, LeaseType
<1>4. LifeType
  <2>1. stdin \in BOOLEAN /\ reapAllowed \in BOOLEAN /\ held \in BOOLEAN
    BY Zenon DEF Init
  <2> QED
    BY <2>1 DEF Init, LifeType
<1>5. ThreadType
  BY DEF Init, ThreadType
<1>6. HandlerType
  BY DEF Init, HandlerType, Idle
<1>7. PeerType
  BY DEF Init, PeerType
<1>8. idle \in BOOLEAN
  BY Zenon DEF Init
<1> QED
  BY <1>1, <1>2, <1>3, <1>4, <1>5, <1>6, <1>7, <1>8 DEF TypeOK

(* The groups of variables a step leaves alone keep their types.           *)
LEMMA TypeUnchanged ==
  ASSUME TypeOK
  PROVE  /\ UNCHANGED windowVars => WindowType'
         /\ UNCHANGED bookVars => BookType'
         /\ UNCHANGED leaseVars => LeaseType'
         /\ UNCHANGED lifeVars => LifeType'
         /\ UNCHANGED threadVars => ThreadType'
         /\ UNCHANGED handlerVars => HandlerType'
         /\ UNCHANGED peerVars => PeerType'
         /\ UNCHANGED idle => idle' \in BOOLEAN
BY DEF TypeOK, WindowType, BookType, LeaseType, LifeType, ThreadType, HandlerType,
       PeerType, windowVars, bookVars, leaseVars, lifeVars, threadVars, handlerVars,
       peerVars

(* The body of stop, whoever runs it.                                      *)
LEMMA BeginStopType ==
  ASSUME TypeOK, BeginStop
  PROVE  /\ WindowType' /\ BookType' /\ LeaseType' /\ LifeType' /\ ThreadType'
         /\ PeerType' /\ idle' \in BOOLEAN
<1>1. LeaseType' /\ LifeType' /\ ThreadType'
  BY DEF BeginStop, TypeOK, LeaseType, LifeType, ThreadType
<1>2. idle' \in BOOLEAN
  BY Zenon DEF BeginStop
<1> QED
  BY <1>1, <1>2, TypeUnchanged DEF BeginStop

(* A step of the bridge with anyone at the other end of its connections:   *)
(* whatever was published can be resumed from, any message may arrive.     *)
OpenStep(c) ==
  \/ \E lastAck \in 0 .. nextSequence, requested \in {"plain", "pending", "adaptive"} :
       Attach(c, lastAck, requested)
  \/ \E m \in ClientMessages : ReceiveInput(c, m)

OpenNext == Next \/ \E c \in Conns : OpenStep(c)

LEMMA TypeStep == TypeOK /\ [OpenNext]_vars => TypeOK'
<1> SUFFICES ASSUME TypeOK, [OpenNext]_vars PROVE TypeOK'
  OBVIOUS
<1>1. CASE ProviderGarbage
  BY <1>1, TypeUnchanged DEF ProviderGarbage, TypeOK, ThreadType
<1>2. CASE ProviderEOF
  BY <1>2, TypeUnchanged DEF ProviderEOF, TypeOK, ThreadType
<1>3. CASE FailState
  BY <1>3, TypeUnchanged DEF FailState, TypeOK, LifeType, ThreadType
<1>4. CASE FailClose
  BY <1>4, TypeUnchanged DEF FailClose, TypeOK, LifeType, ThreadType, CloseProviderInput
<1>5. CASE FailStop
  BY <1>5, TypeUnchanged DEF FailStop, TypeOK, LifeType, ThreadType, StopProviderProcess
<1>6. CASE ReapProvider
  BY <1>6, TypeUnchanged DEF ReapProvider, TypeOK, LifeType, ThreadType
<1>7. CASE DrainTimeout
  BY <1>7, TypeUnchanged DEF DrainTimeout, TypeOK, ThreadType
<1>8. CASE StopSignal
  BY <1>8, BeginStopType, TypeUnchanged DEF StopSignal, TypeOK
<1>9. CASE StopClose
  BY <1>9, TypeUnchanged DEF StopClose, TypeOK, LifeType, ThreadType, CloseProviderInput
<1>10. CASE StopKill
  BY <1>10, TypeUnchanged DEF StopKill, TypeOK, LifeType, ThreadType, StopProviderProcess
<1>11. CASE ProviderDies
  BY <1>11, TypeUnchanged DEF ProviderDies, TypeOK, LifeType
<1>12. CASE Age
  BY <1>12, TypeUnchanged DEF Age, TypeOK
<1>13. ASSUME NEW c \in Conns, Accept(c) PROVE TypeOK'
  BY <1>13, TypeUnchanged DEF Accept, TypeOK, HandlerType, Idle
<1>14. ASSUME NEW c \in Conns, Hangup(c) PROVE TypeOK'
  BY <1>14, TypeUnchanged DEF Hangup, TypeOK, HandlerType, Idle
<1>15. ASSUME NEW c \in Conns, StopCommand(c) PROVE TypeOK'
  BY <1>15, BeginStopType DEF StopCommand, TypeOK, HandlerType, Idle
<1>16. ASSUME NEW c \in Conns, GcCommand(c) PROVE TypeOK'
  BY <1>16, TypeUnchanged DEF GcCommand, TypeOK, HandlerType, Idle
<1>17. ASSUME NEW c \in Conns, GcStop(c) PROVE TypeOK'
  <2>1. HandlerType'
    BY <1>17 DEF GcStop, TypeOK, HandlerType, Idle
  <2>2. CASE stopper = "none"
    BY <1>17, <2>1, <2>2, BeginStopType DEF GcStop, TypeOK
  <2>3. CASE stopper # "none"
    BY <1>17, <2>1, <2>3, TypeUnchanged DEF GcStop, TypeOK
  <2> QED
    BY <2>2, <2>3
<1>18. ASSUME NEW c \in Conns, DetachClient(c) PROVE TypeOK'
  BY <1>18, TypeUnchanged DEF DetachClient, TypeOK, Drop, LeaseType
<1>19. ASSUME NEW c \in Conns, CloseConnection(c) PROVE TypeOK'
  BY <1>19, TypeUnchanged DEF CloseConnection, TypeOK, HandlerType, Idle
<1>20. ASSUME NEW c \in Conns, OtherFrame(c) PROVE TypeOK'
  BY <1>20, TypeUnchanged DEF OtherFrame, TypeOK, HandlerType, Idle
<1>21. ASSUME NEW c \in Conns, Answer(c) PROVE TypeOK'
  BY <1>21, TypeUnchanged DEF Answer, TypeOK, Drop, LeaseType, HandlerType, Idle
<1>22. ASSUME NEW c \in Conns, PassCache(c) PROVE TypeOK'
  BY <1>22, TypeUnchanged DEF PassCache, TypeOK, HandlerType, Working
<1>23. ASSUME NEW c \in Conns, TrackRequest(c) PROVE TypeOK'
  BY <1>23, TypeUnchanged DEF TrackRequest, TypeOK, BookType, HandlerType, Working, ClientMessages, NoMsg
<1>24. ASSUME NEW c \in Conns, WriteProvider(c) PROVE TypeOK'
  BY <1>24, TypeUnchanged DEF WriteProvider, TypeOK, PeerType, HandlerType, Working, ClientMessages, NoMsg
<1>25. ASSUME NEW c \in Conns, WriteFails(c) PROVE TypeOK'
  BY <1>25, TypeUnchanged DEF WriteFails, TypeOK, HandlerType, Working
<1>26. ASSUME NEW c \in Conns, UntrackRequest(c) PROVE TypeOK'
  BY <1>26, TypeUnchanged DEF UntrackRequest, TypeOK, BookType, HandlerType, Idle
<1>27. ASSUME NEW c \in Conns, WriteFrame(c) PROVE TypeOK'
  BY <1>27, TypeUnchanged DEF WriteFrame, TypeOK
<1>28. CASE ProviderOutput
  <2> PICK e \in ProviderOutputs :
        IF PendingLimitReached(e)
        THEN /\ reader' = "failed"
             /\ UNCHANGED <<windowVars, bookVars, leaseVars, queueVars, peerVars, idle>>
        ELSE /\ Publish(e)
             /\ asked' = IF e.kind = "request" THEN asked \cup {e.id} ELSE asked
             /\ owed' = owed \ {e.id}
             /\ UNCHANGED reader
    BY <1>28 DEF ProviderOutput
  <2>1. e.kind = "request" => e.id \in ProviderRequests
    BY OutputIsEvent
  <2>2. UNCHANGED <<lifeVars, waiter, stopper, handlerVars>>
    BY <1>28 DEF ProviderOutput
  <2>3. CASE PendingLimitReached(e)
    BY <2>2, <2>3, TypeUnchanged DEF TypeOK, ThreadType
  <2>4. CASE ~PendingLimitReached(e)
    <3>1. WindowType' /\ BookType' /\ LeaseType' /\ idle' \in BOOLEAN
      BY <2>1, <2>4, OutputIsEvent, PublishType
    <3>2. PeerType' /\ ThreadType'
      BY <2>1, <2>2, <2>4 DEF TypeOK, PeerType, ThreadType
    <3> QED
      BY <2>2, <3>1, <3>2, TypeUnchanged DEF TypeOK
  <2> QED
    BY <2>3, <2>4
<1>29. CASE FailPublish
  <2>1. WindowType' /\ BookType' /\ LeaseType' /\ idle' \in BOOLEAN
    BY <1>29, StateIsEvent, PublishType DEF FailPublish
  <2> QED
    BY <1>29, <2>1, TypeUnchanged DEF FailPublish, TypeOK, ThreadType
<1>30. CASE ProviderExited
  <2>1. /\ DOMAIN replay' \subseteq 1 .. nextSequence
        /\ \A s \in DOMAIN replay' : replay'[s] \in Events
    BY <1>30, ReleaseType DEF ProviderExited, ReleaseAllPendingReplay, TypeOK
  <2>2. WindowType' /\ BookType'
    BY <1>30, <2>1 DEF ProviderExited, ReleaseAllPendingReplay, TypeOK, WindowType, BookType
  <2>3. idle' \in BOOLEAN
    BY <1>30, Zenon DEF ProviderExited, TypeOK
  <2>4. LifeType' /\ ThreadType'
    BY <1>30 DEF ProviderExited, TypeOK, LifeType, ThreadType
  <2> QED
    BY <1>30, <2>2, <2>3, <2>4, TypeUnchanged DEF ProviderExited, TypeOK
<1>31. CASE PublishExit
  <2>1. WindowType' /\ BookType' /\ LeaseType' /\ idle' \in BOOLEAN
    BY <1>31, StateIsEvent, PublishType DEF PublishExit
  <2> QED
    BY <1>31, <2>1, TypeUnchanged DEF PublishExit, TypeOK, ThreadType
<1>32. ASSUME NEW c \in Conns, NEW lastAck, NEW requested, Attach(c, lastAck, requested)
       PROVE  TypeOK'
  <2>1. HandlerType'
    BY <1>32 DEF Attach, Register, TypeOK, HandlerType, Idle
  <2>2. LeaseType'
    BY <1>32 DEF Attach, Register, TypeOK, LeaseType, leaseVars
  <2>3. idle' \in BOOLEAN
    BY <1>32, Zenon DEF Attach, Register, TypeOK
  <2> QED
    BY <1>32, <2>1, <2>2, <2>3, TypeUnchanged DEF Attach, TypeOK
<1>33. ASSUME NEW c \in Conns, NEW n, Ack(c, n) PROVE TypeOK'
  BY <1>33, TypeUnchanged DEF Ack, TypeOK
<1>34. ASSUME NEW c \in Conns, NEW m \in ClientMessages, ReceiveInput(c, m) PROVE TypeOK'
  <2>1. LeaseType' /\ HandlerType'
    BY <1>34 DEF ReceiveInput, TypeOK, LeaseType, HandlerType, Idle, Working
  <2> QED
    BY <1>34, <2>1, TypeUnchanged DEF ReceiveInput, TypeOK
<1>35. ASSUME NEW c \in Conns, AnswerFromCache(c) PROVE TypeOK'
  <2>1. WindowType' /\ BookType' /\ LeaseType' /\ idle' \in BOOLEAN
    <3>1. msg[c].kind = "request" /\ msg[c].id \in ClientRequests
      BY <1>35, BridgeAssumption DEF AnswerFromCache, IsCachedInitialize
    <3>2. /\ Event("result", msg[c].id, 1) \in Events
          /\ Event("result", msg[c].id, 1).kind = "result"
      BY <3>1 DEF Event, Events
    <3> QED
      BY <1>35, <3>2, PublishType DEF AnswerFromCache
  <2>2. HandlerType'
    BY <1>35 DEF AnswerFromCache, TypeOK, HandlerType, Idle
  <2> QED
    BY <1>35, <2>1, <2>2, TypeUnchanged DEF AnswerFromCache, TypeOK
<1>36. ASSUME NEW c \in Conns, ObserveMessage(c) PROVE TypeOK'
  <2>1. WindowType'
    <3>1. CASE msg[c].kind = "reply"
      <4> DEFINE freed == {s \in Pinned(replay) : replay[s].id = msg[c].id}
      <4>1. /\ replay' = Trim(Unpin(replay, freed), replayBytes)
            /\ pendingReplayEvents' = pendingReplayEvents - Cardinality(freed)
        BY <1>36, <3>1 DEF ObserveMessage, ReleasePendingReplay
      <4>2. Cardinality(freed) \in Nat
        BY WindowFinite DEF Pinned, TypeOK
      <4>3. /\ DOMAIN replay' \subseteq 1 .. nextSequence
            /\ \A s \in DOMAIN replay' : replay'[s] \in Events
        BY <4>1, ReleaseType DEF TypeOK
      <4> QED
        BY <1>36, <4>1, <4>2, <4>3 DEF ObserveMessage, TypeOK, WindowType
    <3>2. CASE msg[c].kind # "reply"
      BY <1>36, <3>2 DEF ObserveMessage, TypeOK, WindowType
    <3> QED
      BY <3>1, <3>2
  <2>2. BookType'
    BY <1>36 DEF ObserveMessage, TypeOK, BookType
  <2>3. HandlerType'
    BY <1>36 DEF ObserveMessage, TypeOK, HandlerType, Idle
  <2>4. idle' \in BOOLEAN
    BY <1>36, Zenon DEF ObserveMessage, TypeOK
  <2> QED
    BY <1>36, <2>1, <2>2, <2>3, <2>4, TypeUnchanged DEF ObserveMessage, TypeOK
<1>37. CASE UNCHANGED vars
  BY <1>37, TypeUnchanged DEF vars, TypeOK
<1>38. ASSUME NEW c \in Conns, ConnectionStep(c) PROVE TypeOK'
  BY <1>13, <1>14, <1>15, <1>16, <1>17, <1>32, <1>38 DEF ConnectionStep
<1>39. ASSUME NEW c \in Conns, ClientStep(c) PROVE TypeOK'
  BY <1>18, <1>19, <1>20, <1>21, <1>22, <1>23, <1>24, <1>25, <1>26, <1>27, <1>33,
     <1>34, <1>35, <1>36, <1>39 DEF ClientStep, FreshInputs
<1>40. ASSUME NEW c \in Conns, OpenStep(c) PROVE TypeOK'
  BY <1>32, <1>34, <1>40 DEF OpenStep
<1> QED
  BY <1>1, <1>2, <1>3, <1>4, <1>5, <1>6, <1>7, <1>8, <1>9, <1>10, <1>11, <1>12,
     <1>28, <1>29, <1>30, <1>31, <1>37, <1>38, <1>39, <1>40
  DEF OpenNext, Next, ReaderStep, WaiterStep, StopperStep

(* The bridge's variables keep their types in every reachable state.       *)
THEOREM TypeCorrect == Spec => []TypeOK
<1>1. [Next]_vars => [OpenNext]_vars
  BY DEF OpenNext
<1> QED
  BY <1>1, TypeInit, TypeStep, PTL DEF Spec

(***************************************************************************)
(* The writer lease                                                        *)
(***************************************************************************)
LeaseInv == LeaseSound /\ StoppedHasNoClients

(* No handler starts to work on input.                                     *)
NoNewWork == \A c \in Conns : pc'[c] \in Working => pc[c] \in Working

(* Clients only leave, and a lease is freed only with its client.          *)
OnlyLeave ==
  /\ clients' \subseteq clients
  /\ writerClientID' =
       IF writerClientID \in clients \ clients' THEN NoClient ELSE writerClientID

LEMMA LeaveKeepsLease ==
  ASSUME TypeOK, LeaseInv, OnlyLeave, NoNewWork, state' = state
  PROVE  LeaseInv'
BY DEF LeaseInv, LeaseSound, StoppedHasNoClients, OnlyLeave, NoNewWork, TypeOK,
       LeaseType

LEMMA SameKeepsLease ==
  ASSUME TypeOK, LeaseInv, UNCHANGED leaseVars, NoNewWork,
         state' = "stopped" <=> state = "stopped"
  PROVE  LeaseInv'
BY DEF LeaseInv, LeaseSound, StoppedHasNoClients, NoNewWork, leaseVars, TypeOK,
       LeaseType

LEMMA PublishLeaves ==
  ASSUME NEW e, Publish(e), TypeOK
  PROVE  OnlyLeave
BY DEF Publish, FanOut, OnlyLeave, TypeOK, LeaseType

LEMMA StopKeepsLease ==
  ASSUME TypeOK, LeaseInv, BeginStop
  PROVE  LeaseInv'
BY DEF LeaseInv, LeaseSound, StoppedHasNoClients, BeginStop

LEMMA LeaseStep == TypeOK /\ LeaseInv /\ [Next]_vars => LeaseInv'
<1> SUFFICES ASSUME TypeOK, LeaseInv, [Next]_vars PROVE LeaseInv'
  OBVIOUS
<1>1. CASE ProviderOutput
  <2>1. NoNewWork /\ state' = state
    BY <1>1 DEF ProviderOutput, NoNewWork, handlerVars, lifeVars
  <2>2. UNCHANGED leaseVars \/ \E e \in ProviderOutputs : Publish(e)
    BY <1>1 DEF ProviderOutput
  <2> QED
    BY <2>1, <2>2, PublishLeaves, LeaveKeepsLease, SameKeepsLease
<1>2. CASE FailPublish \/ PublishExit
  <2>1. NoNewWork /\ state' = state
    BY <1>2 DEF FailPublish, PublishExit, NoNewWork, handlerVars, lifeVars
  <2> QED
    BY <1>2, <2>1, PublishLeaves, LeaveKeepsLease DEF FailPublish, PublishExit
<1>3. CASE ProviderGarbage \/ ProviderEOF \/ FailClose \/ FailStop \/ ReapProvider
           \/ DrainTimeout \/ StopClose \/ StopKill \/ ProviderDies \/ Age
  <2>1. UNCHANGED leaseVars /\ NoNewWork /\ state' = state
    BY <1>3 DEF ProviderGarbage, ProviderEOF, FailClose, FailStop, ReapProvider,
                DrainTimeout, StopClose, StopKill, ProviderDies, Age, NoNewWork,
                handlerVars, lifeVars
  <2> QED
    BY <2>1, SameKeepsLease
<1>4. CASE FailState \/ ProviderExited
  <2>1. /\ UNCHANGED leaseVars /\ NoNewWork
        /\ state' = "stopped" <=> state = "stopped"
    BY <1>4 DEF FailState, ProviderExited, NoNewWork, handlerVars
  <2> QED
    BY <2>1, SameKeepsLease
<1>5. CASE StopSignal
  BY <1>5, StopKeepsLease DEF StopSignal
<1>6. ASSUME NEW c \in Conns, StopCommand(c) \/ GcStop(c) PROVE LeaseInv'
  <2>1. CASE BeginStop
    BY <2>1, StopKeepsLease
  <2>2. CASE ~BeginStop
    <3>1. UNCHANGED leaseVars /\ NoNewWork /\ state' = state
      BY <1>6, <2>2 DEF StopCommand, GcStop, NoNewWork, lifeVars, TypeOK, HandlerType,
                        Working
    <3> QED
      BY <3>1, SameKeepsLease
  <2> QED
    BY <2>1, <2>2
<1>7. ASSUME NEW c \in Conns,
             Accept(c) \/ Hangup(c) \/ GcCommand(c) \/ CloseConnection(c)
             \/ OtherFrame(c) \/ PassCache(c) \/ TrackRequest(c) \/ WriteProvider(c)
             \/ WriteFails(c) \/ UntrackRequest(c) \/ ObserveMessage(c)
             \/ WriteFrame(c) \/ \E n \in 0 .. nextSequence : Ack(c, n)
      PROVE  LeaseInv'
  <2>1. UNCHANGED leaseVars /\ state' = state
    BY <1>7 DEF Accept, Hangup, GcCommand, CloseConnection, OtherFrame, PassCache,
                TrackRequest, WriteProvider, WriteFails, UntrackRequest,
                ObserveMessage, WriteFrame, Ack, lifeVars
  <2>2. NoNewWork
    BY <1>7 DEF Accept, Hangup, GcCommand, CloseConnection, OtherFrame, PassCache,
                TrackRequest, WriteProvider, WriteFails, UntrackRequest,
                ObserveMessage, WriteFrame, Ack, NoNewWork, handlerVars, TypeOK,
                HandlerType, Working
  <2> QED
    BY <2>1, <2>2, SameKeepsLease
<1>8. ASSUME NEW c \in Conns, NEW lastAck, NEW requested, Attach(c, lastAck, requested)
      PROVE  LeaseInv'
  <2>1. CASE state = "stopped"
    <3>1. UNCHANGED leaseVars /\ NoNewWork /\ state' = state
      BY <1>8, <2>1 DEF Attach, NoNewWork, lifeVars, TypeOK, HandlerType, Working
    <3> QED
      BY <3>1, SameKeepsLease
  <2>2. CASE state # "stopped"
    <3>1. /\ writerClientID' = IF writerClientID = NoClient THEN c ELSE writerClientID
          /\ clients' = clients \cup {c}
          /\ pc' = [pc EXCEPT ![c] = "serving"]
          /\ state' = state
      BY <1>8, <2>2 DEF Attach, Register, lifeVars
    <3> QED
      BY <2>2, <3>1, BridgeAssumption
      DEF LeaseInv, LeaseSound, StoppedHasNoClients, TypeOK, LeaseType, HandlerType,
          Working
  <2> QED
    BY <2>1, <2>2
<1>9. ASSUME NEW c \in Conns, DetachClient(c) \/ Answer(c) PROVE LeaseInv'
  <2>1. OnlyLeave
    BY <1>9 DEF DetachClient, Answer, Drop, OnlyLeave, leaseVars, TypeOK, LeaseType
  <2>2. NoNewWork /\ state' = state
    BY <1>9 DEF DetachClient, Answer, NoNewWork, handlerVars, lifeVars, TypeOK,
                HandlerType, Working
  <2> QED
    BY <2>1, <2>2, LeaveKeepsLease
<1>10. ASSUME NEW c \in Conns, NEW m, ReceiveInput(c, m) PROVE LeaseInv'
  <2>1. CASE writerClientID \in {NoClient, c}
    <3>1. /\ writerClientID' = c /\ clients' = clients /\ c \in clients
          /\ pc' = [pc EXCEPT ![c] = IF m.kind = "invalid" THEN "answering" ELSE "leased"]
          /\ state' = state
      BY <1>10, <2>1 DEF ReceiveInput, lifeVars
    <3> QED
      BY <2>1, <3>1, BridgeAssumption
      DEF LeaseInv, LeaseSound, StoppedHasNoClients, TypeOK, LeaseType, HandlerType
  <2>2. CASE writerClientID \notin {NoClient, c}
    <3>1. UNCHANGED leaseVars /\ NoNewWork /\ state' = state
      BY <1>10, <2>2 DEF ReceiveInput, NoNewWork, leaseVars, lifeVars, TypeOK,
                         HandlerType, Working
    <3> QED
      BY <3>1, SameKeepsLease
  <2> QED
    BY <2>1, <2>2
<1>11. ASSUME NEW c \in Conns, AnswerFromCache(c) PROVE LeaseInv'
  <2>1. NoNewWork /\ state' = state
    BY <1>11 DEF AnswerFromCache, NoNewWork, lifeVars, TypeOK, HandlerType, Working
  <2> QED
    BY <1>11, <2>1, PublishLeaves, LeaveKeepsLease DEF AnswerFromCache
<1>12. CASE UNCHANGED vars
  <2>1. UNCHANGED leaseVars /\ NoNewWork /\ state' = state
    BY <1>12 DEF vars, NoNewWork, handlerVars, lifeVars
  <2> QED
    BY <2>1, SameKeepsLease
<1>13. ASSUME NEW c \in Conns, ConnectionStep(c) PROVE LeaseInv'
  BY <1>6, <1>7, <1>8, <1>13 DEF ConnectionStep
<1>14. ASSUME NEW c \in Conns, ClientStep(c) PROVE LeaseInv'
  BY <1>7, <1>9, <1>10, <1>11, <1>14 DEF ClientStep
<1> QED
  BY <1>1, <1>2, <1>3, <1>4, <1>5, <1>12, <1>13, <1>14
  DEF Next, ReaderStep, WaiterStep, StopperStep

LEMMA LeaseInvariant == Spec => []LeaseInv
<1>1. Init => LeaseInv
  BY DEF Init, LeaseInv, LeaseSound, StoppedHasNoClients
<1> QED
  BY <1>1, LeaseStep, TypeCorrect, PTL DEF Spec

(* At most one attached client works on input, the one that holds the      *)
(* lease, and a lease never stays with a client that is gone.              *)
THEOREM LeaseIsSound == Spec => []LeaseSound
<1>1. LeaseInv => LeaseSound
  BY DEF LeaseInv
<1> QED
  BY <1>1, LeaseInvariant, PTL

(* A stopped bridge has no clients, however late a hello arrives.          *)
THEOREM StoppedIsEmpty == Spec => []StoppedHasNoClients
<1>1. LeaseInv => StoppedHasNoClients
  BY DEF LeaseInv
<1> QED
  BY <1>1, LeaseInvariant, PTL

(***************************************************************************)
(* The provider's state                                                    *)
(***************************************************************************)
LEMMA StateStep == TypeOK /\ [Next]_vars => Rank(state') >= Rank(state)
<1> SUFFICES ASSUME TypeOK, [Next]_vars PROVE Rank(state') >= Rank(state)
  OBVIOUS
<1>1. CASE state' = state
  BY <1>1 DEF Rank, TypeOK, LifeType
<1>2. CASE state' = "stopped"
  BY <1>2 DEF Rank, TypeOK, LifeType
<1>3. CASE FailState \/ ProviderExited
  <2>1. \/ state' = IF state = "running" THEN "protocol_error" ELSE state
        \/ state' = IF state = "stopped" THEN "stopped" ELSE "exited"
    BY <1>3 DEF FailState, ProviderExited
  <2>2. state = "running" => Rank(state) = 0
    BY DEF Rank
  <2>3. state = "protocol_error" => Rank(state) = 1
    BY DEF Rank
  <2>4. Rank("protocol_error") = 1 /\ Rank("exited") = 2
    BY DEF Rank
  <2> QED
    BY <1>1, <1>2, <2>1, <2>2, <2>3, <2>4 DEF TypeOK, LifeType
<1>4. CASE ReaderStep \/ WaiterStep \/ StopperStep \/ ProviderDies \/ Age
  <2>1. FailState \/ ProviderExited \/ state' = state \/ state' = "stopped"
    BY <1>4
    DEF ReaderStep, WaiterStep, StopperStep, ProviderOutput, ProviderGarbage,
        ProviderEOF, FailPublish, FailClose, FailStop, ReapProvider, DrainTimeout,
        PublishExit, StopSignal, BeginStop, StopClose, StopKill, ProviderDies, Age,
        lifeVars
  <2> QED
    BY <1>1, <1>2, <1>3, <2>1
<1>5. ASSUME NEW c \in Conns, ConnectionStep(c) PROVE state' \in {state, "stopped"}
  BY <1>5 DEF ConnectionStep, Accept, Hangup, StopCommand, GcCommand, GcStop, BeginStop,
              Attach, lifeVars
<1>6. ASSUME NEW c \in Conns, ClientStep(c) PROVE state' = state
  BY <1>6 DEF ClientStep, DetachClient, CloseConnection, OtherFrame, Answer, Ack,
              ReceiveInput, AnswerFromCache, PassCache, TrackRequest, WriteProvider,
              WriteFails, UntrackRequest, ObserveMessage, WriteFrame, lifeVars
<1>7. CASE UNCHANGED vars
  BY <1>1, <1>7 DEF vars, lifeVars
<1> QED
  BY <1>1, <1>2, <1>4, <1>5, <1>6, <1>7 DEF Next

(* A late protocol failure never hides an exit, an exit never a stop.      *)
THEOREM StateAdvances == Spec => StateOnlyAdvances
<1>1. TypeOK /\ [Next]_vars => [Rank(state') >= Rank(state)]_vars
  BY StateStep
<1> QED
  BY <1>1, TypeCorrect, PTL DEF Spec, StateOnlyAdvances

(***************************************************************************)
(* Provider requests: pending, retained, and cleared by the exit           *)
(***************************************************************************)
(* The provider is gone before its leader is reaped.                       *)
ReapedIsDead == waiter # "waiting" => provider = "dead"

(* A reply the provider has got is not for a request it still waits for.   *)
WrittenIsHeard ==
  provider = "alive" =>
    \A c \in Conns : (pc[c] = "written" /\ msg[c].kind = "reply") => msg[c].id \notin asked

AskedInv == AskedStaysPending /\ ReapedIsDead /\ WrittenIsHeard

(* What a published event does to the books, by its kind.                  *)
LEMMA PublishBooks ==
  ASSUME NEW e, Publish(e)
  PROVE  /\ pendingRequests \subseteq pendingRequests'
         /\ e.kind = "request" => pendingRequests' = pendingRequests \cup {e.id}
         /\ e.kind # "request" => pendingRequests' = pendingRequests
         /\ inFlightTurns' = IF e.kind \in {"result", "failure"}
                             THEN inFlightTurns \ {e.id} ELSE inFlightTurns
BY DEF Publish, SettleResponse

(* What provider output may be.                                            *)
LEMMA OutputKind ==
  ASSUME NEW e \in ProviderOutputs
  PROVE  /\ e.kind = "request" => e.id \in FreshRequests
         /\ e.kind \in {"result", "failure"} => e.id \in owed
BY DEF ProviderOutputs, Event

LEMMA AskedStep == TypeOK /\ AskedInv /\ [Next]_vars => AskedInv'
<1> SUFFICES ASSUME TypeOK, AskedInv, [Next]_vars PROVE AskedInv'
  OBVIOUS
<1> USE DEF AskedInv, AskedStaysPending, ReapedIsDead, WrittenIsHeard
(* Steps that add to the pending requests at most, and write nothing.      *)
<1>1. ASSUME pendingRequests \subseteq pendingRequests', asked' = asked,
             provider' = provider \/ provider' = "dead",
             waiter' = waiter \/ provider' = "dead", msg' = msg,
             \A c \in Conns : pc'[c] = "written" => pc[c] = "written"
      PROVE  AskedInv'
  BY <1>1 DEF TypeOK, LifeType
<1>2. ASSUME NEW e, Publish(e), asked' = asked, provider' = provider,
             waiter' = waiter \/ provider' = "dead", UNCHANGED handlerVars
      PROVE  AskedInv'
  BY <1>1, <1>2, PublishBooks DEF handlerVars
<1>3. CASE ProviderOutput
  <2>1. UNCHANGED handlerVars /\ provider' = provider /\ waiter' = waiter
    BY <1>3 DEF ProviderOutput, lifeVars
  <2> PICK e \in ProviderOutputs :
        IF PendingLimitReached(e)
        THEN UNCHANGED <<bookVars, peerVars>>
        ELSE /\ Publish(e)
             /\ asked' = IF e.kind = "request" THEN asked \cup {e.id} ELSE asked
    BY <1>3 DEF ProviderOutput
  <2>2. CASE PendingLimitReached(e)
    BY <1>1, <2>1, <2>2 DEF bookVars, peerVars, handlerVars
  <2>3. CASE ~PendingLimitReached(e) /\ e.kind # "request"
    BY <1>2, <2>1, <2>3
  <2>4. CASE ~PendingLimitReached(e) /\ e.kind = "request"
    <3>1. \A c \in Conns : e.id # msg[c].id
      BY <2>4, OutputKind DEF FreshRequests
    <3>2. pendingRequests' = pendingRequests \cup {e.id} /\ asked' = asked \cup {e.id}
      BY <2>4, PublishBooks
    <3> QED
      BY <2>1, <3>1, <3>2 DEF handlerVars
  <2> QED
    BY <2>2, <2>3, <2>4
<1>4. CASE FailPublish \/ PublishExit
  <2>1. /\ asked' = asked /\ provider' = provider /\ UNCHANGED handlerVars
        /\ waiter' = waiter \/ provider' = "dead"
    BY <1>4 DEF FailPublish, PublishExit, lifeVars, peerVars
  <2> QED
    BY <1>2, <1>4, <2>1 DEF FailPublish, PublishExit
<1>5. CASE \/ ProviderGarbage \/ ProviderEOF \/ FailState \/ FailClose \/ FailStop
           \/ ReapProvider \/ DrainTimeout \/ StopperStep \/ ProviderDies \/ Age
  <2>1. /\ pendingRequests' = pendingRequests /\ asked' = asked /\ UNCHANGED handlerVars
        /\ provider' = provider \/ provider' = "dead"
        /\ waiter' = waiter \/ provider' = "dead"
    BY <1>5 DEF ProviderGarbage, ProviderEOF, FailState, FailClose, FailStop,
                ReapProvider, DrainTimeout, StopperStep, StopSignal, BeginStop, StopClose,
                StopKill, ProviderDies, Age, StopProviderProcess, bookVars, peerVars,
                lifeVars, threadVars
  <2> QED
    BY <1>1, <2>1 DEF handlerVars
<1>6. CASE ProviderExited
  BY <1>6 DEF ProviderExited
<1>7. ASSUME NEW c \in Conns,
             \/ Accept(c) \/ Hangup(c) \/ StopCommand(c) \/ GcCommand(c) \/ GcStop(c)
             \/ DetachClient(c) \/ CloseConnection(c) \/ OtherFrame(c) \/ PassCache(c)
             \/ TrackRequest(c) \/ WriteFails(c) \/ UntrackRequest(c) \/ WriteFrame(c)
             \/ \E n \in 0 .. nextSequence : Ack(c, n)
             \/ \E lastAck, requested : Attach(c, lastAck, requested)
      PROVE  AskedInv'
  <2>1. /\ pendingRequests' = pendingRequests /\ asked' = asked /\ msg' = msg
        /\ provider' = provider /\ waiter' = waiter
    BY <1>7 DEF Accept, Hangup, StopCommand, GcCommand, GcStop, BeginStop, DetachClient,
                CloseConnection, OtherFrame, PassCache, TrackRequest, WriteFails,
                UntrackRequest, WriteFrame, Ack, Attach, bookVars, peerVars, lifeVars,
                threadVars, handlerVars
  <2>2. \A d \in Conns : pc'[d] = "written" => pc[d] = "written"
    BY <1>7 DEF Accept, Hangup, StopCommand, GcCommand, GcStop, DetachClient,
                CloseConnection, OtherFrame, PassCache, TrackRequest, WriteFails,
                UntrackRequest, WriteFrame, Ack, Attach, Register, handlerVars, TypeOK,
                HandlerType
  <2> QED
    BY <1>1, <2>1, <2>2
<1>8. ASSUME NEW c \in Conns, NEW m, ReceiveInput(c, m) \/ Answer(c) PROVE AskedInv'
  <2>1. /\ pendingRequests' = pendingRequests /\ asked' = asked
        /\ provider' = provider /\ waiter' = waiter
        /\ \A d \in Conns \ {c} : pc'[d] = pc[d] /\ msg'[d] = msg[d]
        /\ pc'[c] # "written"
    BY <1>8 DEF ReceiveInput, Answer, bookVars, peerVars, lifeVars, threadVars, TypeOK,
                HandlerType
  <2> QED
    BY <2>1
<1>9. ASSUME NEW c \in Conns, AnswerFromCache(c) PROVE AskedInv'
  <2>1. /\ pendingRequests \subseteq pendingRequests' /\ asked' = asked
        /\ provider' = provider /\ waiter' = waiter
        /\ \A d \in Conns \ {c} : pc'[d] = pc[d] /\ msg'[d] = msg[d]
        /\ pc'[c] # "written"
    BY <1>9, PublishBooks DEF AnswerFromCache, peerVars, lifeVars, threadVars, TypeOK,
                HandlerType
  <2> QED
    BY <2>1
<1>10. ASSUME NEW c \in Conns, WriteProvider(c) PROVE AskedInv'
  <2>1. /\ pendingRequests' = pendingRequests /\ asked' \subseteq asked
        /\ provider' = provider /\ waiter' = waiter /\ msg' = msg
        /\ \A d \in Conns \ {c} : pc'[d] = pc[d]
        /\ (provider = "alive" /\ msg[c].kind = "reply") => msg[c].id \notin asked'
    BY <1>10 DEF WriteProvider, bookVars, lifeVars, threadVars, TypeOK, HandlerType
  <2> QED
    BY <2>1
<1>11. ASSUME NEW c \in Conns, ObserveMessage(c) PROVE AskedInv'
  <2>1. /\ pendingRequests' = IF msg[c].kind = "reply" THEN pendingRequests \ {msg[c].id}
                              ELSE pendingRequests
        /\ asked' = asked /\ provider' = provider /\ waiter' = waiter
        /\ \A d \in Conns \ {c} : pc'[d] = pc[d] /\ msg'[d] = msg[d]
        /\ pc[c] = "written" /\ pc'[c] # "written"
    BY <1>11 DEF ObserveMessage, peerVars, lifeVars, threadVars, TypeOK, HandlerType
  <2> QED
    BY <2>1
<1>12. CASE UNCHANGED vars
  BY <1>12 DEF vars, bookVars, peerVars, lifeVars, threadVars, handlerVars
<1>13. ASSUME NEW c \in Conns, ConnectionStep(c) PROVE AskedInv'
  BY <1>7, <1>13 DEF ConnectionStep
<1>14. ASSUME NEW c \in Conns, ClientStep(c) PROVE AskedInv'
  BY <1>7, <1>8, <1>9, <1>10, <1>11, <1>14 DEF ClientStep
<1> QED
  BY <1>3, <1>4, <1>5, <1>6, <1>12, <1>13, <1>14 DEF Next, ReaderStep, WaiterStep

(* While the provider lives, every request whose answer it has not got is  *)
(* pending, whichever clients come, go, reply or lose the lease.           *)
THEOREM AskedIsPending == Spec => []AskedStaysPending
<1>1. Init => AskedInv
  BY DEF Init, AskedInv, AskedStaysPending, ReapedIsDead, WrittenIsHeard
<1>2. AskedInv => AskedStaysPending
  BY DEF AskedInv
<1> QED
  BY <1>1, <1>2, AskedStep, TypeCorrect, PTL DEF Spec

(* Appending a request pins it under the next number; nothing else is      *)
(* pinned or unpinned by an append, and trimming takes no pinned event.    *)
LEMMA AppendPins ==
  ASSUME WindowType, PendingIsPinned, NEW e, e.pinned <=> e.kind = "request", Publish(e)
  PROVE  PendingIsPinned'
<1> DEFINE n == nextSequence + 1
           appended == [s \in DOMAIN replay \cup {n} |-> IF s = n THEN e ELSE replay[s]]
           trimmed == Trim(appended, replayBytes + e.bytes)
<1>1. replay' = trimmed
  BY DEF Publish, AppendReplay
<1>2. n \notin DOMAIN replay /\ DOMAIN appended \subseteq Int
  BY DEF WindowType
<1>3. Pinned(trimmed) = Pinned(appended)
  BY <1>2, TrimPinned
<1>4. \A s \in Pinned(trimmed) : trimmed[s] = appended[s]
  BY TrimKeeps DEF Pinned
<1>5. \A s \in DOMAIN replay : appended[s] = replay[s]
  BY <1>2
<1>6. appended[n] = e
  OBVIOUS
<1>7. CASE e.kind = "request"
  <2>1. Pinned(appended) = Pinned(replay) \cup {n}
    <3>1. ASSUME NEW s PROVE s \in Pinned(appended) <=> s \in Pinned(replay) \cup {n}
      BY <1>2, <1>5, <1>6, <1>7, Zenon DEF Pinned
    <3> QED
      BY <3>1
  <2>2. pendingRequests' = pendingRequests \cup {e.id}
    BY <1>7, PublishBooks
  <2>3. /\ \A s \in Pinned(replay) : trimmed[s].id = replay[s].id
        /\ trimmed[n].id = e.id
    BY <1>3, <1>4, <1>5, <1>6, <2>1 DEF Pinned
  <2> HIDE DEF trimmed, appended
  <2> QED
    BY <1>1, <1>3, <2>1, <2>2, <2>3 DEF PendingIsPinned
<1>8. CASE e.kind # "request"
  <2>1. Pinned(appended) = Pinned(replay)
    <3>1. ASSUME NEW s PROVE s \in Pinned(appended) <=> s \in Pinned(replay)
      BY <1>2, <1>5, <1>6, <1>8, Zenon DEF Pinned
    <3> QED
      BY <3>1
  <2>2. pendingRequests' = pendingRequests
    BY <1>8, PublishBooks
  <2>3. \A s \in Pinned(replay) : trimmed[s].id = replay[s].id
    BY <1>3, <1>4, <1>5, <2>1 DEF Pinned
  <2> HIDE DEF trimmed, appended
  <2> QED
    BY <1>1, <1>3, <2>1, <2>2, <2>3 DEF PendingIsPinned
<1> QED
  BY <1>7, <1>8

(* Unpinning removes the events of S from the pinned ones, no others.      *)
LEMMA UnpinPins ==
  ASSUME WindowType, NEW S, NEW total, replay' = Trim(Unpin(replay, S), total)
  PROVE  /\ Pinned(replay') = Pinned(replay) \ S
         /\ \A s \in Pinned(replay') : replay'[s].id = replay[s].id
<1> DEFINE free == Unpin(replay, S)
<1>1. DOMAIN free = DOMAIN replay /\ DOMAIN free \subseteq Int
  BY DEF Unpin, WindowType
<1>2. \A s \in DOMAIN replay \ S : free[s] = replay[s]
  BY DEF Unpin
<1>3. \A s \in DOMAIN replay \cap S : free[s] = [replay[s] EXCEPT !.pinned = FALSE]
  BY DEF Unpin
<1>4. \A s \in DOMAIN replay \cap S : ~free[s].pinned
  BY <1>3 DEF WindowType, Events
<1>5. ASSUME NEW s PROVE s \in Pinned(free) <=> s \in Pinned(replay) \ S
  BY <1>1, <1>2, <1>4, Zenon DEF Pinned
<1>6. Pinned(replay') = Pinned(free)
  BY <1>1, TrimPinned
<1>7. \A s \in Pinned(replay') : replay'[s] = free[s]
  BY TrimKeeps DEF Pinned
<1> QED
  BY <1>2, <1>5, <1>6, <1>7 DEF Pinned

LEMMA PinnedStep == TypeOK /\ PendingIsPinned /\ [OpenNext]_vars => PendingIsPinned'
<1> SUFFICES ASSUME TypeOK, PendingIsPinned, [OpenNext]_vars PROVE PendingIsPinned'
  OBVIOUS
<1>1. CASE UNCHANGED windowVars /\ pendingRequests' = pendingRequests
  BY <1>1 DEF windowVars, PendingIsPinned, Pinned
<1>2. CASE ProviderOutput
  <2>1. ASSUME NEW e \in ProviderOutputs PROVE e.pinned <=> e.kind = "request"
    <3>1. PICK k, i, b : e = Event(k, i, b)
      BY DEF ProviderOutputs
    <3>2. Event(k, i, b).pinned <=> Event(k, i, b).kind = "request"
      BY DEF Event
    <3> QED
      BY <3>1, <3>2
  <2>2. \/ \E e \in ProviderOutputs : Publish(e)
        \/ UNCHANGED <<windowVars, bookVars>>
    BY <1>2 DEF ProviderOutput
  <2> QED
    BY <1>1, <2>1, <2>2, AppendPins DEF TypeOK, bookVars
<1>3. ASSUME NEW k, NEW i, k # "request", Publish(Event(k, i, 1)) PROVE PendingIsPinned'
  <2>1. Event(k, i, 1).pinned <=> Event(k, i, 1).kind = "request"
    BY <1>3 DEF Event
  <2> QED
    BY <1>3, <2>1, AppendPins DEF TypeOK
<1>4. CASE FailPublish \/ PublishExit
  BY <1>3, <1>4 DEF FailPublish, PublishExit, StateEvent
<1>5. ASSUME NEW c \in Conns, AnswerFromCache(c) PROVE PendingIsPinned'
  BY <1>3, <1>5 DEF AnswerFromCache
<1>6. CASE ProviderExited
  <2>1. Pinned(replay') = Pinned(replay) \ DOMAIN replay
    BY <1>6, UnpinPins DEF ProviderExited, ReleaseAllPendingReplay, TypeOK
  <2> QED
    BY <1>6, <2>1 DEF ProviderExited, PendingIsPinned, Pinned
<1>7. ASSUME NEW c \in Conns, ObserveMessage(c) PROVE PendingIsPinned'
  <2>1. CASE msg[c].kind = "reply"
    <3> DEFINE freed == {s \in Pinned(replay) : replay[s].id = msg[c].id}
    <3>1. replay' = Trim(Unpin(replay, freed), replayBytes)
      BY <1>7, <2>1 DEF ObserveMessage, ReleasePendingReplay
    <3>2. pendingRequests' = pendingRequests \ {msg[c].id}
      BY <1>7, <2>1 DEF ObserveMessage
    <3>3. /\ Pinned(replay') = Pinned(replay) \ freed
          /\ \A s \in Pinned(replay') : replay'[s].id = replay[s].id
      BY <3>1, UnpinPins DEF TypeOK
    <3> QED
      BY <3>2, <3>3 DEF PendingIsPinned
  <2>2. CASE msg[c].kind # "reply"
    BY <1>1, <1>7, <2>2 DEF ObserveMessage, windowVars
  <2> QED
    BY <2>1, <2>2
<1>8. CASE \/ ProviderGarbage \/ ProviderEOF \/ FailState \/ FailClose \/ FailStop
           \/ ReapProvider \/ DrainTimeout \/ StopperStep \/ ProviderDies \/ Age
  BY <1>1, <1>8 DEF ProviderGarbage, ProviderEOF, FailState, FailClose, FailStop,
     ReapProvider, DrainTimeout, StopperStep, StopSignal, BeginStop, StopClose, StopKill,
     ProviderDies, Age, bookVars
<1>9. ASSUME NEW c \in Conns, ConnectionStep(c) PROVE PendingIsPinned'
  BY <1>1, <1>9 DEF ConnectionStep, Accept, Hangup, StopCommand, GcCommand, GcStop,
     BeginStop, Attach, bookVars
<1>10. ASSUME NEW c \in Conns, ClientStep(c) PROVE PendingIsPinned'
  BY <1>1, <1>5, <1>7, <1>10 DEF ClientStep, DetachClient, CloseConnection, OtherFrame,
     Answer, Ack, ReceiveInput, PassCache, TrackRequest, WriteProvider, WriteFails,
     UntrackRequest, WriteFrame, bookVars
<1>11. ASSUME NEW c \in Conns, OpenStep(c) PROVE PendingIsPinned'
  BY <1>1, <1>11 DEF OpenStep, Attach, ReceiveInput, bookVars
<1>12. CASE UNCHANGED vars
  BY <1>1, <1>12 DEF vars, bookVars
<1> QED
  BY <1>2, <1>4, <1>6, <1>8, <1>9, <1>10, <1>11, <1>12 DEF OpenNext, Next, ReaderStep, WaiterStep

(* What counts as pending is what the window retains pinned, however the   *)
(* window was trimmed, released or cleared.                                *)
THEOREM PendingIsRetained == Spec => []PendingIsPinned
<1>1. Init => PendingIsPinned
  BY DEF Init, PendingIsPinned, Pinned
<1>2. [Next]_vars => [OpenNext]_vars
  BY DEF OpenNext
<1> QED
  BY <1>1, <1>2, PinnedStep, TypeCorrect, PTL DEF Spec

(***************************************************************************)
(* Client requests: in flight while the provider owes an answer            *)
(***************************************************************************)
(* The ids of requests the handlers have in their hands are all different. *)
RequestsDiffer ==
  \A c, d \in Conns : (c # d /\ msg[c].kind = "request") => msg[d].id # msg[c].id

(* A request not yet written is not owed, and once tracked it is in flight. *)
RequestsTracked ==
  \A c \in Conns :
    msg[c].kind = "request" =>
      /\ pc[c] \in Working \ {"written"} => msg[c].id \notin owed
      /\ (pc[c] = "tracked" /\ provider = "alive") => msg[c].id \in inFlightTurns

OwedInv == OwedIsInFlight /\ ReapedIsDead /\ RequestsDiffer /\ RequestsTracked

LEMMA OwedStep == TypeOK /\ OwedInv /\ [Next]_vars => OwedInv'
<1> SUFFICES ASSUME TypeOK, OwedInv, [Next]_vars PROVE OwedInv'
  OBVIOUS
<1> USE DEF OwedInv, OwedIsInFlight, ReapedIsDead, RequestsDiffer, RequestsTracked
(* Steps that settle nothing the provider still owes, and hand out nothing. *)
<1>1. ASSUME owed' \subseteq owed,
             provider' = provider \/ provider' = "dead",
             waiter' = waiter \/ provider' = "dead", msg' = msg,
             \A c \in Conns : pc'[c] \in Working \ {"written"} => pc'[c] = pc[c],
             provider' = "alive" =>
               \A i \in inFlightTurns \ inFlightTurns' :
                 /\ i \notin owed'
                 /\ \A c \in Conns : pc[c] = "tracked" => msg[c].id # i
      PROVE  OwedInv'
  BY <1>1 DEF TypeOK, LifeType, Working
<1>2. CASE ProviderOutput
  <2>1. UNCHANGED handlerVars /\ provider' = provider /\ waiter' = waiter
    BY <1>2 DEF ProviderOutput, lifeVars
  <2> PICK e \in ProviderOutputs :
        IF PendingLimitReached(e)
        THEN UNCHANGED <<bookVars, peerVars>>
        ELSE Publish(e) /\ owed' = owed \ {e.id}
    BY <1>2 DEF ProviderOutput
  <2>2. CASE PendingLimitReached(e)
    BY <1>1, <2>1, <2>2 DEF bookVars, peerVars, handlerVars
  <2>3. CASE ~PendingLimitReached(e)
    <3>1. inFlightTurns' = IF e.kind \in {"result", "failure"}
                           THEN inFlightTurns \ {e.id} ELSE inFlightTurns
      BY <2>3, PublishBooks
    <3>2. e.kind \in {"result", "failure"} => e.id \in owed /\ e.id \in ClientRequests
      BY OutputKind DEF TypeOK, PeerType
    <3>3. \A c \in Conns : pc[c] = "tracked" /\ msg[c].id \in ClientRequests
                             => msg[c].id \notin owed
      BY BridgeAssumption DEF TypeOK, HandlerType, ClientMessages, NoMsg, Working
    <3>4. owed' = owed \ {e.id}
      BY <2>3
    <3>5. \A i \in inFlightTurns \ inFlightTurns' :
            /\ i \notin owed'
            /\ \A c \in Conns : pc[c] = "tracked" => msg[c].id # i
      BY <3>1, <3>2, <3>3, <3>4
    <3> QED
      BY <1>1, <2>1, <3>4, <3>5 DEF handlerVars
  <2> QED
    BY <2>2, <2>3
<1>3. CASE FailPublish \/ PublishExit
  <2>1. /\ owed' = owed /\ provider' = provider /\ UNCHANGED handlerVars
        /\ waiter' = waiter \/ provider' = "dead"
    BY <1>3 DEF FailPublish, PublishExit, lifeVars, peerVars
  <2>2. inFlightTurns' = inFlightTurns
    BY <1>3, PublishBooks, StateIsEvent DEF FailPublish, PublishExit
  <2> QED
    BY <1>1, <2>1, <2>2 DEF handlerVars
<1>4. CASE \/ ProviderGarbage \/ ProviderEOF \/ FailState \/ FailClose \/ FailStop
           \/ ReapProvider \/ DrainTimeout \/ StopperStep \/ ProviderDies \/ Age
  <2>1. /\ inFlightTurns' = inFlightTurns /\ owed' = owed /\ UNCHANGED handlerVars
        /\ provider' = provider \/ provider' = "dead"
        /\ waiter' = waiter \/ provider' = "dead"
    BY <1>4 DEF ProviderGarbage, ProviderEOF, FailState, FailClose, FailStop,
                ReapProvider, DrainTimeout, StopperStep, StopSignal, BeginStop, StopClose,
                StopKill, ProviderDies, Age, StopProviderProcess, bookVars, peerVars,
                lifeVars, threadVars
  <2> QED
    BY <1>1, <2>1 DEF handlerVars
<1>5. CASE ProviderExited
  <2>1. /\ owed' = owed /\ provider' = provider /\ provider = "dead" /\ msg' = msg
        /\ pc' = pc
    BY <1>5 DEF ProviderExited, peerVars, handlerVars
  <2> QED
    BY <1>1, <2>1
<1>6. ASSUME NEW c \in Conns,
             \/ Accept(c) \/ Hangup(c) \/ StopCommand(c) \/ GcCommand(c) \/ GcStop(c)
             \/ DetachClient(c) \/ CloseConnection(c) \/ OtherFrame(c)
             \/ WriteFrame(c) \/ \E n \in 0 .. nextSequence : Ack(c, n)
             \/ \E lastAck, requested : Attach(c, lastAck, requested)
      PROVE  OwedInv'
  <2>1. /\ inFlightTurns' = inFlightTurns /\ owed' = owed /\ msg' = msg
        /\ provider' = provider /\ waiter' = waiter
    BY <1>6 DEF Accept, Hangup, StopCommand, GcCommand, GcStop, BeginStop, DetachClient,
                CloseConnection, OtherFrame, WriteFrame, Ack, Attach, bookVars, peerVars,
                lifeVars, threadVars, handlerVars
  <2>2. \A d \in Conns : pc'[d] \in Working => pc'[d] = pc[d]
    BY <1>6 DEF Accept, Hangup, StopCommand, GcCommand, GcStop, DetachClient,
                CloseConnection, OtherFrame, WriteFrame, Ack, Attach, Register,
                handlerVars, TypeOK, HandlerType, Working
  <2> QED
    BY <1>1, <2>1, <2>2
<1>7. ASSUME NEW c \in Conns, NEW m \in FreshInputs, ReceiveInput(c, m) PROVE OwedInv'
  <2>1. /\ inFlightTurns' = inFlightTurns /\ owed' = owed
        /\ provider' = provider /\ waiter' = waiter
    BY <1>7 DEF ReceiveInput, bookVars, peerVars, lifeVars, threadVars
  <2>2. CASE writerClientID \notin {NoClient, c}
    <3>1. msg' = msg /\ \A d \in Conns : pc'[d] \in Working => pc'[d] = pc[d]
      BY <1>7, <2>2 DEF ReceiveInput, TypeOK, HandlerType, Working
    <3> QED
      BY <1>1, <2>1, <3>1
  <2>3. CASE writerClientID \in {NoClient, c}
    <3>1. /\ m.kind = "request" => /\ m.id \notin owed
                                   /\ \A d \in Conns : msg[d].id # m.id
          /\ m \in ClientMessages
      BY DEF FreshInputs
    <3>2. \A d \in Conns \ {c} : msg[d].kind = "request" => m.id # msg[d].id
      BY <3>1, BridgeAssumption DEF TypeOK, HandlerType, ClientMessages, NoMsg
    <3>3. /\ \A d \in Conns \ {c} : pc'[d] = pc[d] /\ msg'[d] = msg[d]
          /\ pc'[c] # "tracked" /\ msg'[c] = m
      BY <1>7, <2>3 DEF ReceiveInput, TypeOK, HandlerType
    <3> QED
      BY <2>1, <3>1, <3>2, <3>3
  <2> QED
    BY <2>2, <2>3
<1>8. ASSUME NEW c \in Conns, Answer(c) \/ ObserveMessage(c) PROVE OwedInv'
  <2>1. /\ inFlightTurns' = inFlightTurns /\ owed' = owed
        /\ provider' = provider /\ waiter' = waiter
        /\ \A d \in Conns \ {c} : pc'[d] = pc[d] /\ msg'[d] = msg[d]
        /\ msg'[c] = NoMsg
    BY <1>8 DEF Answer, ObserveMessage, bookVars, peerVars, lifeVars, threadVars, TypeOK,
                HandlerType
  <2>2. \A d \in Conns : msg[d].kind = "request" => msg[d].id # Note
    BY BridgeAssumption DEF TypeOK, HandlerType, ClientMessages, NoMsg
  <2> QED
    BY <2>1, <2>2 DEF NoMsg
<1>9. ASSUME NEW c \in Conns, AnswerFromCache(c) PROVE OwedInv'
  <2>1. /\ owed' = owed /\ provider' = provider /\ waiter' = waiter
        /\ \A d \in Conns \ {c} : pc'[d] = pc[d] /\ msg'[d] = msg[d]
        /\ msg'[c] = NoMsg /\ pc[c] = "leased" /\ msg[c].kind = "request"
    BY <1>9 DEF AnswerFromCache, IsCachedInitialize, peerVars, lifeVars, threadVars,
                TypeOK, HandlerType
  <2>2. inFlightTurns' = inFlightTurns \ {msg[c].id}
    <3>1. /\ Event("result", msg[c].id, 1).kind = "result"
          /\ Event("result", msg[c].id, 1).id = msg[c].id
      BY DEF Event
    <3> QED
      BY <1>9, <3>1, PublishBooks DEF AnswerFromCache
  <2>3. \A d \in Conns : msg[d].kind = "request" => msg[d].id # Note
    BY BridgeAssumption DEF TypeOK, HandlerType, ClientMessages, NoMsg
  <2> QED
    BY <2>1, <2>2, <2>3 DEF NoMsg, Working
<1>10. ASSUME NEW c \in Conns, PassCache(c) \/ TrackRequest(c) \/ WriteFails(c)
       PROVE  OwedInv'
  <2>1. /\ owed' = owed /\ msg' = msg /\ provider' = provider /\ waiter' = waiter
        /\ \A d \in Conns \ {c} : pc'[d] = pc[d]
        /\ pc[c] \in Working \ {"written"}
        /\ inFlightTurns \subseteq inFlightTurns'
        /\ pc'[c] = "tracked" /\ msg[c].kind = "request" => msg[c].id \in inFlightTurns'
    BY <1>10 DEF PassCache, TrackRequest, WriteFails, bookVars, peerVars, lifeVars,
                 threadVars, TypeOK, HandlerType, Working
  <2> QED
    BY <2>1
<1>11. ASSUME NEW c \in Conns, UntrackRequest(c) PROVE OwedInv'
  <2>1. /\ owed' = owed /\ msg' = msg /\ provider' = provider /\ waiter' = waiter
        /\ pc' = [pc EXCEPT ![c] = "answering"] /\ pc[c] = "unwritten"
        /\ inFlightTurns' = IF msg[c].kind = "request" THEN inFlightTurns \ {msg[c].id}
                            ELSE inFlightTurns
    BY <1>11 DEF UntrackRequest, peerVars, lifeVars, threadVars
  <2> QED
    BY <2>1 DEF Working, TypeOK, HandlerType
<1>12. ASSUME NEW c \in Conns, WriteProvider(c) PROVE OwedInv'
  <2>1. /\ inFlightTurns' = inFlightTurns /\ msg' = msg /\ provider' = provider
        /\ waiter' = waiter /\ pc[c] = "tracked"
        /\ \A d \in Conns \ {c} : pc'[d] = pc[d]
        /\ pc'[c] = "written"
        /\ owed' = IF provider = "alive" /\ msg[c].kind = "request"
                   THEN owed \cup {msg[c].id} ELSE owed
    BY <1>12 DEF WriteProvider, bookVars, lifeVars, threadVars, TypeOK, HandlerType
  <2> QED
    BY <2>1 DEF Working
<1>13. CASE UNCHANGED vars
  BY <1>13 DEF vars, bookVars, peerVars, lifeVars, threadVars, handlerVars
<1>14. ASSUME NEW c \in Conns, ConnectionStep(c) PROVE OwedInv'
  BY <1>6, <1>14 DEF ConnectionStep
<1>15. ASSUME NEW c \in Conns, ClientStep(c) PROVE OwedInv'
  BY <1>6, <1>7, <1>8, <1>9, <1>10, <1>11, <1>12, <1>15 DEF ClientStep
<1> QED
  BY <1>2, <1>3, <1>4, <1>5, <1>13, <1>14, <1>15 DEF Next, ReaderStep, WaiterStep

(* A live provider never works on a request that idle cleanup cannot see.  *)
THEOREM OwedCounts == Spec => []OwedIsInFlight
<1>1. Init => OwedInv
  BY DEF Init, OwedInv, OwedIsInFlight, ReapedIsDead, RequestsDiffer, RequestsTracked,
         NoMsg
<1>2. OwedInv => OwedIsInFlight
  BY DEF OwedInv
<1> QED
  BY <1>1, <1>2, OwedStep, TypeCorrect, PTL DEF Spec

(***************************************************************************)
(* After the exit                                                          *)
(***************************************************************************)
(* The exit is recorded after the last line of output was published.       *)
ExitedIsRead == waiter \in {"exiting", "done"} => reader = "eof"

ExitInv == ExitedIsCollectable /\ ExitedIsRead

LEMMA ExitStep == TypeOK /\ ExitInv /\ [Next]_vars => ExitInv'
<1> SUFFICES ASSUME TypeOK, ExitInv, [Next]_vars PROVE ExitInv'
  OBVIOUS
<1> USE DEF ExitInv, ExitedIsCollectable, ExitedIsRead
<1> DEFINE Unsettled == {d \in Conns : pc[d] \in {"tracked", "unwritten"}}
(* Steps that neither add to the books nor take a request out of hand.     *)
<1>1. ASSUME pendingRequests' \subseteq pendingRequests,
             inFlightTurns' \subseteq inFlightTurns,
             reader = "eof" => reader' = "eof",
             waiter' \in {"exiting", "done"} => waiter \in {"exiting", "done"},
             \A d \in Unsettled : pc'[d] \in {"tracked", "unwritten"} /\ msg'[d] = msg[d]
      PROVE  ExitInv'
  BY <1>1
<1>2. CASE ProviderOutput
  BY <1>2 DEF ProviderOutput
<1>3. CASE FailPublish \/ PublishExit
  <2>1. pendingRequests' = pendingRequests /\ inFlightTurns' = inFlightTurns
    BY <1>3, PublishBooks, StateIsEvent DEF FailPublish, PublishExit
  <2>2. /\ reader = "eof" => reader' = "eof"
        /\ waiter' \in {"exiting", "done"} => waiter \in {"exiting", "done"}
        /\ UNCHANGED handlerVars
    BY <1>3 DEF FailPublish, PublishExit
  <2> QED
    BY <1>1, <2>1, <2>2 DEF handlerVars
<1>4. CASE \/ ProviderGarbage \/ ProviderEOF \/ FailState \/ FailClose \/ FailStop
           \/ ReapProvider \/ DrainTimeout \/ StopperStep \/ ProviderDies \/ Age
  <2>1. /\ UNCHANGED <<pendingRequests, inFlightTurns, pc, msg>>
        /\ reader = "eof" => reader' = "eof"
        /\ waiter' \in {"exiting", "done"} => waiter \in {"exiting", "done"}
    BY <1>4 DEF ProviderGarbage, ProviderEOF, FailState, FailClose, FailStop,
                ReapProvider, DrainTimeout, StopperStep, StopSignal, BeginStop, StopClose,
                StopKill, ProviderDies, Age, bookVars, threadVars, handlerVars
  <2> QED
    BY <1>1, <2>1
<1>5. CASE ProviderExited
  BY <1>5 DEF ProviderExited, ReaderDone
<1>6. ASSUME NEW c \in Conns,
             \/ Accept(c) \/ Hangup(c) \/ StopCommand(c) \/ GcCommand(c) \/ GcStop(c)
             \/ DetachClient(c) \/ CloseConnection(c) \/ OtherFrame(c) \/ PassCache(c)
             \/ WriteFails(c) \/ ObserveMessage(c) \/ WriteFrame(c) \/ Answer(c)
             \/ \E n \in 0 .. nextSequence : Ack(c, n)
             \/ \E m \in FreshInputs : ReceiveInput(c, m)
             \/ \E lastAck, requested : Attach(c, lastAck, requested)
      PROVE  ExitInv'
  <2>1. /\ pendingRequests' \subseteq pendingRequests
        /\ inFlightTurns' = inFlightTurns /\ reader' = reader /\ waiter' = waiter
    BY <1>6 DEF Accept, Hangup, StopCommand, GcCommand, GcStop, BeginStop, DetachClient,
                CloseConnection, OtherFrame, PassCache, WriteFails, ObserveMessage,
                WriteFrame, Answer, Ack, ReceiveInput, Attach, bookVars, threadVars
  <2>2. \A d \in Unsettled : pc'[d] \in {"tracked", "unwritten"} /\ msg'[d] = msg[d]
    BY <1>6 DEF Accept, Hangup, StopCommand, GcCommand, GcStop, DetachClient,
                CloseConnection, OtherFrame, PassCache, WriteFails, ObserveMessage,
                WriteFrame, Answer, Ack, ReceiveInput, Attach, Register, handlerVars,
                TypeOK, HandlerType
  <2> QED
    BY <1>1, <2>1, <2>2
<1>7. ASSUME NEW c \in Conns, AnswerFromCache(c) PROVE ExitInv'
  <2>1. /\ Event("result", msg[c].id, 1).kind = "result"
        /\ Event("result", msg[c].id, 1).id = msg[c].id
    BY DEF Event
  <2>2. pendingRequests' = pendingRequests /\ inFlightTurns' \subseteq inFlightTurns
    BY <1>7, <2>1, PublishBooks DEF AnswerFromCache
  <2>3. /\ reader' = reader /\ waiter' = waiter
        /\ \A d \in Unsettled : pc'[d] = pc[d] /\ msg'[d] = msg[d]
    BY <1>7 DEF AnswerFromCache, threadVars, TypeOK, HandlerType
  <2> QED
    BY <1>1, <2>2, <2>3
<1>8. ASSUME NEW c \in Conns, TrackRequest(c) PROVE ExitInv'
  <2>1. /\ pendingRequests' = pendingRequests /\ reader' = reader /\ waiter' = waiter
        /\ msg' = msg /\ pc' = [pc EXCEPT ![c] = "tracked"]
        /\ inFlightTurns' \subseteq inFlightTurns \cup {msg[c].id}
    BY <1>8 DEF TrackRequest, threadVars
  <2> QED
    BY <2>1 DEF TypeOK, HandlerType
<1>9. ASSUME NEW c \in Conns, WriteProvider(c) PROVE ExitInv'
  BY <1>9 DEF WriteProvider, threadVars
<1>10. ASSUME NEW c \in Conns, UntrackRequest(c) PROVE ExitInv'
  <2>1. /\ pendingRequests' = pendingRequests /\ reader' = reader /\ waiter' = waiter
        /\ msg' = msg /\ pc' = [pc EXCEPT ![c] = "answering"] /\ pc[c] = "unwritten"
        /\ inFlightTurns' = IF msg[c].kind = "request" THEN inFlightTurns \ {msg[c].id}
                            ELSE inFlightTurns
    BY <1>10 DEF UntrackRequest, threadVars
  <2>2. msg[c].kind # "request" => msg[c].id \notin ClientRequests
    BY BridgeAssumption DEF TypeOK, HandlerType, ClientMessages, NoMsg
  <2>3. inFlightTurns \subseteq ClientRequests
    BY DEF TypeOK, BookType
  <2> QED
    BY <2>1, <2>2, <2>3 DEF TypeOK, HandlerType
<1>11. CASE UNCHANGED vars
  BY <1>1, <1>11 DEF vars, bookVars, threadVars, handlerVars
<1>12. ASSUME NEW c \in Conns, ConnectionStep(c) PROVE ExitInv'
  BY <1>6, <1>12 DEF ConnectionStep
<1>13. ASSUME NEW c \in Conns, ClientStep(c) PROVE ExitInv'
  BY <1>6, <1>7, <1>8, <1>9, <1>10, <1>13 DEF ClientStep
<1> QED
  BY <1>2, <1>3, <1>4, <1>5, <1>11, <1>12, <1>13 DEF Next, ReaderStep, WaiterStep

(* Once the provider exited nothing stays pending or in flight for good.   *)
THEOREM ExitCollects == Spec => []ExitedIsCollectable
<1>1. Init => ExitInv
  BY DEF Init, ExitInv, ExitedIsCollectable, ExitedIsRead
<1>2. ExitInv => ExitedIsCollectable
  BY DEF ExitInv
<1> QED
  BY <1>1, <1>2, ExitStep, TypeCorrect, PTL DEF Spec
=============================================================================
