------------------------- MODULE SynthChannelProofs -------------------------
(***************************************************************************)
(* Proofs about the synthesizer channel, for any number of requests, any   *)
(* set of methods and every choice of the Boolean constants.               *)
(***************************************************************************)
EXTENDS SynthChannel, QueueLemmas

(***************************************************************************)
(* What synth_pending_requests_remove leaves is a queue of SPEAKs; of an   *)
(* empty queue, and for a request that selects all, it is empty.           *)
(***************************************************************************)
LEMMA RemainderIsQueue ==
    ASSUME speak_queue \in Seq(Request), NEW request,
           NEW left \in Remainders(request)
    PROVE  /\ left \in Seq(Request)
           /\ speak_queue = <<>> => left = <<>>
           /\ request.only = {} => left = <<>>
<1>1. PICK kept \in SUBSET DOMAIN speak_queue : kept = Kept(request)
  BY DEF Kept
<1>2. PICK order \in Increasing(kept) : left = Rest(speak_queue, order)
  BY <1>1 DEF Remainders, Rest
<1>3. left \in Seq(Request) /\ (kept = {} => left = <<>>)
  BY <1>1, <1>2, RestIsQueue
<1>4. speak_queue = <<>> => kept = {}
  BY <1>1
<1>5. request.only = {} => kept = {}
  BY <1>1 DEF Kept, Selected
<1> QED
  BY <1>3, <1>4, <1>5

-----------------------------------------------------------------------------
(* Types.                                                                  *)

LEMMA MessageTypes ==
    /\ TerminateRequest \in Request
    /\ \A request \in Request :
          /\ InternalStop(request) \in Request
          /\ \A state \in RequestStates : Response(request, state) \in EngineMessage
          /\ \A name \in EventNames : Event(name, request) \in EngineMessage
<1>1. TerminateRequest \in Request
  BY DEF TerminateRequest, Request, MethodNames, SynthMethods
<1>2. ASSUME NEW request \in Request PROVE InternalStop(request) \in Request
  BY DEF InternalStop, Request, MethodNames, SynthMethods
<1>3. ASSUME NEW request \in Request, NEW state \in RequestStates
      PROVE  Response(request, state) \in EngineMessage
  BY DEF Response, EngineMessage, Request
<1>4. ASSUME NEW request \in Request, NEW name \in EventNames
      PROVE  Event(name, request) \in EngineMessage
  BY DEF Event, EngineMessage, Request, RequestStates
<1> QED
  BY <1>1, <1>2, <1>3, <1>4

(***************************************************************************)
(* The engine's module and this one have the same messages.                *)
(***************************************************************************)
LEMMA SameMessages ==
    /\ Engine!Request = Request
    /\ \A request, state : Engine!Response(request, state) = Response(request, state)
    /\ \A name, request : Engine!Event(name, request) = Event(name, request)
  BY DEF Engine!Request, Request, Engine!Ids, Ids, Engine!MethodNames, MethodNames, Engine!SynthMethods, SynthMethods, Engine!RecogMethods, RecogMethods,
         Engine!Response, Response, Engine!Event, Event

SpeechTypeOK == speech \in [Ids -> {"none", "asked"} \cup RequestStates]

LEMMA ArriveTypes ==
    ASSUME SessionTypeOK, NEW request \in Request, Arrive(request),
           next_id' \in 1 .. MaxRequests + 1, terminated' \in BOOLEAN
    PROVE  SessionTypeOK'
<1>1. /\ in_progress \in Request \cup {NULL}
      /\ request_queue \in Seq(Request)
      /\ dispatching \in BOOLEAN
  BY Zenon DEF SessionTypeOK
<1>2. \/ /\ request_queue' = Append(request_queue, request)
         /\ UNCHANGED <<in_progress, dispatching>>
      \/ /\ in_progress' = request
         /\ dispatching' = TRUE
         /\ UNCHANGED request_queue
  BY Zenon DEF Arrive, Enqueue
<1>3. in_progress' \in Request \cup {NULL}
  BY Zenon, <1>1, <1>2
<1>4. request_queue' \in Seq(Request)
  BY <1>1, <1>2
<1>5. dispatching' \in BOOLEAN
  BY Zenon, <1>1, <1>2
<1>6. UNCHANGED <<session_state, deactivations, answers>>
  BY Zenon DEF Arrive, Enqueue
<1> QED
  BY Zenon, <1>3, <1>4, <1>5, <1>6 DEF SessionTypeOK

LEMMA RespondTypes ==
    ASSUME SessionTypeOK, SpeechTypeOK, NEW response \in EngineMessage,
           NEW stopped, Respond(response, stopped),
           UNCHANGED <<next_id, terminated>>
    PROVE  SessionTypeOK' /\ SpeechTypeOK' /\ active_request' = NULL
<1>1. response.state \in RequestStates
  BY DEF EngineMessage
<1>2. CASE sm_active
  <2>1. SendResponse(response) /\ TellClient(response, stopped)
    BY <1>2 DEF Respond
  <2>2. SpeechTypeOK'
    BY <1>1, <2>1 DEF TellClient, SpeechTypeOK, RequestStates
  <2>3. answers' \in [Ids -> Nat]
    <3>1. answers \in [Ids -> Nat]
      BY DEF SessionTypeOK
    <3>2. answers' = [answers EXCEPT ![response.id] = answers[response.id] + 1]
      BY <2>1 DEF SendResponse
    <3>3. ASSUME NEW id \in Ids PROVE answers'[id] \in Nat
      BY <3>1, <3>2
    <3> QED
      BY <3>1, <3>2, <3>3
  <2>4. /\ in_progress' \in Request \cup {NULL}
        /\ request_queue' \in Seq(Request)
        /\ dispatching' \in BOOLEAN
    BY <2>1 DEF SendResponse, PopRequest, SessionTypeOK
  <2> QED
    BY <2>1, <2>2, <2>3, <2>4 DEF SendResponse, SessionTypeOK, Respond
<1>3. CASE ~sm_active
  BY <1>3 DEF Respond, ReportDeactivation, SessionTypeOK, SpeechTypeOK
<1> QED
  BY <1>2, <1>3

LEMMA TypeOKInit == Init => TypeOK
<1> SUFFICES ASSUME Init PROVE TypeOK
  OBVIOUS
<1> USE MessageAssumption
    DEF Init, MachineInit, SessionInit, QueueInit, Engine!EngineInit, RequestStates
<1>1. SessionTypeOK
  <2>1. dispatching \in BOOLEAN /\ terminated \in BOOLEAN
    BY Zenon
  <2> QED
    BY <2>1 DEF SessionTypeOK, Ids
<1>2. MachineTypeOK
  <2>1. sm_active \in BOOLEAN /\ is_pending \in BOOLEAN /\ crashed \in BOOLEAN
    BY Zenon
  <2> QED
    BY <1>1, <2>1 DEF MachineTypeOK
<1>3. Engine!EngineTypeOK
  <2>1. paused \in BOOLEAN /\ clearing \in BOOLEAN
    BY Zenon
  <2> QED
    BY <2>1 DEF Engine!EngineTypeOK
<1> QED
  BY <1>2, <1>3 DEF TypeOK

LEMMA ClientTypes == TypeOK /\ ClientStep => TypeOK'
<1> SUFFICES ASSUME TypeOK, ClientStep PROVE TypeOK'
  OBVIOUS
<1> USE DEF TypeOK, MachineTypeOK, Engine!EngineTypeOK
<1>1. CASE ClientTerminate
  <2>1. SessionTypeOK'
    BY <1>1, ArriveTypes, MessageTypes DEF ClientTerminate, ArriveTerminate, SessionTypeOK
  <2> QED
    BY <1>1, <2>1 DEF ClientTerminate, ClientStep, channelVars, machineVars, queueVars
<1>2. ASSUME NEW method \in Methods, NEW only \in Selections, NEW flag \in BOOLEAN,
             ClientRequest(method, only, flag)
      PROVE  TypeOK'
  <2>1. NewRequest(method, only, flag) \in Request
    BY MessageAssumption DEF NewRequest, Request, Selections, SessionTypeOK
  <2>2. SessionTypeOK'
    BY <1>2, <2>1, ArriveTypes, MessageAssumption
       DEF ClientRequest, ArriveRequest, SessionTypeOK
  <2>3. SpeechTypeOK'
    BY <1>2 DEF ClientRequest, SpeechTypeOK
  <2> QED
    BY <1>2, <2>2, <2>3
       DEF ClientRequest, ClientStep, channelVars, machineVars, queueVars, SpeechTypeOK
<1> QED
  BY <1>1, <1>2 DEF ClientStep, ClientNext

LEMMA EngineTypes == TypeOK /\ (PluginStep \/ MediaStep) => TypeOK'
<1> SUFFICES ASSUME TypeOK, PluginStep \/ MediaStep PROVE TypeOK'
  OBVIOUS
<1>1. SessionTypeOK' /\ UNCHANGED serverVars /\ UNCHANGED clientVars
  BY DEF TypeOK, MachineTypeOK, SessionTypeOK, PluginStep, MediaStep,
         serverVars, sessionVars, clientVars
<1> SUFFICES /\ toEngine' \in Seq(Request)
             /\ fromEngine' \in Seq(EngineMessage)
             /\ Engine!EngineTypeOK'
  BY <1>1 DEF TypeOK, MachineTypeOK, serverVars, machineVars, clientVars
<1> USE MessageTypes, SameMessages
    DEF TypeOK, MachineTypeOK, Engine!EngineTypeOK, RequestStates, EventNames,
        Engine!SendToServer, Engine!Takes
<1>1a. CASE Engine!SpeakAccepted
  BY <1>1a DEF Engine!SpeakAccepted
<1>2. CASE Engine!SpeakStored
  BY <1>2 DEF Engine!SpeakStored
<1>3. CASE Engine!SpeakRefused
  BY <1>3 DEF Engine!SpeakRefused
<1>4. CASE Engine!StopStored
  BY <1>4 DEF Engine!StopStored
<1>5. CASE Engine!PauseOrResume
  BY <1>5 DEF Engine!PauseOrResume
<1>6. CASE Engine!OtherAnswered
  BY <1>6 DEF Engine!OtherAnswered
<1>7. CASE Engine!StopAnswered
  <2>1. /\ clearing' = TRUE
        /\ UNCHANGED <<toEngine, speak_request, stop_response, paused, accepted, ending>>
    BY <1>7, Zenon DEF Engine!StopAnswered
  <2>2. stop_response \in Request
    BY <1>7 DEF Engine!StopAnswered
  <2>3. Engine!Response(stop_response, "COMPLETE") \in EngineMessage
    BY <2>2
  <2>4. fromEngine' = Append(fromEngine, Engine!Response(stop_response, "COMPLETE"))
    BY <1>7 DEF Engine!StopAnswered
  <2>5. fromEngine' \in Seq(EngineMessage)
    BY <2>3, <2>4
  <2>6. clearing' \in BOOLEAN
    BY <2>1, Zenon
  <2> QED
    BY <2>1, <2>5, <2>6
<1>8. CASE Engine!StopCleared
  <2>1. /\ clearing' = FALSE /\ paused' = FALSE /\ stop_response' = NULL /\ speak_request' = NULL
        /\ UNCHANGED <<toEngine, fromEngine, accepted, ending>>
    BY <1>8, Zenon DEF Engine!StopCleared
  <2>2. clearing' \in BOOLEAN /\ paused' \in BOOLEAN
    BY <2>1, Zenon
  <2> QED
    BY <2>1, <2>2
<1>9. CASE Engine!SpeechEnds
  BY <1>9 DEF Engine!SpeechEnds
<1>10. CASE Engine!SpeechCleared
  BY <1>10 DEF Engine!SpeechCleared
<1> QED
  BY <1>1a, <1>2, <1>3, <1>4, <1>5, <1>6, <1>7, <1>8, <1>9, <1>10
     DEF PluginStep, MediaStep, Engine!PluginNext, Engine!MediaNext

(***************************************************************************)
(* The session dispatches a request, never the null pointer.               *)
(***************************************************************************)
DispatchesRequest == dispatching => in_progress \in Request

Typed == TypeOK /\ DispatchesRequest

LEMMA PopDispatches ==
    ASSUME request_queue \in Seq(Request), PopRequest
    PROVE  DispatchesRequest'
<1>1. CASE request_queue = <<>>
  <2>1. dispatching' = FALSE
    BY <1>1, Zenon DEF PopRequest
  <2> QED
    BY <2>1, Zenon DEF DispatchesRequest
<1>2. CASE request_queue # <<>>
  <2>1. in_progress' \in Request
    BY <1>2 DEF PopRequest
  <2> QED
    BY <2>1, Zenon DEF DispatchesRequest
<1> QED
  BY <1>1, <1>2

LEMMA RespondDispatches ==
    ASSUME SessionTypeOK, DispatchesRequest, NEW response, NEW stopped,
           Respond(response, stopped)
    PROVE  DispatchesRequest'
<1>1. CASE sm_active
  BY <1>1, PopDispatches, Zenon DEF Respond, SendResponse, SessionTypeOK
<1>2. CASE ~sm_active
  BY <1>2, Zenon DEF Respond, ReportDeactivation, DispatchesRequest
<1> QED
  BY <1>1, <1>2

LEMMA ForwardTypes ==
    ASSUME Typed, dispatching, Forward, UNCHANGED <<next_id, terminated>>
    PROVE  /\ SessionTypeOK' /\ SpeechTypeOK' /\ DispatchesRequest'
           /\ active_request' \in Request
           /\ toEngine' \in Seq(Request)
<1>1. in_progress \in Request
  BY Zenon DEF Typed, DispatchesRequest
<1>2. dispatching' = FALSE
  BY Zenon DEF Forward
<1>3. dispatching' \in BOOLEAN /\ DispatchesRequest'
  BY <1>2, Zenon DEF DispatchesRequest
<1> QED
  BY <1>1, <1>3
     DEF Typed, TypeOK, MachineTypeOK, SessionTypeOK, SpeechTypeOK, Forward, SendToEngine

LEMMA AnswerAtOnceTypes ==
    ASSUME Typed, dispatching, NEW state \in RequestStates, NEW stopped,
           AnswerAtOnce(state, stopped), UNCHANGED <<next_id, terminated>>
    PROVE  /\ SessionTypeOK' /\ SpeechTypeOK' /\ DispatchesRequest'
           /\ active_request' = NULL
           /\ toEngine' \in Seq(Request)
<1>1. in_progress \in Request
  BY Zenon DEF Typed, DispatchesRequest
<1>2. SessionTypeOK /\ SpeechTypeOK /\ DispatchesRequest /\ toEngine \in Seq(Request)
  BY DEF Typed, TypeOK, MachineTypeOK, SpeechTypeOK
<1>3. Response(in_progress, state) \in EngineMessage
  BY <1>1, MessageTypes
<1> QED
  BY <1>2, <1>3, RespondTypes, RespondDispatches DEF AnswerAtOnce

LEMMA RequestTypes ==
    ASSUME Typed, UNCHANGED channelVars,
           \/ RequestSpeak \/ RequestStop \/ RequestPause \/ RequestResume
           \/ RequestBargeIn \/ RequestControl \/ RequestDefineLexicon
           \/ RequestParams
    PROVE  Typed'
<1>1. /\ dispatching
      /\ RequestFrame
      /\ \/ Forward
         \/ \E stopped : \E state \in RequestStates : AnswerAtOnce(state, stopped)
  BY Zenon DEF RequestSpeak, RequestStop, RequestPause, RequestResume, RequestBargeIn,
     RequestControl, RequestDefineLexicon, RequestParams, RequestIf, Dispatches,
     RequestStates
<1>2. speak_queue' \in Seq(Request)
  <2>1. speak_queue \in Seq(Request) /\ in_progress \in Request
    BY <1>1 DEF Typed, TypeOK, MachineTypeOK, DispatchesRequest
  <2>2. \/ speak_queue' = speak_queue
        \/ speak_queue' = Append(speak_queue, in_progress)
        \/ speak_queue' \in Remainders(in_progress)
    BY Zenon DEF RequestSpeak, RequestStop, RequestPause, RequestResume, RequestBargeIn,
       RequestControl, RequestDefineLexicon, RequestParams, RequestIf
  <2> QED
    BY <2>1, <2>2, RemainderIsQueue
<1>3. /\ SessionTypeOK' /\ SpeechTypeOK' /\ DispatchesRequest'
      /\ active_request' \in Request \cup {NULL}
      /\ toEngine' \in Seq(Request)
  BY <1>1, ForwardTypes, AnswerAtOnceTypes, Zenon DEF RequestFrame
<1>4. Engine!EngineTypeOK'
  BY DEF Typed, TypeOK, Engine!EngineTypeOK, channelVars
<1> QED
  BY <1>1, <1>2, <1>3, <1>4
     DEF Typed, TypeOK, MachineTypeOK, RequestFrame, SpeechTypeOK

LEMMA DeactivateTypes ==
    ASSUME Typed, UNCHANGED channelVars, Deactivate \/ StartDeferred
    PROVE  Typed'
<1> USE MessageTypes DEF Typed, TypeOK, MachineTypeOK
<1>1. Engine!EngineTypeOK'
  BY DEF Engine!EngineTypeOK, channelVars
<1>2. CASE Deactivate
  <2>1. /\ SessionTypeOK' /\ DispatchesRequest'
    <3>1. dispatching' \in BOOLEAN /\ DispatchesRequest'
      BY <1>2, Zenon DEF Deactivate, DeactivateSession, DispatchesRequest
    <3> QED
      BY <1>2, <3>1 DEF Deactivate, DeactivateSession, SessionTypeOK
  <2>2. active_request' \in Request \cup {NULL} /\ toEngine' \in Seq(Request)
    <3>1. CASE speaker = NULL
      BY <1>2, <3>1 DEF Deactivate
    <3>2. CASE speaker # NULL
      <4>1. SendToEngine(InternalStop(speaker)) /\ speaker \in Request
        BY <1>2, <3>2 DEF Deactivate
      <4> QED
        BY <4>1 DEF SendToEngine
    <3> QED
      BY <3>1, <3>2
  <2>3. sm_active' \in BOOLEAN
    BY <1>2, Zenon DEF Deactivate
  <2> QED
    BY <1>1, <1>2, <2>1, <2>2, <2>3 DEF Deactivate
<1>3. CASE StartDeferred
  <2>1. SessionTypeOK' /\ DispatchesRequest'
    BY <1>3 DEF StartDeferred, sessionVars, clientVars, SessionTypeOK, DispatchesRequest
  <2>2. is_pending' \in BOOLEAN
    BY <1>3, Zenon DEF StartDeferred
  <2> QED
    BY <1>1, <1>3, <2>1, <2>2 DEF StartDeferred, SendToEngine, clientVars
<1> QED
  BY <1>2, <1>3

LEMMA ReceivesTypes ==
    ASSUME Typed, NEW kind, Receives(kind)
    PROVE  /\ Received \in EngineMessage
           /\ fromEngine' \in Seq(EngineMessage)
           /\ ~dispatching
  BY DEF Typed, TypeOK, MachineTypeOK, Receives, Received, Waiting

LEMMA UnexpectedTypes ==
    ASSUME Typed, UNCHANGED channelVars, ResponseUnexpected \/ EventUnexpected
    PROVE  Typed'
<1>1. fromEngine' \in Seq(EngineMessage)
  BY ReceivesTypes DEF ResponseUnexpected, EventUnexpected
<1>2. UNCHANGED <<serverVars, toEngine, clientVars>>
  BY DEF ResponseUnexpected, EventUnexpected
<1> QED
  BY <1>1, <1>2
     DEF Typed, TypeOK, MachineTypeOK, SessionTypeOK, DispatchesRequest,
         Engine!EngineTypeOK, channelVars, serverVars, sessionVars, machineVars,
         clientVars

LEMMA SendEventTypes ==
    ASSUME SpeechTypeOK, NEW request, NEW state \in RequestStates,
           SendEvent(request, state)
    PROVE  SpeechTypeOK'
<1>1. CASE sm_active
  <2>1. speech' = [speech EXCEPT ![request.id] = state]
    BY <1>1, Zenon DEF SendEvent
  <2> QED
    BY <2>1 DEF SpeechTypeOK
<1>2. CASE ~sm_active
  BY <1>2, Zenon DEF SendEvent, SpeechTypeOK
<1> QED
  BY <1>1, <1>2

LEMMA ResponseTypes ==
    ASSUME Typed, UNCHANGED channelVars,
           \/ ResponseSpeak \/ ResponseStop \/ ResponseBargeIn \/ ResponsePause
           \/ ResponseResume \/ ResponseControl \/ ResponsePlain
    PROVE  Typed'
<1>1. Receives("response") /\ Awaited
  BY Zenon DEF ResponseSpeak, ResponseStop, ResponseBargeIn, ResponsePause,
     ResponseResume, ResponseControl, ResponsePlain, ResponseOnSpeaker, ReceivesAnswer
<1>2. Received \in EngineMessage /\ fromEngine' \in Seq(EngineMessage)
  BY <1>1, ReceivesTypes
<1>3. active_request \in Request
  BY <1>1 DEF Awaited, Typed, TypeOK, MachineTypeOK
<1>4. SessionTypeOK /\ SpeechTypeOK /\ DispatchesRequest
  BY DEF Typed, TypeOK, MachineTypeOK, SpeechTypeOK
<1>5. Engine!EngineTypeOK'
  BY DEF Typed, TypeOK, Engine!EngineTypeOK, channelVars
<1>6. CASE Crash
  <2>1. crashed' \in BOOLEAN
    BY <1>6, Zenon DEF Crash
  <2> QED
    BY <1>2, <1>5, <1>6, <2>1
       DEF Crash, Typed, TypeOK, MachineTypeOK, SessionTypeOK, DispatchesRequest,
           sessionVars, clientVars
<1>7. CASE ~Crash
  <2>1. ResponseFrame
    BY <1>7, Zenon DEF ResponseSpeak, ResponseStop, ResponseBargeIn, ResponsePause,
       ResponseResume, ResponseControl, ResponsePlain, ResponseOnSpeaker,
       FollowsNull, StopSpeaking
  <2>2. \/ \E stopped : Respond(Received, stopped)
        \/ /\ SendEvent(active_request, "IN-PROGRESS")
           /\ UNCHANGED <<active_request, sessionVars, answers, deactivations>>
    BY <1>7, Zenon DEF ResponseSpeak, ResponseStop, ResponseBargeIn, ResponsePause,
       ResponseResume, ResponseControl, ResponsePlain, ResponseOnSpeaker,
       FollowsNull, StopSpeaking, AnswerSpeak
  <2>3. /\ SessionTypeOK' /\ SpeechTypeOK' /\ DispatchesRequest'
        /\ active_request' \in Request \cup {NULL}
    <3>1. UNCHANGED <<next_id, terminated>>
      BY <2>1 DEF ResponseFrame
    <3>2. CASE \E stopped : Respond(Received, stopped)
      BY <1>2, <1>4, <3>1, <3>2, RespondTypes, RespondDispatches
    <3>3. CASE /\ SendEvent(active_request, "IN-PROGRESS")
               /\ UNCHANGED <<active_request, sessionVars, answers, deactivations>>
      <4>1. SpeechTypeOK'
        BY <1>4, <3>3, SendEventTypes DEF RequestStates
      <4> QED
        BY <1>3, <1>4, <3>1, <3>3, <4>1
           DEF SessionTypeOK, DispatchesRequest, sessionVars
    <3> QED
      BY <2>2, <3>2, <3>3
  <2>4. /\ speaker' \in Request \cup {NULL}
        /\ sm_state' \in {"IDLE", "SPEAKING", "PAUSED"}
    BY <1>3, <1>7 DEF ResponseSpeak, ResponseStop, ResponseBargeIn, ResponsePause,
       ResponseResume, ResponseControl, ResponsePlain, ResponseOnSpeaker,
       FollowsNull, StopSpeaking, BecomeIdle, Typed, TypeOK, MachineTypeOK
  <2>5. /\ speak_queue' \in Seq(Request)
        /\ deferred' \in Request \cup {NULL}
    <3>1. \/ UNCHANGED <<speak_queue, deferred>>
          \/ speak_queue' \in Remainders(active_request) /\ UNCHANGED deferred
          \/ ResponseStop
      BY <1>7, Zenon DEF ResponseSpeak, ResponseBargeIn, ResponsePause,
         ResponseResume, ResponseControl, ResponsePlain, ResponseOnSpeaker,
         FollowsNull
    <3>2. speak_queue \in Seq(Request) /\ deferred \in Request \cup {NULL}
      BY DEF Typed, TypeOK, MachineTypeOK
    <3>3. CASE ResponseStop
      <4>1. PICK left \in Remainders(active_request) :
                \/ left = <<>> /\ speak_queue' = <<>> /\ UNCHANGED deferred
                \/ /\ left # <<>>
                   /\ speak_queue' = Tail(left)
                   /\ deferred' = Head(left)
        BY <1>7, <3>3, Zenon DEF ResponseStop, FollowsNull
      <4>2. left \in Seq(Request)
        BY <3>2, RemainderIsQueue
      <4>3. CASE left = <<>>
        BY <3>2, <4>1, <4>3
      <4>4. CASE left # <<>>
        <5>1. Head(left) \in Request /\ Tail(left) \in Seq(Request)
          BY <4>2, <4>4
        <5> QED
          BY <4>1, <4>4, <5>1
      <4> QED
        BY <4>3, <4>4
    <3> QED
      BY <3>1, <3>2, <3>3, RemainderIsQueue
  <2>6. is_pending' \in BOOLEAN
    BY <1>7, Zenon DEF ResponseSpeak, ResponseStop, ResponseBargeIn, ResponsePause,
       ResponseResume, ResponseControl, ResponsePlain, ResponseOnSpeaker,
       FollowsNull, StopSpeaking, AnswerSpeak, Typed, TypeOK, MachineTypeOK
  <2> QED
    BY <1>2, <1>5, <2>1, <2>3, <2>4, <2>5, <2>6
       DEF ResponseFrame, Typed, TypeOK, MachineTypeOK, SpeechTypeOK
<1> QED
  BY <1>6, <1>7

LEMMA CompleteTypes ==
    ASSUME Typed, UNCHANGED channelVars, EventSpeakComplete
    PROVE  Typed'
<1> USE DEF Typed, TypeOK, MachineTypeOK
<1>1. fromEngine' \in Seq(EngineMessage)
  BY ReceivesTypes DEF EventSpeakComplete
<1>2. SpeechTypeOK'
  BY SendEventTypes DEF EventSpeakComplete, SpeechTypeOK, RequestStates
<1>3. /\ speak_queue' \in Seq(Request)
      /\ active_request' \in Request \cup {NULL}
      /\ toEngine' \in Seq(Request)
  <2>1. CASE speak_queue = <<>>
    BY <2>1 DEF EventSpeakComplete, StartPending
  <2>2. CASE speak_queue # <<>>
    <3>1. Head(speak_queue) \in Request /\ Tail(speak_queue) \in Seq(Request)
      BY <2>2
    <3>2. /\ speak_queue' = Tail(speak_queue)
          /\ active_request' = Head(speak_queue)
          /\ toEngine' = Append(toEngine, Head(speak_queue))
      BY <2>2, Zenon DEF EventSpeakComplete, StartPending, SendToEngine
    <3> QED
      BY <3>1, <3>2
  <2> QED
    BY <2>1, <2>2
<1>4. is_pending' \in BOOLEAN
  BY Zenon DEF EventSpeakComplete, StartPending
<1>5. SessionTypeOK' /\ DispatchesRequest'
  BY DEF EventSpeakComplete, SessionTypeOK, DispatchesRequest, sessionVars
<1>6. Engine!EngineTypeOK'
  BY DEF Engine!EngineTypeOK, channelVars
<1> QED
  BY <1>1, <1>2, <1>3, <1>4, <1>5, <1>6
     DEF EventSpeakComplete, BecomeIdle, SpeechTypeOK

LEMMA StutterTypes == Typed /\ UNCHANGED vars => Typed'
  BY DEF Typed, TypeOK, MachineTypeOK, SessionTypeOK, DispatchesRequest,
     Engine!EngineTypeOK, vars, channelVars, serverVars, queueVars, sessionVars,
     machineVars, clientVars

LEMMA ClientDispatches == Typed /\ ClientStep => DispatchesRequest'
<1> SUFFICES ASSUME Typed, ClientStep PROVE DispatchesRequest'
  OBVIOUS
<1>1. ASSUME NEW request \in Request, Arrive(request) PROVE DispatchesRequest'
  <2>1. CASE in_progress = NULL
    <3>1. in_progress' = request
      BY <1>1, <2>1, Zenon DEF Arrive, Enqueue
    <3> QED
      BY <1>1, <3>1, Zenon DEF DispatchesRequest
  <2>2. CASE in_progress # NULL
    BY <1>1, <2>2, Zenon DEF Arrive, Enqueue, DispatchesRequest, Typed
  <2> QED
    BY <2>1, <2>2
<1>2. CASE ClientTerminate
  BY <1>1, <1>2, MessageTypes DEF ClientTerminate, ArriveTerminate
<1>3. ASSUME NEW method \in Methods, NEW only \in Selections, NEW flag \in BOOLEAN,
             ClientRequest(method, only, flag)
      PROVE  DispatchesRequest'
  <2>1. NewRequest(method, only, flag) \in Request
    BY MessageAssumption
       DEF NewRequest, Request, Selections, Typed, TypeOK, MachineTypeOK, SessionTypeOK
  <2> QED
    BY <1>1, <1>3, <2>1 DEF ClientRequest, ArriveRequest
<1> QED
  BY <1>2, <1>3 DEF ClientStep, ClientNext

LEMMA NextTypes == Typed /\ [Next]_vars => Typed'
<1> SUFFICES ASSUME Typed, [Next]_vars PROVE Typed'
  OBVIOUS
<1>1. CASE ServerStep
  <2>1. UNCHANGED channelVars /\ (Dispatch \/ FromEngine)
    BY <1>1 DEF ServerStep, ServerNext
  <2> QED
    BY <2>1, RequestTypes, DeactivateTypes, UnexpectedTypes, ResponseTypes,
       CompleteTypes
       DEF Dispatch, FromEngine
<1>2. CASE ClientStep
  BY <1>2, ClientTypes, ClientDispatches DEF Typed
<1>3. CASE PluginStep \/ MediaStep
  <2>1. DispatchesRequest'
    BY <1>3 DEF PluginStep, MediaStep, serverVars, sessionVars, Typed, DispatchesRequest
  <2> QED
    BY <1>3, <2>1, EngineTypes DEF Typed
<1> QED
  BY <1>1, <1>2, <1>3, StutterTypes DEF Next

(***************************************************************************)
(* Type correctness: in every run of the channel each variable of the      *)
(* session, of the state machine and of the plugin keeps to its type, and  *)
(* what the session dispatches is a request, never the null pointer.       *)
(***************************************************************************)
THEOREM ChannelIsTyped == Spec => [](TypeOK /\ DispatchesRequest)
<1>1. Init => Typed
  <2>1. Init => DispatchesRequest
    BY Zenon DEF Init, MachineInit, SessionInit, QueueInit, DispatchesRequest
  <2> QED
    BY <2>1, TypeOKInit DEF Typed
<1> QED
  BY <1>1, NextTypes, PTL DEF Spec, Typed

-----------------------------------------------------------------------------
(* The speaker.                                                            *)

LEMMA SpeakerStateStep == Typed /\ SpeakerState /\ [Next]_vars => SpeakerState'
<1> SUFFICES ASSUME Typed, SpeakerState, [Next]_vars PROVE SpeakerState'
  OBVIOUS
<1>1. CASE UNCHANGED <<sm_state, speaker>>
  BY <1>1 DEF SpeakerState
<1>2. CASE ResponseSpeak
  <2>1. active_request # NULL
    BY <1>2 DEF ResponseSpeak, ReceivesAnswer, Awaited
  <2> QED
    BY <1>2, <2>1 DEF ResponseSpeak, SpeakerState
<1>3. CASE BecomeIdle
  BY <1>3 DEF BecomeIdle, SpeakerState
<1>4. ASSUME NEW method, NEW state \in {"PAUSED", "SPEAKING", sm_state},
             ResponseOnSpeaker(method, state)
      PROVE  SpeakerState'
  BY <1>4 DEF ResponseOnSpeaker, FollowsNull, Crash, SpeakerState
<1>5. \/ UNCHANGED <<sm_state, speaker>>
      \/ ResponseSpeak \/ BecomeIdle
      \/ ResponsePause \/ ResponseResume \/ ResponseControl
  BY DEF Next, ServerStep, ServerNext, Dispatch, FromEngine, ClientStep, ClientNext,
     ClientRequest, ClientTerminate, PluginStep, MediaStep, RequestSpeak,
     RequestStop, RequestPause, RequestResume, RequestBargeIn, RequestControl,
     RequestDefineLexicon, RequestParams, RequestIf, RequestFrame, Deactivate,
     StartDeferred, ResponseUnexpected, ResponseStop, ResponseBargeIn,
     StopSpeaking, FollowsNull, Crash, ResponsePlain, EventSpeakComplete,
     EventUnexpected, vars, serverVars, machineVars
<1> QED
  BY <1>1, <1>2, <1>3, <1>4, <1>5 DEF ResponsePause, ResponseResume, ResponseControl

(***************************************************************************)
(* The state machine has a speaker exactly when it is not idle, in every   *)
(* run and for every engine behaviour, a refused SPEAK included.           *)
(***************************************************************************)
THEOREM SpeakerHasState == Spec => []SpeakerState
<1>1. Init => SpeakerState
  BY DEF Init, MachineInit, SpeakerState
<1>2. SpeakerState /\ Typed /\ [Next]_vars => SpeakerState'
  BY SpeakerStateStep
<1> QED
  BY <1>1, <1>2, ChannelIsTyped, PTL DEF Spec, Typed

-----------------------------------------------------------------------------
(* Pending SPEAKs.                                                         *)
(*                                                                         *)
(* An answer is matched by its id alone.  That the answer to a             *)
(* BARGE-IN-OCCURRED is not taken for the one to a selective STOP, which   *)
(* would leave pending SPEAKs behind, rests on the ids the client gives:   *)
(* some set "listed" holds the ids of the requests with a list, and no id  *)
(* of a request or message of another method.                              *)

Requests ==
    ({in_progress, active_request, speaker, deferred, speak_request, stop_response,
      accepted, ending} \ {NULL})
    \cup Elements(request_queue) \cup Elements(speak_queue) \cup Elements(toEngine)

Sorted(listed, request) ==
    /\ request.only # {} => request.id \in listed
    /\ request.method # "STOP" =>
          request.only = {} /\ request.id < next_id /\ request.id \notin listed

SortedMessage(listed, message) ==
    /\ message.method # "STOP" => message.id < next_id /\ message.id \notin listed
    /\ ~CodecMayBeLost /\ message.kind = "response" /\ message.method = "SPEAK"
          => message.state = "IN-PROGRESS"

AllSorted ==
    \E listed \in SUBSET (1 .. next_id - 1) :
        /\ \A request \in Requests : Sorted(listed, request)
        /\ \A message \in Elements(fromEngine) : SortedMessage(listed, message)

SpeakerUnlisted == speaker # NULL => speaker.only = {}

LEMMA RemainderElements ==
    ASSUME speak_queue \in Seq(Request), NEW request,
           NEW left \in Remainders(request)
    PROVE  Elements(left) \subseteq Elements(speak_queue)
<1>1. PICK kept \in SUBSET DOMAIN speak_queue : kept = Kept(request)
  BY DEF Kept
<1>2. PICK order \in Increasing(kept) : left = Rest(speak_queue, order)
  BY <1>1 DEF Remainders, Rest
<1> QED
  BY <1>1, <1>2, RestIsQueue

(***************************************************************************)
(* A step that only moves requests around, and whose new messages answer   *)
(* or complete one of them, keeps them sorted.                             *)
(***************************************************************************)
LEMMA MovesKeepSorted ==
    ASSUME AllSorted, next_id' = next_id,
           Requests' \subseteq Requests,
           Elements(fromEngine') \subseteq Elements(fromEngine)
               \cup {Response(request, state) :
                        request \in {r \in Requests : r.method # "SPEAK"},
                        state \in {"COMPLETE"}}
               \cup {Response(request, state) :
                        request \in Requests,
                        state \in IF CodecMayBeLost THEN {"COMPLETE", "IN-PROGRESS"}
                                  ELSE {"IN-PROGRESS"}}
               \cup {Event("SPEAK-COMPLETE", request) :
                        request \in {r \in Requests : r.method # "STOP"}}
    PROVE  AllSorted'
<1>1. PICK listed \in SUBSET (1 .. next_id - 1) :
        /\ \A request \in Requests : Sorted(listed, request)
        /\ \A message \in Elements(fromEngine) : SortedMessage(listed, message)
  BY DEF AllSorted
<1>2. \A request \in Requests' : Sorted(listed, request)'
  BY <1>1 DEF Sorted
<1>3. ASSUME NEW message \in Elements(fromEngine') PROVE SortedMessage(listed, message)'
  <2>1. CASE message \in Elements(fromEngine)
    BY <1>1, <2>1 DEF SortedMessage
  <2>2. ASSUME NEW request \in Requests, request.method # "SPEAK",
               message = Response(request, "COMPLETE")
        PROVE  SortedMessage(listed, message)'
    BY <1>1, <2>2 DEF Response, SortedMessage, Sorted
  <2>3. ASSUME NEW request \in Requests,
               NEW state \in IF CodecMayBeLost THEN {"COMPLETE", "IN-PROGRESS"}
                             ELSE {"IN-PROGRESS"},
               message = Response(request, state)
        PROVE  SortedMessage(listed, message)'
    BY <1>1, <2>3 DEF Response, SortedMessage, Sorted
  <2>4. ASSUME NEW request \in Requests, request.method # "STOP",
               message = Event("SPEAK-COMPLETE", request)
        PROVE  SortedMessage(listed, message)'
    BY <1>1, <2>4 DEF Event, SortedMessage, Sorted
  <2> QED
    BY <2>1, <2>2, <2>3, <2>4
<1> QED
  BY <1>1, <1>2, <1>3 DEF AllSorted

(***************************************************************************)
(* The plugin speaks SPEAKs and stops for requests of other methods.       *)
(***************************************************************************)
EngineSpeaks ==
    /\ \A request \in {speak_request, accepted, ending} :
          request # NULL => request.method = "SPEAK"
    /\ stop_response # NULL => stop_response.method # "SPEAK"

LEMMA EngineSorted ==
    ASSUME Typed, AllSorted, EngineSpeaks, PluginStep \/ MediaStep
    PROVE  AllSorted' /\ EngineSpeaks'
<1> USE SameMessages
<1>1. UNCHANGED <<serverVars, clientVars>>
  BY DEF PluginStep, MediaStep
<1>2. /\ toEngine \in Seq(Request)
      /\ fromEngine \in Seq(EngineMessage)
      /\ {speak_request, stop_response, accepted, ending} \subseteq Request \cup {NULL}
  BY DEF Typed, TypeOK, MachineTypeOK, Engine!EngineTypeOK
<1> DEFINE engineRequests == {speak_request, stop_response, accepted, ending} \ {NULL}
           moved == engineRequests \cup Elements(toEngine)
           sent == {Response(request, state) :
                      request \in {r \in moved : r.method # "SPEAK"},
                      state \in {"COMPLETE"}}
                   \cup {Response(request, state) :
                      request \in moved,
                      state \in IF CodecMayBeLost THEN {"COMPLETE", "IN-PROGRESS"}
                                ELSE {"IN-PROGRESS"}}
                   \cup {Event("SPEAK-COMPLETE", request) :
                      request \in {r \in moved : r.method # "STOP"}}
<1>3. SUFFICES /\ EngineSpeaks'
               /\ Elements(toEngine') \subseteq Elements(toEngine)
               /\ engineRequests' \subseteq moved
               /\ \/ UNCHANGED fromEngine
                  \/ \E message \in sent \cap EngineMessage :
                        fromEngine' = Append(fromEngine, message)
  <2>1. next_id' = next_id
    BY <1>1 DEF clientVars
  <2>2. moved \subseteq Requests
    BY DEF Requests
  <2>3. Requests' \subseteq Requests
    BY <1>1, <1>3, <2>2
       DEF Requests, serverVars, sessionVars, machineVars
  <2>4. Elements(fromEngine') \subseteq Elements(fromEngine) \cup sent
    <3> HIDE DEF sent
    <3>1. CASE UNCHANGED fromEngine
      BY <3>1
    <3>2. ASSUME NEW message \in sent \cap EngineMessage,
                 fromEngine' = Append(fromEngine, message)
          PROVE  Elements(fromEngine') \subseteq Elements(fromEngine) \cup sent
      <4>1. Elements(fromEngine') = Elements(fromEngine) \cup {message}
        BY <1>2, <3>2, QueueElements
      <4> QED
        BY <4>1
    <3> QED
      BY <1>3, <3>1, <3>2
  <2> QED
    BY <1>3, <2>1, <2>2, <2>3, <2>4, MovesKeepSorted
<1>4. ASSUME NEW methods, Engine!Takes(methods)
      PROVE  /\ Head(toEngine) \in Elements(toEngine) \cap Request
             /\ Elements(toEngine') \subseteq Elements(toEngine)
             /\ Head(toEngine).method \in methods
  <2>1. toEngine # <<>> /\ toEngine' = Tail(toEngine)
    BY <1>4 DEF Engine!Takes
  <2>2. Head(toEngine) \in Request
    BY <1>2, <2>1
  <2> QED
    BY <1>2, <1>4, <2>1, <2>2, QueueElements DEF Engine!Takes
<1>5. /\ \A request \in moved \cap Request : 
            /\ request.method # "SPEAK"
                  => Response(request, "COMPLETE") \in sent \cap EngineMessage
            /\ Response(request, "IN-PROGRESS") \in sent \cap EngineMessage
            /\ CodecMayBeLost
                  => Response(request, "COMPLETE") \in sent \cap EngineMessage
            /\ request.method # "STOP"
                  => Event("SPEAK-COMPLETE", request) \in sent \cap EngineMessage
  BY MessageTypes DEF RequestStates, EventNames
<1> HIDE DEF sent
<1>6. CASE Engine!SpeakAccepted
  <2>1. Engine!Takes({"SPEAK"})
    BY <1>6 DEF Engine!SpeakAccepted
  <2>2. fromEngine' = Append(fromEngine, Response(Head(toEngine), "IN-PROGRESS"))
    BY <1>6 DEF Engine!SpeakAccepted, Engine!SendToServer
  <2> QED
    BY <1>2, <1>4, <1>5, <1>6, <2>1, <2>2 DEF Engine!SpeakAccepted, EngineSpeaks
<1>7. CASE Engine!SpeakStored
  BY <1>2, <1>7 DEF Engine!SpeakStored, EngineSpeaks
<1>8. CASE Engine!SpeakRefused
  <2>1. CodecMayBeLost /\ Engine!Takes({"SPEAK"})
    BY <1>8 DEF Engine!SpeakRefused
  <2>2. fromEngine' = Append(fromEngine, Response(Head(toEngine), "COMPLETE"))
    BY <1>8 DEF Engine!SpeakRefused, Engine!SendToServer
  <2> QED
    BY <1>2, <1>4, <1>5, <1>8, <2>1, <2>2 DEF Engine!SpeakRefused, EngineSpeaks
<1>9. CASE Engine!StopStored
  <2>1. Engine!Takes({"STOP", "BARGE-IN-OCCURRED"})
    BY <1>9 DEF Engine!StopStored
  <2> QED
    BY <1>2, <1>4, <1>9, <2>1 DEF Engine!StopStored, EngineSpeaks
<1>10. CASE Engine!PauseOrResume
  <2>1. Engine!Takes({"PAUSE", "RESUME"})
    BY <1>10 DEF Engine!PauseOrResume
  <2>2. fromEngine' = Append(fromEngine, Response(Head(toEngine), "COMPLETE"))
    BY <1>10 DEF Engine!PauseOrResume, Engine!SendToServer
  <2> QED
    BY <1>2, <1>4, <1>5, <1>10, <2>1, <2>2 DEF Engine!PauseOrResume, EngineSpeaks
<1>11. CASE Engine!OtherAnswered
  <2>1. Engine!Takes({"SET-PARAMS", "CONTROL", "DEFINE-LEXICON"})
    BY <1>11 DEF Engine!OtherAnswered
  <2>2. fromEngine' = Append(fromEngine, Response(Head(toEngine), "COMPLETE"))
    BY <1>11 DEF Engine!OtherAnswered, Engine!SendToServer
  <2> QED
    BY <1>2, <1>4, <1>5, <1>11, <2>1, <2>2 DEF Engine!OtherAnswered, EngineSpeaks
<1>12. CASE Engine!StopAnswered
  <2>1. /\ stop_response # NULL
        /\ UNCHANGED <<toEngine, speak_request, stop_response, paused, accepted, ending>>
    BY <1>12 DEF Engine!StopAnswered
  <2>2. fromEngine' = Append(fromEngine, Response(stop_response, "COMPLETE"))
    BY <1>12 DEF Engine!StopAnswered, Engine!SendToServer
  <2>3. stop_response.method # "SPEAK"
    BY <2>1 DEF EngineSpeaks
  <2> QED
    BY <1>2, <1>5, <2>1, <2>2, <2>3 DEF EngineSpeaks
<1>13. CASE Engine!StopCleared
  BY <1>2, <1>13 DEF Engine!StopCleared, EngineSpeaks
<1>15. CASE Engine!SpeechEnds
  BY <1>2, <1>15 DEF Engine!SpeechEnds, EngineSpeaks
<1>16. CASE Engine!SpeechCleared
  <2>1. ending \in engineRequests /\ ending.method = "SPEAK"
    BY <1>16 DEF Engine!SpeechCleared, EngineSpeaks
  <2>2. fromEngine' = Append(fromEngine, Event("SPEAK-COMPLETE", ending))
    BY <1>16 DEF Engine!SpeechCleared, Engine!SendToServer
  <2> QED
    BY <1>2, <1>5, <1>16, <2>1, <2>2 DEF Engine!SpeechCleared, EngineSpeaks
<1> QED
  BY <1>6, <1>7, <1>8, <1>9, <1>10, <1>11, <1>12, <1>13, <1>15, <1>16
     DEF PluginStep, MediaStep, Engine!PluginNext, Engine!MediaNext

LEMMA RequestsAreTyped ==
    Typed => Requests \subseteq Request /\ Elements(fromEngine) \subseteq EngineMessage
<1> SUFFICES ASSUME Typed
             PROVE  Requests \subseteq Request /\ Elements(fromEngine) \subseteq EngineMessage
  OBVIOUS
<1>1. /\ Elements(request_queue) \subseteq Request
      /\ Elements(speak_queue) \subseteq Request
      /\ Elements(toEngine) \subseteq Request
      /\ Elements(fromEngine) \subseteq EngineMessage
  BY DEF Elements, Typed, TypeOK, MachineTypeOK, SessionTypeOK
<1>2. {in_progress, active_request, speaker, deferred} \subseteq Request \cup {NULL}
  BY DEF Typed, TypeOK, MachineTypeOK, SessionTypeOK
<1>3. {speak_request, stop_response, accepted, ending} \subseteq Request \cup {NULL}
  BY SameMessages DEF Typed, TypeOK, Engine!EngineTypeOK
<1> QED
  BY <1>1, <1>2, <1>3 DEF Requests

LEMMA ClientSorted ==
    ASSUME Typed, AllSorted, SpeakerUnlisted, ClientStep
    PROVE  AllSorted' /\ SpeakerUnlisted'
<1>1. UNCHANGED <<speaker, active_request, deferred, speak_queue, queueVars, channelVars>>
  BY DEF ClientStep, ClientNext, ClientRequest, ClientTerminate, machineVars
<1>2. SpeakerUnlisted'
  BY <1>1 DEF SpeakerUnlisted
<1>3. PICK listed \in SUBSET (1 .. next_id - 1) :
        /\ \A request \in Requests : Sorted(listed, request)
        /\ \A message \in Elements(fromEngine) : SortedMessage(listed, message)
  BY DEF AllSorted
<1>4. next_id \in 1 .. MaxRequests + 1 /\ request_queue \in Seq(Request)
  BY DEF Typed, TypeOK, MachineTypeOK, SessionTypeOK
<1>5. ASSUME NEW request \in Request, Arrive(request)
      PROVE  Requests' \subseteq Requests \cup {request}
  <2>1. Elements(request_queue') \subseteq Elements(request_queue) \cup {request}
    <3>1. CASE UNCHANGED request_queue
      BY <3>1
    <3>2. CASE request_queue' = Append(request_queue, request)
      BY <1>4, <3>2, QueueElements
    <3> QED
      BY <1>5, <3>1, <3>2, Zenon DEF Arrive, Enqueue
  <2>2. in_progress' \in {in_progress, request}
    BY <1>5 DEF Arrive, Enqueue
  <2> QED
    BY <1>1, <2>1, <2>2 DEF Requests, queueVars, channelVars
<1>6. CASE ClientTerminate
  <2>1. Requests' \subseteq Requests \cup {TerminateRequest} /\ next_id' = next_id
    BY <1>5, <1>6, MessageTypes DEF ClientTerminate, ArriveTerminate
  <2>2. Sorted(listed, TerminateRequest)
    BY <1>3, <1>4, MessageAssumption DEF Sorted, TerminateRequest
  <2>3. \A request \in Requests' : Sorted(listed, request)'
    BY <1>3, <2>1, <2>2 DEF Sorted
  <2>4. \A message \in Elements(fromEngine') : SortedMessage(listed, message)'
    BY <1>1, <1>3, <2>1 DEF SortedMessage, queueVars
  <2> QED
    BY <1>2, <2>1, <2>3, <2>4 DEF AllSorted
<1>7. ASSUME NEW method \in Methods, NEW only \in Selections, NEW flag \in BOOLEAN,
             ClientRequest(method, only, flag)
      PROVE  AllSorted'
  <2>0a. PICK new : new = NewRequest(method, only, flag)
    OBVIOUS
  <2>0b. PICK more : more = IF only = {} THEN listed ELSE listed \cup {next_id}
    OBVIOUS
  <2>1. new \in Request
    BY <1>4, <2>0a, MessageAssumption DEF NewRequest, Request, Selections
  <2>2. /\ next_id' = next_id + 1
        /\ only # {} => method = "STOP"
        /\ Requests' \subseteq Requests \cup {new}
    BY <1>5, <1>7, <2>0a, <2>1 DEF ClientRequest, ArriveRequest
  <2>3. more \in SUBSET (1 .. next_id' - 1)
    BY <1>3, <1>4, <2>0b, <2>2, MessageAssumption
  <2>4. ASSUME NEW request \in Requests' PROVE Sorted(more, request)'
    <3>1. CASE request = new
      <4>1. /\ request.id = next_id /\ request.only = only
            /\ request.method = method
        BY <2>0a, <3>1 DEF NewRequest
      <4>2. next_id < next_id + 1 /\ next_id \notin listed
        BY <1>3, <1>4, MessageAssumption
      <4>3. only # {} => method = "STOP" /\ next_id \in more
        BY <2>0b, <2>2
      <4>4. only = {} => more = listed
        BY <2>0b
      <4> QED
        BY <2>2, <4>1, <4>2, <4>3, <4>4 DEF Sorted
    <3>2. CASE request \in Requests
      <4>1. Sorted(listed, request) /\ request \in Request
        BY <1>3, <3>2, RequestsAreTyped
      <4>2. request.id \in Nat
        BY <4>1 DEF Request
      <4>3. listed \subseteq more /\ (request.id < next_id =>
              request.id < next_id + 1 /\ (request.id \in more => request.id \in listed))
        BY <1>4, <2>0b, <4>2
      <4> QED
        BY <2>2, <4>1, <4>3 DEF Sorted
    <3> QED
      BY <2>2, <3>1, <3>2
  <2>5. ASSUME NEW message \in Elements(fromEngine')
        PROVE  SortedMessage(more, message)'
    <3>1. message \in Elements(fromEngine) /\ message \in EngineMessage
      BY <1>1, RequestsAreTyped DEF queueVars
    <3>2. message.id \in Nat
      BY <3>1 DEF EngineMessage
    <3>3. message.id < next_id =>
            message.id < next_id + 1 /\ (message.id \in more => message.id \in listed)
      BY <1>4, <2>0b, <3>2
    <3>4. SortedMessage(listed, message)
      BY <1>3, <3>1
    <3> QED
      BY <2>2, <3>3, <3>4 DEF SortedMessage
  <2> QED
    BY <2>3, <2>4, <2>5 DEF AllSorted
<1> QED
  BY <1>2, <1>6, <1>7 DEF ClientStep, ClientNext

LEMMA TypedQueues ==
    Typed => /\ request_queue \in Seq(Request) /\ speak_queue \in Seq(Request)
             /\ toEngine \in Seq(Request) /\ fromEngine \in Seq(EngineMessage)
  BY DEF Typed, TypeOK, MachineTypeOK, SessionTypeOK

LEMMA RespondMoves ==
    ASSUME Typed, NEW response, NEW stopped, Respond(response, stopped)
    PROVE  /\ in_progress' \in {NULL, in_progress} \cup Elements(request_queue)
           /\ Elements(request_queue') \subseteq Elements(request_queue)
           /\ active_request' = NULL
<1>1. CASE sm_active
  <2>1. PopRequest
    BY <1>1, Zenon DEF Respond, SendResponse
  <2>2. CASE request_queue = <<>>
    BY <2>1, <2>2 DEF PopRequest, Respond
  <2>3. CASE request_queue # <<>>
    <3>1. in_progress' = Head(request_queue) /\ request_queue' = Tail(request_queue)
      BY <2>1, <2>3 DEF PopRequest
    <3>2. active_request' = NULL
      BY DEF Respond
    <3>3. /\ Head(request_queue) \in Elements(request_queue)
          /\ Elements(Tail(request_queue)) \subseteq Elements(request_queue)
      BY <2>3, TypedQueues, QueueElements
    <3> QED
      BY <3>1, <3>2, <3>3, Zenon
  <2> QED
    BY <2>2, <2>3
<1>2. CASE ~sm_active
  BY <1>2 DEF Respond, ReportDeactivation
<1> QED
  BY <1>1, <1>2

LEMMA ReceivesMoves ==
    ASSUME Typed, NEW kind, Receives(kind)
    PROVE  /\ Received \in Elements(fromEngine)
           /\ Elements(fromEngine') \subseteq Elements(fromEngine)
  BY TypedQueues, QueueElements DEF Receives, Received

\* what a step of the server task does to the requests
Moves ==
    /\ next_id' = next_id
    /\ Requests' \subseteq Requests
    /\ Elements(fromEngine') \subseteq Elements(fromEngine)

LEMMA RequestMoves ==
    ASSUME Typed, UNCHANGED channelVars,
           \/ RequestSpeak \/ RequestStop \/ RequestPause \/ RequestResume
           \/ RequestBargeIn \/ RequestControl \/ RequestDefineLexicon
           \/ RequestParams
    PROVE  Moves /\ UNCHANGED speaker
<1>1. /\ dispatching
      /\ RequestFrame
      /\ Forward \/ \E state, stopped : AnswerAtOnce(state, stopped)
  BY Zenon DEF RequestSpeak, RequestStop, RequestPause, RequestResume, RequestBargeIn,
     RequestControl, RequestDefineLexicon, RequestParams, RequestIf, Dispatches
<1>2. in_progress \in Request /\ in_progress \in Requests
  BY <1>1, NullAssumption DEF Typed, DispatchesRequest, Requests
<1>3. Elements(speak_queue') \subseteq Elements(speak_queue) \cup {in_progress}
  <2>1. \/ speak_queue' = speak_queue
        \/ speak_queue' = Append(speak_queue, in_progress)
        \/ speak_queue' \in Remainders(in_progress)
    BY Zenon DEF RequestSpeak, RequestStop, RequestPause, RequestResume, RequestBargeIn,
       RequestControl, RequestDefineLexicon, RequestParams, RequestIf
  <2> QED
    BY <1>2, <2>1, TypedQueues, QueueElements, RemainderElements
<1>4. /\ in_progress' \in {NULL, in_progress} \cup Elements(request_queue)
      /\ Elements(request_queue') \subseteq Elements(request_queue)
      /\ active_request' \in {NULL, in_progress}
      /\ Elements(toEngine') \subseteq Elements(toEngine) \cup {in_progress}
  <2>1. CASE Forward
    BY <1>2, <2>1, TypedQueues, QueueElements DEF Forward, SendToEngine
  <2>2. ASSUME NEW state, NEW stopped, AnswerAtOnce(state, stopped)
        PROVE  /\ in_progress' \in {NULL, in_progress} \cup Elements(request_queue)
               /\ Elements(request_queue') \subseteq Elements(request_queue)
               /\ active_request' \in {NULL, in_progress}
               /\ Elements(toEngine') \subseteq Elements(toEngine)
    BY <2>2, RespondMoves DEF AnswerAtOnce
  <2> QED
    BY <1>1, <2>1, <2>2
<1>5. UNCHANGED <<speaker, deferred, fromEngine, next_id>>
  BY <1>1 DEF RequestFrame
<1>6. Requests' \subseteq Requests
  BY <1>2, <1>3, <1>4, <1>5 DEF Requests, channelVars
<1> QED
  BY <1>5, <1>6 DEF Moves

LEMMA StartDeferredMoves ==
    ASSUME Typed, UNCHANGED channelVars, StartDeferred
    PROVE  Moves /\ UNCHANGED speaker
<1>1. deferred \in Request
  BY DEF StartDeferred, Typed, TypeOK, MachineTypeOK
<1>2. Elements(toEngine') \subseteq Elements(toEngine) \cup {deferred}
  BY <1>1, TypedQueues, QueueElements DEF StartDeferred, SendToEngine
<1> QED
  BY <1>1, <1>2, NullAssumption
     DEF StartDeferred, SendToEngine, Moves, Requests, sessionVars, clientVars,
         channelVars

LEMMA ResponseMoves ==
    ASSUME Typed, UNCHANGED channelVars,
           \/ ResponseSpeak \/ ResponseStop \/ ResponseBargeIn \/ ResponsePause
           \/ ResponseResume \/ ResponseControl \/ ResponsePlain
    PROVE  Moves
<1>1. Receives("response") /\ Awaited
  BY Zenon DEF ResponseSpeak, ResponseStop, ResponseBargeIn, ResponsePause,
     ResponseResume, ResponseControl, ResponsePlain, ResponseOnSpeaker, ReceivesAnswer
<1>2. Elements(fromEngine') \subseteq Elements(fromEngine)
  BY <1>1, ReceivesMoves
<1>3. CASE Crash
  BY <1>2, <1>3 DEF Crash, Moves, Requests, sessionVars, clientVars, channelVars
<1>4. CASE ~Crash
  <2>1. ResponseFrame
    BY <1>4, Zenon DEF ResponseSpeak, ResponseStop, ResponseBargeIn, ResponsePause,
       ResponseResume, ResponseControl, ResponsePlain, ResponseOnSpeaker,
       FollowsNull, StopSpeaking
  <2>2. \/ \E stopped : Respond(Received, stopped)
        \/ UNCHANGED <<active_request, sessionVars, answers, deactivations>>
    BY <1>4, Zenon DEF ResponseSpeak, ResponseStop, ResponseBargeIn, ResponsePause,
       ResponseResume, ResponseControl, ResponsePlain, ResponseOnSpeaker,
       FollowsNull, StopSpeaking, AnswerSpeak
  <2>3. /\ in_progress' \in {NULL, in_progress} \cup Elements(request_queue)
        /\ Elements(request_queue') \subseteq Elements(request_queue)
        /\ active_request' \in {NULL, active_request}
    BY <2>2, RespondMoves DEF sessionVars
  <2>4. speaker' \in {NULL, speaker, active_request}
    BY <1>4 DEF ResponseSpeak, ResponseStop, ResponseBargeIn, ResponsePause,
       ResponseResume, ResponseControl, ResponsePlain, ResponseOnSpeaker,
       FollowsNull, StopSpeaking, BecomeIdle
  <2>5. /\ Elements(speak_queue') \subseteq Elements(speak_queue)
        /\ deferred' \in {NULL, deferred} \cup Elements(speak_queue)
    <3>1. \/ UNCHANGED <<speak_queue, deferred>>
          \/ speak_queue' \in Remainders(active_request) /\ UNCHANGED deferred
          \/ ResponseStop
      BY <1>4, Zenon DEF ResponseSpeak, ResponseBargeIn, ResponsePause,
         ResponseResume, ResponseControl, ResponsePlain, ResponseOnSpeaker,
         FollowsNull
    <3>2. CASE speak_queue' \in Remainders(active_request) /\ UNCHANGED deferred
      BY <3>2, TypedQueues, RemainderElements
    <3>3. CASE ResponseStop
      <4>1. PICK left \in Remainders(active_request) :
                \/ left = <<>> /\ speak_queue' = <<>> /\ UNCHANGED deferred
                \/ /\ left # <<>>
                   /\ speak_queue' = Tail(left)
                   /\ deferred' = Head(left)
        BY <1>4, <3>3, Zenon DEF ResponseStop, FollowsNull
      <4>2. left \in Seq(Request) /\ Elements(left) \subseteq Elements(speak_queue)
        BY TypedQueues, RemainderIsQueue, RemainderElements
      <4>3. CASE left = <<>>
        BY <4>1, <4>3, NoElements
      <4>4. CASE left # <<>>
        <5>1. Head(left) \in Elements(left) /\ Elements(Tail(left)) \subseteq Elements(left)
          BY <4>2, <4>4, QueueElements
        <5> QED
          BY <4>1, <4>2, <4>4, <5>1
      <4> QED
        BY <4>3, <4>4
    <3> QED
      BY <3>1, <3>2, <3>3
  <2> QED
    BY <1>2, <2>1, <2>3, <2>4, <2>5 DEF ResponseFrame, Moves, Requests, channelVars
<1> QED
  BY <1>3, <1>4

LEMMA EventMoves ==
    ASSUME Typed, UNCHANGED channelVars,
           EventSpeakComplete \/ EventUnexpected \/ ResponseUnexpected
    PROVE  Moves /\ speaker' \in {NULL, speaker}
<1>1. Elements(fromEngine') \subseteq Elements(fromEngine)
  BY ReceivesMoves DEF EventSpeakComplete, EventUnexpected, ResponseUnexpected
<1>2. CASE UNCHANGED <<serverVars, toEngine, clientVars>>
  BY <1>1, <1>2
     DEF Moves, Requests, serverVars, sessionVars, machineVars, clientVars, channelVars
<1>3. CASE EventSpeakComplete
  <2>1. /\ Elements(speak_queue') \subseteq Elements(speak_queue)
        /\ active_request' \in {active_request} \cup Elements(speak_queue)
        /\ Elements(toEngine') \subseteq Elements(toEngine) \cup Elements(speak_queue)
    <3>1. CASE speak_queue = <<>>
      BY <1>3, <3>1 DEF EventSpeakComplete, StartPending
    <3>2. CASE speak_queue # <<>>
      <4>1. /\ speak_queue' = Tail(speak_queue)
            /\ active_request' = Head(speak_queue)
            /\ toEngine' = Append(toEngine, Head(speak_queue))
        BY <1>3, <3>2, Zenon DEF EventSpeakComplete, StartPending, SendToEngine
      <4>2. Head(speak_queue) \in Request
        BY <3>2, TypedQueues
      <4> QED
        BY <3>2, <4>1, <4>2, TypedQueues, QueueElements
    <3> QED
      BY <3>1, <3>2
  <2> QED
    BY <1>1, <1>3, <2>1
       DEF EventSpeakComplete, BecomeIdle, Moves, Requests, sessionVars, channelVars
<1> QED
  BY <1>2, <1>3 DEF EventUnexpected, ResponseUnexpected

LEMMA MovesSorted ==
    ASSUME AllSorted, Moves
    PROVE  AllSorted'
  BY MovesKeepSorted DEF Moves

(***************************************************************************)
(* The stop request that ends a session selects whatever its speaker did,  *)
(* which is nothing.                                                       *)
(***************************************************************************)
LEMMA DeactivateSorted ==
    ASSUME Typed, AllSorted, SpeakerUnlisted, UNCHANGED channelVars, Deactivate
    PROVE  AllSorted' /\ SpeakerUnlisted'
<1>1. PICK listed \in SUBSET (1 .. next_id - 1) :
        /\ \A request \in Requests : Sorted(listed, request)
        /\ \A message \in Elements(fromEngine) : SortedMessage(listed, message)
  BY DEF AllSorted
<1>2. UNCHANGED <<in_progress, request_queue, speaker, deferred, speak_queue,
                  fromEngine, next_id>>
  BY DEF Deactivate, DeactivateSession
<1>3. ASSUME speaker # NULL
      PROVE  Requests' \subseteq Requests \cup {InternalStop(speaker)}
  <2>1. /\ toEngine' = Append(toEngine, InternalStop(speaker))
        /\ active_request' = InternalStop(speaker)
    BY <1>3 DEF Deactivate, SendToEngine
  <2>2. InternalStop(speaker) \in Request
    BY <1>3, MessageTypes DEF Typed, TypeOK, MachineTypeOK
  <2>3. Elements(toEngine') = Elements(toEngine) \cup {InternalStop(speaker)}
    BY <2>1, <2>2, TypedQueues, QueueElements
  <2> QED
    BY <1>2, <2>1, <2>3 DEF Requests, channelVars
<1>4. ASSUME speaker = NULL PROVE Requests' \subseteq Requests
  <2>1. UNCHANGED <<toEngine, active_request>>
    BY <1>4 DEF Deactivate
  <2> QED
    BY <1>2, <2>1 DEF Requests, channelVars
<1>5. speaker # NULL => Sorted(listed, InternalStop(speaker))
  BY DEF Sorted, InternalStop, SpeakerUnlisted
<1>6. \A request \in Requests' : Sorted(listed, request)'
  BY <1>1, <1>2, <1>3, <1>4, <1>5 DEF Sorted
<1>7. \A message \in Elements(fromEngine') : SortedMessage(listed, message)'
  BY <1>1, <1>2 DEF SortedMessage
<1> QED
  BY <1>1, <1>2, <1>6, <1>7 DEF AllSorted, SpeakerUnlisted

(***************************************************************************)
(* An answer to another method than STOP finds no selective STOP in        *)
(* active_request, though only the ids were compared.                      *)
(***************************************************************************)
LEMMA AnswerUnlisted ==
    ASSUME Typed, AllSorted, NEW method, ReceivesAnswer(method), method # "STOP"
    PROVE  active_request # NULL /\ active_request.only = {}
<1>1. PICK listed \in SUBSET (1 .. next_id - 1) :
        /\ \A request \in Requests : Sorted(listed, request)
        /\ \A message \in Elements(fromEngine) : SortedMessage(listed, message)
  BY DEF AllSorted
<1>2. /\ Received \in Elements(fromEngine) /\ Received.method = method
      /\ active_request # NULL /\ active_request.id = Received.id
  BY ReceivesMoves DEF ReceivesAnswer, Awaited
<1>3. active_request \in Requests
  BY <1>2 DEF Requests
<1> QED
  BY <1>1, <1>2, <1>3 DEF Sorted, SortedMessage

SortedInv == AllSorted /\ SpeakerUnlisted /\ EngineSpeaks

LEMMA SortedStep == Typed /\ SortedInv /\ [Next]_vars => SortedInv'
<1> SUFFICES ASSUME Typed, SortedInv, [Next]_vars PROVE SortedInv'
  OBVIOUS
<1> USE DEF SortedInv
<1>1. CASE ServerStep
  <2>1. EngineSpeaks'
    BY <1>1 DEF ServerStep, channelVars, EngineSpeaks
  <2>2. UNCHANGED channelVars
    BY <1>1 DEF ServerStep
  <2>3. CASE Deactivate
    BY <2>1, <2>2, <2>3, DeactivateSorted
  <2>4. CASE StartDeferred
    BY <2>1, <2>2, <2>4, StartDeferredMoves, MovesSorted DEF SpeakerUnlisted
  <2>5. CASE \/ RequestSpeak \/ RequestStop \/ RequestPause \/ RequestResume
             \/ RequestBargeIn \/ RequestControl \/ RequestDefineLexicon
             \/ RequestParams
    BY <2>1, <2>2, <2>5, RequestMoves, MovesSorted DEF SpeakerUnlisted
  <2>6. CASE \/ ResponseSpeak \/ ResponseStop \/ ResponseBargeIn \/ ResponsePause
             \/ ResponseResume \/ ResponseControl \/ ResponsePlain
    <3>1. AllSorted'
      BY <2>2, <2>6, ResponseMoves, MovesSorted
    <3>2. SpeakerUnlisted'
      <4>1. CASE ResponseSpeak
        <5>1. active_request.only = {}
          BY <4>1, AnswerUnlisted DEF ResponseSpeak
        <5> QED
          BY <4>1, <5>1 DEF ResponseSpeak, SpeakerUnlisted
      <4>2. CASE speaker' \in {NULL, speaker}
        BY <4>2 DEF SpeakerUnlisted
      <4> QED
        BY <2>6, <4>1, <4>2
           DEF ResponseStop, ResponseBargeIn, ResponsePause, ResponseResume,
               ResponseControl, ResponsePlain, ResponseOnSpeaker, FollowsNull,
               StopSpeaking, BecomeIdle, Crash
    <3> QED
      BY <2>1, <3>1, <3>2
  <2>7. CASE EventSpeakComplete \/ EventUnexpected \/ ResponseUnexpected
    BY <2>1, <2>2, <2>7, EventMoves, MovesSorted DEF SpeakerUnlisted
  <2> QED
    BY <1>1, <2>3, <2>4, <2>5, <2>6, <2>7
       DEF ServerStep, ServerNext, Dispatch, FromEngine
<1>2. CASE ClientStep
  BY <1>2, ClientSorted DEF EngineSpeaks, ClientStep, channelVars
<1>3. CASE PluginStep \/ MediaStep
  <2>1. UNCHANGED speaker
    BY <1>3 DEF PluginStep, MediaStep, serverVars, machineVars
  <2> QED
    BY <1>3, <2>1, EngineSorted DEF SpeakerUnlisted
<1>4. CASE UNCHANGED vars
  <2>1. Moves
    BY <1>4 DEF Moves, Requests, vars, serverVars, sessionVars, machineVars,
       clientVars, queueVars, channelVars
  <2>2. UNCHANGED <<speaker, speak_request, stop_response, accepted, ending>>
    BY <1>4 DEF vars, serverVars, machineVars, channelVars
  <2> QED
    BY <2>1, <2>2, MovesSorted DEF SpeakerUnlisted, EngineSpeaks
<1> QED
  BY <1>1, <1>2, <1>3, <1>4 DEF Next

LEMMA SortedInit == Init => SortedInv
<1> SUFFICES ASSUME Init PROVE SortedInv
  OBVIOUS
<1>1. Requests = {} /\ Elements(fromEngine) = {}
  BY NoElements DEF Init, MachineInit, SessionInit, QueueInit, Engine!EngineInit, Requests
<1> QED
  BY <1>1 DEF SortedInv, AllSorted, SpeakerUnlisted, EngineSpeaks, Init, MachineInit,
     Engine!EngineInit

LEMMA OrphanStep ==
    Typed /\ SortedInv /\ ~CodecMayBeLost /\ NoOrphanedSpeak /\ [Next]_vars
        => NoOrphanedSpeak'
<1> SUFFICES ASSUME Typed, SortedInv, ~CodecMayBeLost, NoOrphanedSpeak, [Next]_vars
             PROVE  NoOrphanedSpeak'
  OBVIOUS
<1>1. CASE UNCHANGED <<speak_queue, speaker, is_pending, deferred>>
  BY <1>1 DEF NoOrphanedSpeak
<1>2. CASE RequestSpeak
  BY <1>2 DEF RequestSpeak, RequestFrame, NoOrphanedSpeak
<1>3. CASE RequestStop
  <2>1. UNCHANGED <<speaker, is_pending, deferred>>
    BY <1>3 DEF RequestStop, RequestFrame
  <2>2. speak_queue = <<>> => speak_queue' = <<>>
    BY <1>3, TypedQueues, RemainderIsQueue DEF RequestStop
  <2> QED
    BY <2>1, <2>2 DEF NoOrphanedSpeak
<1>4. CASE StartDeferred
  <2>1. is_pending' = TRUE
    BY <1>4, Zenon DEF StartDeferred
  <2> QED
    BY <2>1, Zenon DEF NoOrphanedSpeak
<1>5. CASE ResponseSpeak
  <2>1. ReceivesAnswer("SPEAK")
    BY <1>5 DEF ResponseSpeak
  <2>2. Received \in Elements(fromEngine)
    BY <2>1, ReceivesMoves DEF ReceivesAnswer
  <2>3. Received.state = "IN-PROGRESS"
    BY <2>1, <2>2
       DEF ReceivesAnswer, Receives, SortedInv, AllSorted, SortedMessage
  <2>4. speaker' # NULL
    BY <1>5, <2>1, <2>3 DEF ResponseSpeak, ReceivesAnswer, Awaited
  <2> QED
    BY <2>4 DEF NoOrphanedSpeak
<1>6. CASE ResponseStop
  <2>1. CASE Crash
    BY <1>1, <2>1 DEF Crash
  <2>2. CASE ~Crash
    <3>1. PICK left \in Remainders(active_request) :
              \/ left = <<>> /\ speak_queue' = <<>> /\ UNCHANGED deferred
              \/ /\ left # <<>>
                 /\ speak_queue' = Tail(left)
                 /\ deferred' = Head(left)
      BY <1>6, <2>2, Zenon DEF ResponseStop, FollowsNull
    <3>2. left \in Seq(Request)
      BY TypedQueues, RemainderIsQueue
    <3>3. CASE left = <<>>
      BY <3>1, <3>3 DEF NoOrphanedSpeak
    <3>4. CASE left # <<>>
      <4>1. Head(left) \in Request
        BY <3>2, <3>4
      <4> QED
        BY <3>1, <3>4, <4>1, NullAssumption DEF NoOrphanedSpeak
    <3> QED
      BY <3>3, <3>4
  <2> QED
    BY <2>1, <2>2
<1>7. CASE ResponseBargeIn
  <2>1. CASE Crash
    BY <1>1, <2>1 DEF Crash
  <2>2. CASE ~Crash
    <3>1. speak_queue' \in Remainders(active_request)
      BY <1>7, <2>2, Zenon DEF ResponseBargeIn, FollowsNull
    <3>2. active_request.only = {}
      BY <1>7, AnswerUnlisted DEF ResponseBargeIn, SortedInv
    <3>3. speak_queue' = <<>>
      BY <3>1, <3>2, TypedQueues, RemainderIsQueue
    <3> QED
      BY <3>3 DEF NoOrphanedSpeak
  <2> QED
    BY <2>1, <2>2
<1>8. CASE EventSpeakComplete
  <2>1. CASE speak_queue = <<>>
    BY <1>8, <2>1 DEF EventSpeakComplete, StartPending, NoOrphanedSpeak
  <2>2. CASE speak_queue # <<>>
    <3>1. is_pending' = TRUE
      BY <1>8, <2>2, Zenon DEF EventSpeakComplete, StartPending
    <3> QED
      BY <3>1, Zenon DEF NoOrphanedSpeak
  <2> QED
    BY <2>1, <2>2
<1>9. \/ UNCHANGED <<speak_queue, speaker, is_pending, deferred>>
      \/ RequestSpeak \/ RequestStop \/ StartDeferred
      \/ ResponseSpeak \/ ResponseStop \/ ResponseBargeIn \/ EventSpeakComplete
  <2>1. CASE ServerStep
    BY <2>1 DEF ServerStep, ServerNext, Dispatch, FromEngine, RequestPause,
       RequestResume, RequestBargeIn, RequestControl, RequestDefineLexicon,
       RequestParams, RequestIf, RequestFrame, Deactivate, ResponseUnexpected,
       ResponsePause, ResponseResume, ResponseControl, ResponsePlain,
       ResponseOnSpeaker, FollowsNull, Crash, EventUnexpected, serverVars, machineVars
  <2>2. CASE ClientStep
    BY <2>2 DEF ClientStep, ClientNext, ClientRequest, ClientTerminate, machineVars
  <2>3. CASE PluginStep \/ MediaStep
    BY <2>3 DEF PluginStep, MediaStep, serverVars, machineVars
  <2>4. CASE UNCHANGED vars
    BY <2>4 DEF vars, serverVars, machineVars
  <2> QED
    BY <2>1, <2>2, <2>3, <2>4 DEF Next
<1> QED
  BY <1>1, <1>2, <1>3, <1>4, <1>5, <1>6, <1>7, <1>8, <1>9

(***************************************************************************)
(* As long as the engine refuses no SPEAK, a pending SPEAK always has a    *)
(* predecessor whose end will start it, or its turn has come.              *)
(***************************************************************************)
THEOREM PendingSpeakHasTurn ==
    ASSUME ~CodecMayBeLost
    PROVE  Spec => []NoOrphanedSpeak
<1>1. Init => NoOrphanedSpeak
  BY DEF Init, MachineInit, NoOrphanedSpeak
<1>2. Spec => []SortedInv
  BY SortedInit, SortedStep, ChannelIsTyped, PTL DEF Spec, Typed
<1>3. Typed /\ SortedInv /\ NoOrphanedSpeak /\ [Next]_vars => NoOrphanedSpeak'
  BY OrphanStep
<1> QED
  BY <1>1, <1>2, <1>3, ChannelIsTyped, PTL DEF Spec, Typed

-----------------------------------------------------------------------------
(***************************************************************************)
(* A synthesizer channel whose engine refuses no SPEAK implements          *)
(* SynthService, for any number of requests and every order in which the   *)
(* client, the server task and the two threads of the plugin move.         *)
(*                                                                         *)
(* What matters of a request is where it is: not dispatched yet (fresh),   *)
(* pending in the machine (waiting) or at the engine, whose answer is in   *)
(* the pipe.  No id is in two of these places, nor in one of them twice.   *)
(* All this is about the time before the session's end: afterwards the     *)
(* client is told nothing.                                                 *)
(***************************************************************************)

Answers == {message \in EngineMessage : message.kind = "response"}

Sent == 1 .. next_id - 1

FreshIds == IdsOf(request_queue, Request)
            \cup (IF dispatching THEN {in_progress.id} ELSE {})

WaitIds == IdsOf(speak_queue, Request)
           \cup (IF deferred # NULL THEN {deferred.id} ELSE {})

StopIds == IF stop_response # NULL /\ ~clearing THEN {stop_response.id} ELSE {}

PipeIds == IdsOf(toEngine, Request) \cup StopIds \cup IdsOf(fromEngine, Answers)

\* the client has heard nothing of the request
Fresh(request) ==
    IF request.method = "TERMINATE" THEN request.id = 0 /\ terminated
    ELSE /\ request.id \in Sent
         /\ answers[request.id] = 0
         /\ speech[request.id] = IF request.method = "SPEAK" THEN "asked" ELSE "none"

Waits(request) ==
    /\ request.id \in Sent
    /\ request.method = "SPEAK"
    /\ speech[request.id] = "PENDING"

\* a SPEAK is told from other requests by what the client knows of its id
Marked(message) ==
    /\ message.id \in Sent
    /\ (message.method = "SPEAK") <=> (speech[message.id] # "none")

FutureInv ==
    \A id \in Ids : id >= next_id => answers[id] = 0 /\ speech[id] = "none"

FreshInv ==
    /\ \A request \in Elements(request_queue) : Fresh(request)
    /\ dispatching => Fresh(in_progress)
    /\ DistinctIn(request_queue, Request)
    /\ dispatching => in_progress.id \notin IdsOf(request_queue, Request)

WaitInv ==
    /\ \A request \in Elements(speak_queue) : Waits(request)
    /\ deferred # NULL => Waits(deferred)
    /\ DistinctIn(speak_queue, Request)
    /\ deferred # NULL => deferred.id \notin IdsOf(speak_queue, Request)

MarkInv ==
    /\ \A request \in Elements(toEngine) : Marked(request)
    /\ stop_response # NULL /\ ~clearing => Marked(stop_response)
    /\ \A message \in Elements(fromEngine) \cap Answers : Marked(message)

DistinctInv ==
    /\ DistinctIn(toEngine, Request)
    /\ DistinctIn(fromEngine, Answers)
    /\ IdsOf(toEngine, Request) \cap IdsOf(fromEngine, Answers) = {}
    /\ StopIds \cap IdsOf(toEngine, Request) = {}
    /\ StopIds \cap IdsOf(fromEngine, Answers) = {}

ApartInv == PipeIds \cap FreshIds = {} /\ PipeIds \cap WaitIds = {}

\* the session waits for the answer, or the client has it already
Owed(id) ==
    \/ /\ in_progress # NULL /\ in_progress.id = id /\ ~dispatching
       /\ answers[id] = 0
       /\ speech[id] \in {"none", "asked"}
    \/ is_pending /\ speech[id] = "PENDING"

ActiveInv ==
    active_request # NULL /\ active_request.id \in PipeIds =>
        /\ Owed(active_request.id)
        /\ speech[active_request.id] # "none" => speaker = NULL

SpeakerInv ==
    /\ speaker # NULL => speaker.id \in Sent /\ speech[speaker.id] = "IN-PROGRESS"
    /\ \A id \in Ids :
          speech[id] = "IN-PROGRESS" => speaker # NULL /\ speaker.id = id

PlacesInv ==
    /\ FreshInv /\ WaitInv /\ MarkInv /\ DistinctInv /\ ApartInv
    /\ ActiveInv /\ SpeakerInv

ServiceInv == FutureInv /\ (sm_active => PlacesInv)

-----------------------------------------------------------------------------
(***************************************************************************)
(* What synth_pending_requests_remove takes out is not among what it       *)
(* leaves.                                                                 *)
(***************************************************************************)
LEMMA RemainderIds ==
    ASSUME speak_queue \in Seq(Request), NEW request,
           NEW left \in Remainders(request), DistinctIn(speak_queue, Request)
    PROVE  /\ DistinctIn(left, Request)
           /\ IdsOf(left, Request) \subseteq IdsOf(speak_queue, Request)
           /\ Removed(request) \subseteq IdsOf(speak_queue, Request)
           /\ Removed(request) \cap IdsOf(left, Request) = {}
<1>1. PICK kept \in SUBSET DOMAIN speak_queue : kept = Kept(request)
  BY DEF Kept
<1>2. PICK order \in Increasing(kept) : left = Rest(speak_queue, order)
  BY <1>1 DEF Remainders, Rest
<1> QED
  BY <1>1, <1>2, RestIds DEF Removed

-----------------------------------------------------------------------------
(* The engine: it passes ids on and makes up none.                         *)

PipeKept == PipeIds' \subseteq PipeIds /\ MarkInv' /\ DistinctInv'

LEMMA EngineTyped ==
    Typed => /\ toEngine \in Seq(Request) /\ fromEngine \in Seq(EngineMessage)
             /\ stop_response \in Request \cup {NULL}
             /\ Elements(toEngine) \subseteq Request
  BY SameMessages DEF Typed, TypeOK, MachineTypeOK, Engine!EngineTypeOK, Elements

LEMMA ResponseIsAnswer ==
    ASSUME NEW request \in Request, NEW state \in RequestStates
    PROVE  /\ Response(request, state) \in EngineMessage /\ Response(request, state) \in Answers
           /\ Response(request, state).id = request.id
           /\ Marked(request) => Marked(Response(request, state))
  BY MessageTypes DEF Response, Answers, Marked

\* a request is taken and answered
LEMMA AnsweredKeepsPipe ==
    ASSUME Typed, MarkInv, DistinctInv, UNCHANGED <<speech, next_id>>,
           NEW state \in RequestStates,
           toEngine # <<>>, toEngine' = Tail(toEngine),
           fromEngine' = Append(fromEngine, Response(Head(toEngine), state)),
           UNCHANGED <<stop_response, clearing>>
    PROVE  PipeKept
<1> DEFINE request == Head(toEngine)
           answer == Response(request, state)
<1>1. /\ request \in Request /\ request \in Elements(toEngine)
      /\ Elements(toEngine') \subseteq Elements(toEngine)
  BY EngineTyped, QueueElements
<1>2. /\ answer \in EngineMessage /\ answer \in Answers
      /\ answer.id = request.id
      /\ Marked(answer)
  BY <1>1, ResponseIsAnswer DEF MarkInv
<1>3. Elements(fromEngine') = Elements(fromEngine) \cup {answer}
  BY <1>2, EngineTyped, QueueElements
<1>4. /\ IdsOf(toEngine', Request) \subseteq IdsOf(toEngine, Request)
      /\ request.id \in IdsOf(toEngine, Request)
      /\ DistinctIn(toEngine', Request)
      /\ request.id \notin IdsOf(toEngine', Request)
  BY <1>1, EngineTyped, TailIds DEF DistinctInv
<1>5. request.id \notin IdsOf(fromEngine, Answers)
  BY <1>4 DEF DistinctInv
<1>6. /\ IdsOf(fromEngine', Answers) = IdsOf(fromEngine, Answers) \cup {request.id}
      /\ DistinctIn(fromEngine', Answers)
  BY <1>2, <1>5, EngineTyped, AppendIds DEF DistinctInv
<1>7. StopIds' = StopIds
  BY DEF StopIds
<1>8. MarkInv'
  BY <1>1, <1>2, <1>3 DEF MarkInv, Marked, Answers, EngineMessage, Sent
<1>9. DistinctInv'
  BY <1>4, <1>6, <1>7 DEF DistinctInv
<1> QED
  BY <1>4, <1>6, <1>7, <1>8, <1>9 DEF PipeKept, PipeIds

\* a request is taken and left to the media engine to answer
LEMMA StoredKeepsPipe ==
    ASSUME Typed, MarkInv, DistinctInv, UNCHANGED <<speech, next_id>>,
           toEngine # <<>>, toEngine' = Tail(toEngine),
           stop_response' = Head(toEngine),
           UNCHANGED <<fromEngine, clearing>>
    PROVE  PipeKept
<1> DEFINE request == Head(toEngine)
<1>1. /\ request \in Request /\ request \in Elements(toEngine)
      /\ Elements(toEngine') \subseteq Elements(toEngine)
  BY EngineTyped, QueueElements
<1>2. /\ IdsOf(toEngine', Request) \subseteq IdsOf(toEngine, Request)
      /\ request.id \in IdsOf(toEngine, Request)
      /\ DistinctIn(toEngine', Request)
      /\ request.id \notin IdsOf(toEngine', Request)
  BY <1>1, EngineTyped, TailIds DEF DistinctInv
<1>3. StopIds' \subseteq {request.id}
  BY DEF StopIds
<1>4. MarkInv'
  BY <1>1 DEF MarkInv, Marked, Answers, EngineMessage, Sent
<1>5. DistinctInv'
  BY <1>2, <1>3 DEF DistinctInv
<1> QED
  BY <1>2, <1>3, <1>4, <1>5 DEF PipeKept, PipeIds

\* a request that was stored is answered
LEMMA StopAnsweredKeepsPipe ==
    ASSUME Typed, MarkInv, DistinctInv, UNCHANGED <<speech, next_id>>,
           stop_response # NULL, ~clearing, stop_response' = NULL \/ clearing' = TRUE,
           fromEngine' = Append(fromEngine, Response(stop_response, "COMPLETE")),
           UNCHANGED toEngine
    PROVE  PipeKept
<1> DEFINE answer == Response(stop_response, "COMPLETE")
<1>1. stop_response \in Request /\ StopIds = {stop_response.id} /\ StopIds' = {}
  BY EngineTyped DEF StopIds
<1>2. /\ answer \in EngineMessage /\ answer \in Answers
      /\ answer.id = stop_response.id
      /\ Marked(answer)
  BY <1>1, ResponseIsAnswer DEF MarkInv, RequestStates
<1>3. Elements(fromEngine') = Elements(fromEngine) \cup {answer}
  BY <1>2, EngineTyped, QueueElements
<1>4. stop_response.id \notin IdsOf(fromEngine, Answers)
  BY <1>1 DEF DistinctInv
<1>5. /\ IdsOf(fromEngine', Answers) = IdsOf(fromEngine, Answers) \cup {stop_response.id}
      /\ DistinctIn(fromEngine', Answers)
  BY <1>2, <1>4, EngineTyped, AppendIds DEF DistinctInv
<1>6. MarkInv'
  BY <1>2, <1>3 DEF MarkInv, Marked, Answers, EngineMessage, Sent
<1>7. DistinctInv'
  BY <1>1, <1>5 DEF DistinctInv
<1> QED
  BY <1>1, <1>5, <1>6, <1>7 DEF PipeKept, PipeIds

\* the request that is stored is forgotten, an event may be sent, or nothing
LEMMA OthersKeepPipe ==
    ASSUME Typed, MarkInv, DistinctInv, UNCHANGED <<speech, next_id>>,
           UNCHANGED toEngine,
           \/ UNCHANGED fromEngine
           \/ \E request \in Request :
                 fromEngine' = Append(fromEngine, Event("SPEAK-COMPLETE", request)),
           \/ UNCHANGED <<stop_response, clearing>>
           \/ stop_response' = NULL
    PROVE  PipeKept
<1>1. /\ IdsOf(fromEngine', Answers) = IdsOf(fromEngine, Answers)
      /\ DistinctIn(fromEngine', Answers)
      /\ Elements(fromEngine') \cap Answers = Elements(fromEngine) \cap Answers
  <2>1. CASE UNCHANGED fromEngine
    BY <2>1 DEF DistinctInv
  <2>2. ASSUME NEW request \in Request,
               fromEngine' = Append(fromEngine, Event("SPEAK-COMPLETE", request))
        PROVE  /\ IdsOf(fromEngine', Answers) = IdsOf(fromEngine, Answers)
               /\ DistinctIn(fromEngine', Answers)
               /\ Elements(fromEngine') \cap Answers = Elements(fromEngine) \cap Answers
    <3>1. PICK event : event = Event("SPEAK-COMPLETE", request)
      OBVIOUS
    <3>2. event \in EngineMessage /\ event \notin Answers
      <4>1. "SPEAK-COMPLETE" \in EventNames
        BY DEF EventNames
      <4>2. event \in EngineMessage
        BY <3>1, <4>1, MessageTypes, Zenon
      <4>3. event.kind = "event"
        BY <3>1 DEF Event
      <4> QED
        BY <4>2, <4>3 DEF Answers
    <3>3. fromEngine \in Seq(EngineMessage) /\ fromEngine' = Append(fromEngine, event)
      BY <2>2, <3>1, EngineTyped
    <3>4. Elements(fromEngine') = Elements(fromEngine) \cup {event}
      BY <3>2, <3>3, QueueElements
    <3>5. /\ IdsOf(fromEngine', Answers) = IdsOf(fromEngine, Answers)
          /\ DistinctIn(fromEngine', Answers)
      <4>1. DistinctIn(fromEngine, Answers)
        BY DEF DistinctInv
      <4>2. /\ IdsOf(Append(fromEngine, event), Answers) = IdsOf(fromEngine, Answers) \cup {}
            /\ DistinctIn(Append(fromEngine, event), Answers)
        BY <3>2, <3>3, <4>1, AppendIds
      <4> QED
        BY <3>3, <4>2
    <3> QED
      BY <3>2, <3>4, <3>5
  <2> QED
    BY <2>1, <2>2
<1>2. StopIds' \subseteq StopIds
  BY DEF StopIds
<1>3. MarkInv'
  BY <1>1 DEF MarkInv, Marked, Answers, EngineMessage, Sent
<1>4. DistinctInv'
  BY <1>1, <1>2 DEF DistinctInv
<1> QED
  BY <1>1, <1>2, <1>3, <1>4 DEF PipeKept, PipeIds

LEMMA EngineKeepsPipe ==
    ASSUME Typed, EngineSpeaks, MarkInv, DistinctInv, PluginStep \/ MediaStep
    PROVE  PipeKept
<1> USE SameMessages, EngineTyped DEF RequestStates
<1>1. UNCHANGED <<speech, next_id>>
  BY DEF PluginStep, MediaStep, serverVars, clientVars
<1>2. ASSUME NEW methods, Engine!Takes(methods), NEW state \in RequestStates,
             fromEngine' = Append(fromEngine, Response(Head(toEngine), state)),
             UNCHANGED <<stop_response, clearing>>
      PROVE  PipeKept
  BY <1>1, <1>2, AnsweredKeepsPipe DEF Engine!Takes
<1>3. CASE Engine!SpeakAccepted
  BY <1>2, <1>3 DEF Engine!SpeakAccepted, Engine!SendToServer
<1>4. CASE Engine!SpeakStored
  BY <1>1, <1>4, OthersKeepPipe DEF Engine!SpeakStored
<1>5. CASE Engine!SpeakRefused
  BY <1>2, <1>5 DEF Engine!SpeakRefused, Engine!SendToServer
<1>6. CASE Engine!StopStored
  BY <1>1, <1>6, StoredKeepsPipe DEF Engine!StopStored, Engine!Takes
<1>7. CASE Engine!PauseOrResume
  BY <1>2, <1>7 DEF Engine!PauseOrResume, Engine!SendToServer
<1>8. CASE Engine!OtherAnswered
  BY <1>2, <1>8 DEF Engine!OtherAnswered, Engine!SendToServer
<1>9. CASE Engine!StopAnswered
  <2>1. /\ stop_response # NULL /\ ~clearing /\ UNCHANGED toEngine
        /\ fromEngine' = Append(fromEngine, Response(stop_response, "COMPLETE"))
    BY <1>9 DEF Engine!StopAnswered, Engine!ReadStarts, Engine!SendToServer
  <2>2. clearing' = TRUE
    BY <1>9, Zenon DEF Engine!StopAnswered
  <2> QED
    BY <1>1, <2>1, <2>2, StopAnsweredKeepsPipe
<1>10. CASE Engine!StopCleared
  BY <1>1, <1>10, OthersKeepPipe DEF Engine!StopCleared
<1>13. CASE Engine!SpeechEnds
  BY <1>1, <1>13, OthersKeepPipe DEF Engine!SpeechEnds
<1>14. CASE Engine!SpeechCleared
  <2>1. ending \in Request
    BY <1>14 DEF Typed, TypeOK, Engine!EngineTypeOK, Engine!SpeechCleared
  <2>2. fromEngine' = Append(fromEngine, Event("SPEAK-COMPLETE", ending))
    BY <1>14 DEF Engine!SpeechCleared, Engine!SendToServer
  <2>3. UNCHANGED <<toEngine, stop_response, clearing>>
    BY <1>14 DEF Engine!SpeechCleared
  <2> QED
    BY <1>1, <2>1, <2>2, <2>3, OthersKeepPipe
<1> QED
  BY <1>3, <1>4, <1>5, <1>6, <1>7, <1>8, <1>9, <1>10, <1>13, <1>14
     DEF PluginStep, MediaStep, Engine!PluginNext, Engine!MediaNext

LEMMA EngineService ==
    ASSUME Typed, EngineSpeaks, ServiceInv, PluginStep \/ MediaStep
    PROVE  ServiceInv' /\ UNCHANGED <<answers, speech>>
<1>1. UNCHANGED <<in_progress, request_queue, dispatching, sm_active, active_request,
                  speaker, speak_queue, is_pending, deferred,
                  next_id, terminated, answers, speech>>
  BY DEF PluginStep, MediaStep, serverVars, sessionVars, machineVars, clientVars
<1>2. FutureInv'
  BY <1>1 DEF ServiceInv, FutureInv
<1>3. ASSUME sm_active PROVE PlacesInv'
  <2>1. PlacesInv
    BY <1>3 DEF ServiceInv
  <2>2. PipeIds' \subseteq PipeIds /\ MarkInv' /\ DistinctInv'
    BY <2>1, EngineKeepsPipe DEF PlacesInv, PipeKept
  <2>3. FreshInv' /\ FreshIds' = FreshIds
    BY <1>1, <2>1 DEF PlacesInv, FreshInv, FreshIds, Fresh, Sent
  <2>4. WaitInv' /\ WaitIds' = WaitIds
    BY <1>1, <2>1 DEF PlacesInv, WaitInv, WaitIds, Waits, Sent
  <2>5. ApartInv'
    BY <2>1, <2>2, <2>3, <2>4 DEF PlacesInv, ApartInv
  <2>6. ActiveInv'
    BY <1>1, <2>1, <2>2 DEF PlacesInv, ActiveInv, Owed
  <2>7. SpeakerInv'
    BY <1>1, <2>1 DEF PlacesInv, SpeakerInv, Sent
  <2> QED
    BY <2>2, <2>3, <2>4, <2>5, <2>6, <2>7 DEF PlacesInv
<1> QED
  BY <1>1, <1>2, <1>3 DEF ServiceInv

-----------------------------------------------------------------------------
(* The client.                                                             *)

LEMMA SentFacts ==
    Typed => /\ next_id \in Nat \ {0} /\ Sent \subseteq Ids
             /\ next_id' = next_id => Sent' = Sent
             /\ next_id' = next_id + 1 => Sent' = Sent \cup {next_id}
<1> SUFFICES ASSUME Typed
             PROVE  /\ next_id \in Nat \ {0} /\ Sent \subseteq Ids
                    /\ next_id' = next_id => Sent' = Sent
                    /\ next_id' = next_id + 1 => Sent' = Sent \cup {next_id}
  OBVIOUS
<1>1. next_id \in 1 .. MaxRequests + 1
  BY DEF Typed, TypeOK, MachineTypeOK, SessionTypeOK
<1> QED
  BY <1>1, MessageAssumption DEF Sent, Ids

\* where the ids of the places come from
LEMMA PlacesAreSent ==
    ASSUME Typed, PlacesInv
    PROVE  /\ FreshIds \subseteq Sent \cup {0}
           /\ WaitIds \subseteq Sent
           /\ PipeIds \subseteq Sent
<1>1. FreshIds \subseteq Sent \cup {0}
  BY DEF PlacesInv, FreshInv, FreshIds, Fresh, IdsOf
<1>2. WaitIds \subseteq Sent
  BY DEF PlacesInv, WaitInv, WaitIds, Waits, IdsOf
<1>3. PipeIds \subseteq Sent
  <2>1. IdsOf(toEngine, Request) \subseteq Sent
    BY DEF PlacesInv, MarkInv, Marked, IdsOf
  <2>2. StopIds \subseteq Sent
    BY DEF PlacesInv, MarkInv, Marked, StopIds
  <2>3. IdsOf(fromEngine, Answers) \subseteq Sent
    BY DEF PlacesInv, MarkInv, Marked, IdsOf
  <2> QED
    BY <2>1, <2>2, <2>3 DEF PipeIds
<1> QED
  BY <1>1, <1>2, <1>3

\* a new request joins the fresh ones
LEMMA ArriveFresh ==
    ASSUME Typed, FreshInv, NEW request \in Request, Enqueue(request), ~dispatching,
           Fresh(request)', request.id \notin IdsOf(request_queue, Request),
           \A r \in Elements(request_queue) : Fresh(r)'
    PROVE  FreshInv' /\ FreshIds' \subseteq FreshIds \cup {request.id}
<1>1. request_queue \in Seq(Request)
  BY TypedQueues
<1>2. CASE /\ request_queue' = Append(request_queue, request)
           /\ UNCHANGED <<in_progress, dispatching>>
  <2>1. Elements(request_queue') = Elements(request_queue) \cup {request}
    BY <1>1, <1>2, QueueElements
  <2>2. /\ IdsOf(request_queue', Request) = IdsOf(request_queue, Request) \cup {request.id}
        /\ DistinctIn(request_queue', Request)
    BY <1>1, <1>2, AppendIds DEF FreshInv
  <2> QED
    BY <1>2, <2>1, <2>2 DEF FreshInv, FreshIds
<1>3. CASE /\ in_progress' = request /\ dispatching' = TRUE /\ UNCHANGED request_queue
  BY <1>3 DEF FreshInv, FreshIds
<1> QED
  BY <1>2, <1>3, Zenon DEF Enqueue

LEMMA ClientService ==
    ASSUME Typed, ServiceInv, ClientStep
    PROVE  ServiceInv' /\ [Service!ServiceNext]_<<answers, speech>>
<1>1. UNCHANGED <<machineVars, queueVars, channelVars>>
  BY DEF ClientStep, ClientNext, ClientRequest, ClientTerminate
<1>2. UNCHANGED <<active_request, speaker, speak_queue, is_pending, deferred, sm_active,
                  toEngine, fromEngine, stop_response, clearing>>
  BY <1>1 DEF machineVars, queueVars, channelVars
<1>3. UNCHANGED answers
  BY DEF ClientStep, ClientNext, ClientRequest, ClientTerminate, ArriveRequest,
         ArriveTerminate, Arrive
<1>4. PICK request \in Request :
          /\ Enqueue(request) /\ ~dispatching
          /\ \/ /\ request = TerminateRequest
                /\ ~terminated /\ terminated' = TRUE
                /\ next_id' = next_id /\ speech' = speech
             \/ /\ request.id = next_id /\ request.method # "TERMINATE"
                /\ next_id \in Ids
                /\ terminated' = terminated /\ next_id' = next_id + 1
                /\ speech' = IF request.method = "SPEAK"
                             THEN [speech EXCEPT ![next_id] = "asked"] ELSE speech
  <2>1. CASE ClientTerminate
    BY <2>1, MessageTypes DEF ClientTerminate, ArriveTerminate, Arrive, Waiting
  <2>2. ASSUME NEW method \in Methods, NEW only \in Selections, NEW flag \in BOOLEAN,
               ClientRequest(method, only, flag)
        PROVE  /\ NewRequest(method, only, flag) \in Request
               /\ Enqueue(NewRequest(method, only, flag)) /\ ~dispatching
               /\ NewRequest(method, only, flag).id = next_id
               /\ NewRequest(method, only, flag).method = method
               /\ method # "TERMINATE"
               /\ next_id \in Ids
               /\ terminated' = terminated /\ next_id' = next_id + 1
               /\ speech' = IF method = "SPEAK"
                            THEN [speech EXCEPT ![next_id] = "asked"] ELSE speech
    <3>1. NewRequest(method, only, flag) \in Request
      BY MessageAssumption
         DEF NewRequest, Request, Selections, Typed, TypeOK, MachineTypeOK, SessionTypeOK
    <3>2. method # "TERMINATE"
      BY MessageAssumption
    <3>3. next_id \in Ids
      BY <2>2, SentFacts, MessageAssumption DEF ClientRequest, ArriveRequest, Ids
    <3> QED
      BY <2>2, <3>1, <3>2, <3>3
         DEF ClientRequest, ArriveRequest, Arrive, NewRequest, Waiting
  <2> QED
    BY <2>1, <2>2 DEF ClientStep, ClientNext
<1>5. /\ next_id \in Nat \ {0} /\ Sent \subseteq Ids /\ Sent \subseteq Sent'
      /\ request.method # "TERMINATE" => Sent' = Sent \cup {next_id}
      /\ next_id \notin Sent
  BY <1>4, SentFacts DEF Sent, TerminateRequest
<1>6. /\ speech \in [Ids -> {"none", "asked"} \cup RequestStates]
      /\ \A id \in Ids : id # next_id => speech'[id] = speech[id]
      /\ \A id \in Sent : speech'[id] = speech[id] /\ answers'[id] = answers[id]
  BY <1>3, <1>4, <1>5 DEF Typed, TypeOK, MachineTypeOK
<1>7. FutureInv'
  <2>1. ASSUME NEW id \in Ids, id >= next_id'
        PROVE  answers'[id] = 0 /\ speech'[id] = "none"
    <3>1. next_id' \in {next_id, next_id + 1} /\ id \in Nat
      BY <1>4, MessageAssumption DEF Ids
    <3>2. id >= next_id
      BY <1>5, <2>1, <3>1
    <3>3. id = next_id => request = TerminateRequest
      BY <1>4, <1>5, <2>1, <3>1
    <3>4. speech'[id] = speech[id]
      BY <1>4, <1>6, <3>3 DEF TerminateRequest
    <3> QED
      BY <1>3, <3>2, <3>4 DEF ServiceInv, FutureInv
  <2> QED
    BY <2>1 DEF FutureInv
<1>8. ASSUME sm_active PROVE PlacesInv'
  <2>1. PlacesInv
    BY <1>8 DEF ServiceInv
  <2>2. \A r : Fresh(r) => Fresh(r)'
    BY <1>4, <1>5, <1>6 DEF Fresh
  <2>3. Fresh(request)'
    <3>1. CASE request = TerminateRequest
      BY <1>4, <3>1, MessageTypes DEF Fresh, TerminateRequest
    <3>2. CASE request # TerminateRequest
      <4>1. answers[next_id] = 0 /\ speech[next_id] = "none"
        BY <1>4, <1>5, <3>2 DEF ServiceInv, FutureInv
      <4>2. speech'[next_id] = IF request.method = "SPEAK" THEN "asked" ELSE "none"
        BY <1>4, <1>6, <3>2, <4>1
      <4> QED
        BY <1>3, <1>4, <1>5, <3>2, <4>1, <4>2 DEF Fresh
    <3> QED
      BY <3>1, <3>2
  <2>4. request.id \notin IdsOf(request_queue, Request)
    <3>1. CASE request = TerminateRequest
      <4>1. \A r \in Elements(request_queue) : r.id # 0
        BY <1>4, <1>5, <2>1, <3>1, MessageTypes
           DEF PlacesInv, FreshInv, Fresh, TerminateRequest, Sent
      <4> QED
        BY <3>1, <4>1 DEF IdsOf, TerminateRequest
    <3>2. CASE request # TerminateRequest
      <4>1. IdsOf(request_queue, Request) \subseteq Sent \cup {0}
        BY <2>1, PlacesAreSent DEF FreshIds
      <4> QED
        BY <1>4, <1>5, <3>2, <4>1
    <3> QED
      BY <3>1, <3>2
  <2>5. FreshInv' /\ FreshIds' \subseteq FreshIds \cup {request.id}
    BY <1>4, <2>1, <2>2, <2>3, <2>4, ArriveFresh DEF PlacesInv, FreshInv
  <2>6. request.id \notin Sent
    BY <1>4, <1>5 DEF TerminateRequest, Sent
  <2>7. WaitInv' /\ WaitIds' = WaitIds
    BY <1>2, <1>5, <1>6, <2>1 DEF PlacesInv, WaitInv, WaitIds, Waits
  <2>8. MarkInv' /\ DistinctInv' /\ PipeIds' = PipeIds
    <3>1. PipeIds' = PipeIds /\ DistinctInv'
      BY <1>2, <2>1 DEF PlacesInv, PipeIds, StopIds, DistinctInv
    <3>2. MarkInv'
      BY <1>2, <1>5, <1>6, <2>1 DEF PlacesInv, MarkInv, Marked
    <3> QED
      BY <3>1, <3>2
  <2>9. ApartInv'
    BY <2>1, <2>5, <2>6, <2>7, <2>8, PlacesAreSent DEF PlacesInv, ApartInv
  <2>10. ActiveInv'
    <3>1. ASSUME active_request # NULL, active_request.id \in PipeIds
          PROVE  /\ Owed(active_request.id)'
                 /\ speech'[active_request.id] # "none" => speaker = NULL
      <4>1. active_request.id \in Sent
        BY <2>1, <3>1, PlacesAreSent
      <4>2. /\ Owed(active_request.id)
            /\ speech[active_request.id] # "none" => speaker = NULL
        BY <2>1, <3>1 DEF PlacesInv, ActiveInv
      <4>3. in_progress # NULL => UNCHANGED <<in_progress, dispatching>>
        BY <1>4, Zenon DEF Enqueue
      <4> QED
        BY <1>2, <1>6, <4>1, <4>2, <4>3 DEF Owed
    <3> QED
      BY <1>2, <2>8, <3>1 DEF ActiveInv
  <2>11. SpeakerInv'
    <3>1. speaker # NULL => speaker.id \in Sent' /\ speech'[speaker.id] = "IN-PROGRESS"
      BY <1>5, <1>6, <2>1 DEF PlacesInv, SpeakerInv
    <3>2. ASSUME NEW id \in Ids, speech'[id] = "IN-PROGRESS"
          PROVE  speaker # NULL /\ speaker.id = id
      <4>1. speech[id] = "IN-PROGRESS"
        BY <1>4, <1>6, <3>2
      <4> QED
        BY <2>1, <4>1 DEF PlacesInv, SpeakerInv
    <3> QED
      BY <1>2, <3>1, <3>2 DEF SpeakerInv
  <2> QED
    BY <2>5, <2>7, <2>8, <2>9, <2>10, <2>11 DEF PlacesInv
<1>9. [Service!ServiceNext]_<<answers, speech>>
  <2>1. CASE speech' = speech
    BY <1>3, <2>1
  <2>2. CASE speech' # speech
    <3>1. /\ next_id \in Ids
          /\ speech' = [speech EXCEPT ![next_id] = "asked"]
          /\ answers[next_id] = 0 /\ speech[next_id] = "none"
      BY <1>4, <1>5, <2>2 DEF ServiceInv, FutureInv
    <3>2. Service!Ask(next_id)
      BY <1>3, <3>1 DEF Service!Ask
    <3> QED
      BY <3>1, <3>2 DEF Service!ServiceNext
  <2> QED
    BY <2>1, <2>2
<1> QED
  BY <1>2, <1>7, <1>8, <1>9 DEF ServiceInv

-----------------------------------------------------------------------------
(* The server task, after the machine was deactivated.                     *)

LEMMA InactiveService ==
    ASSUME Typed, ServiceInv, ~sm_active, ServerStep
    PROVE  ServiceInv' /\ UNCHANGED <<answers, speech>>
<1>1. ASSUME NEW response, NEW stopped, Respond(response, stopped)
      PROVE  UNCHANGED <<answers, speech>>
  BY <1>1 DEF Respond, ReportDeactivation
<1>2. /\ next_id' = next_id
      /\ ~sm_active'
      /\ UNCHANGED <<answers, speech>>
  <2>1. CASE Dispatch
    <3>1. UNCHANGED next_id /\ ~sm_active'
      BY <2>1 DEF Dispatch, RequestSpeak, RequestStop, RequestPause, RequestResume,
         RequestBargeIn, RequestControl, RequestDefineLexicon, RequestParams, RequestIf,
         RequestFrame, Deactivate, StartDeferred, clientVars
    <3>2. UNCHANGED <<answers, speech>>
      BY <1>1, <2>1 DEF Dispatch, RequestSpeak, RequestStop, RequestPause, RequestResume,
         RequestBargeIn, RequestControl, RequestDefineLexicon, RequestParams, RequestIf,
         Forward, AnswerAtOnce, Deactivate, DeactivateSession, StartDeferred, clientVars
    <3> QED
      BY <3>1, <3>2
  <2>2. CASE FromEngine
    <3>1. UNCHANGED next_id /\ ~sm_active'
      BY <2>2 DEF FromEngine, ResponseUnexpected, ResponseSpeak, ResponseStop,
         ResponseBargeIn, ResponsePause, ResponseResume, ResponseControl, ResponsePlain,
         ResponseOnSpeaker, FollowsNull, StopSpeaking, ResponseFrame, Crash,
         EventSpeakComplete, EventUnexpected, serverVars, machineVars, clientVars
    <3>2. UNCHANGED <<answers, speech>>
      BY <1>1, <2>2 DEF FromEngine, ResponseUnexpected, ResponseSpeak, ResponseStop,
         ResponseBargeIn, ResponsePause, ResponseResume, ResponseControl, ResponsePlain,
         ResponseOnSpeaker, FollowsNull, StopSpeaking, AnswerSpeak, SendEvent, Crash,
         EventSpeakComplete, EventUnexpected, clientVars
    <3> QED
      BY <3>1, <3>2
  <2> QED
    BY <2>1, <2>2 DEF ServerStep, ServerNext
<1>3. FutureInv'
  BY <1>2 DEF ServiceInv, FutureInv
<1> QED
  BY <1>2, <1>3 DEF ServiceInv

-----------------------------------------------------------------------------
(* The server task before that: what its steps share.                      *)

\* which ids are SPEAKs is not forgotten
KeepsMarks ==
    next_id' = next_id /\ \A id \in Sent : (speech'[id] = "none") <=> (speech[id] = "none")

FromShrinks ==
    /\ Elements(fromEngine') \subseteq Elements(fromEngine)
    /\ IdsOf(fromEngine', Answers) \subseteq IdsOf(fromEngine, Answers)
    /\ DistinctIn(fromEngine', Answers)

LEMMA MarksKept ==
    ASSUME Typed, KeepsMarks, NEW message, Marked(message)
    PROVE  Marked(message)'
  BY SentFacts DEF KeepsMarks, Marked

LEMMA ReceivesShrinks ==
    ASSUME Typed, DistinctInv, NEW kind, Receives(kind)
    PROVE  /\ FromShrinks
           /\ kind = "response" =>
                 /\ Received \in Elements(fromEngine) \cap Answers
                 /\ Received.id \in IdsOf(fromEngine, Answers)
                 /\ Received.id \notin IdsOf(fromEngine', Answers)
<1>1. /\ fromEngine \in Seq(EngineMessage) /\ fromEngine # <<>>
      /\ fromEngine' = Tail(fromEngine) /\ Received = Head(fromEngine)
      /\ Received \in EngineMessage /\ Received.kind = kind
  BY TypedQueues, ReceivesTypes DEF Receives, Received
<1>2. FromShrinks
  BY <1>1, TailIds, QueueElements DEF FromShrinks, DistinctInv
<1>3. ASSUME kind = "response"
      PROVE  /\ Received \in Elements(fromEngine) \cap Answers
             /\ Received.id \in IdsOf(fromEngine, Answers)
             /\ Received.id \notin IdsOf(fromEngine', Answers)
  <2>1. Received \in Answers
    BY <1>1, <1>3 DEF Answers
  <2> QED
    BY <1>1, <2>1, TailIds, QueueElements DEF DistinctInv
<1> QED
  BY <1>2, <1>3

LEMMA ReceivesPipe ==
    ASSUME Typed, MarkInv, DistinctInv, KeepsMarks, FromShrinks,
           UNCHANGED <<toEngine, stop_response, clearing>>
    PROVE  PipeKept
<1>1. StopIds' = StopIds
  BY DEF StopIds
<1>2. PipeIds' \subseteq PipeIds /\ DistinctInv'
  BY <1>1 DEF FromShrinks, PipeIds, DistinctInv
<1>3. MarkInv'
  BY MarksKept DEF FromShrinks, MarkInv
<1> QED
  BY <1>2, <1>3 DEF PipeKept

\* the answer that is taken from the pipe was there once
LEMMA AnswerLeavesPipe ==
    ASSUME Typed, MarkInv, DistinctInv, KeepsMarks, Receives("response"),
           UNCHANGED <<toEngine, stop_response, clearing>>
    PROVE  /\ PipeKept
           /\ Received.id \in PipeIds \ PipeIds'
           /\ Marked(Received)
<1>1. /\ FromShrinks
      /\ Received \in Elements(fromEngine) \cap Answers
      /\ Received.id \in IdsOf(fromEngine, Answers)
      /\ Received.id \notin IdsOf(fromEngine', Answers)
  BY ReceivesShrinks
<1>2. PipeKept
  BY <1>1, ReceivesPipe
<1>3. Received.id \in PipeIds
  BY <1>1 DEF PipeIds
<1>4. Received.id \notin PipeIds'
  <2>1. StopIds' = StopIds
    BY DEF StopIds
  <2>2. /\ Received.id \notin StopIds
        /\ Received.id \notin IdsOf(toEngine, Request)
    BY <1>1 DEF DistinctInv
  <2> QED
    BY <1>1, <2>1, <2>2 DEF PipeIds
<1> QED
  BY <1>1, <1>2, <1>3, <1>4 DEF MarkInv

LEMMA SendPipe ==
    ASSUME Typed, MarkInv, DistinctInv, KeepsMarks, FromShrinks,
           NEW request \in Request, Marked(request), request.id \notin PipeIds,
           toEngine' = Append(toEngine, request), UNCHANGED <<stop_response, clearing>>
    PROVE  /\ MarkInv' /\ DistinctInv'
           /\ PipeIds' \subseteq PipeIds \cup {request.id}
<1>1. StopIds' = StopIds
  BY DEF StopIds
<1>2. Elements(toEngine') = Elements(toEngine) \cup {request}
  BY TypedQueues, QueueElements
<1>3. /\ IdsOf(toEngine', Request) = IdsOf(toEngine, Request) \cup {request.id}
      /\ DistinctIn(toEngine', Request)
  <2>1. request.id \notin IdsOf(toEngine, Request) /\ DistinctIn(toEngine, Request)
    BY DEF PipeIds, DistinctInv
  <2> QED
    BY <2>1, TypedQueues, AppendIds
<1>4. MarkInv'
  BY <1>2, MarksKept DEF FromShrinks, MarkInv
<1>5. DistinctInv'
  BY <1>1, <1>3 DEF FromShrinks, DistinctInv, PipeIds
<1>6. PipeIds' \subseteq PipeIds \cup {request.id}
  BY <1>1, <1>3 DEF FromShrinks, PipeIds
<1> QED
  BY <1>4, <1>5, <1>6

Hears(told) ==
    \A id \in Ids \ told : answers'[id] = answers[id] /\ speech'[id] = speech[id]

LEMMA FreshStays ==
    ASSUME Typed, NEW told, Hears(told), UNCHANGED <<next_id, terminated>>,
           NEW request, Fresh(request), request.id \notin told
    PROVE  Fresh(request)'
<1>1. Sent' = Sent /\ Sent \subseteq Ids
  BY SentFacts
<1> QED
  BY <1>1 DEF Fresh, Hears

LEMMA WaitStays ==
    ASSUME Typed, NEW told, Hears(told), next_id' = next_id,
           NEW request, Waits(request), request.id \notin told
    PROVE  Waits(request)'
<1>1. Sent' = Sent /\ Sent \subseteq Ids
  BY SentFacts
<1> QED
  BY <1>1 DEF Waits, Hears

\* the answer pops the next request; it was not told about
LEMMA PopFresh ==
    ASSUME Typed, FreshInv, PopRequest, UNCHANGED <<next_id, terminated>>,
           NEW told, Hears(told), told \cap IdsOf(request_queue, Request) = {}
    PROVE  FreshInv' /\ FreshIds' \subseteq IdsOf(request_queue, Request)
<1>1. request_queue \in Seq(Request) /\ Elements(request_queue) \subseteq Request
  BY TypedQueues DEF Elements
<1>2. \A request \in Elements(request_queue) : Fresh(request)'
  BY <1>1, FreshStays DEF FreshInv, IdsOf
<1>3. CASE request_queue = <<>>
  <2>1. dispatching' = FALSE /\ request_queue' = request_queue
    BY <1>3, Zenon DEF PopRequest
  <2> QED
    BY <1>2, <2>1 DEF FreshInv, FreshIds
<1>4. CASE request_queue # <<>>
  <2>1. /\ dispatching' = TRUE
        /\ in_progress' = Head(request_queue) /\ request_queue' = Tail(request_queue)
    BY <1>4, Zenon DEF PopRequest
  <2>2. /\ Head(request_queue) \in Elements(request_queue)
        /\ Elements(request_queue') \subseteq Elements(request_queue)
    BY <1>1, <1>4, <2>1, QueueElements
  <2>3. /\ IdsOf(request_queue', Request) \subseteq IdsOf(request_queue, Request)
        /\ Head(request_queue).id \in IdsOf(request_queue, Request)
        /\ DistinctIn(request_queue', Request)
        /\ Head(request_queue).id \notin IdsOf(request_queue', Request)
    BY <1>1, <1>4, <2>1, <2>2, TailIds DEF FreshInv
  <2> QED
    BY <1>2, <2>1, <2>2, <2>3 DEF FreshInv, FreshIds
<1> QED
  BY <1>3, <1>4

\* what an answer does for the client
LEMMA RespondTold ==
    ASSUME Typed, sm_active, NEW response \in EngineMessage, NEW stopped,
           Respond(response, stopped), UNCHANGED <<next_id, terminated>>,
           response.id \in Sent, \A id \in stopped : speech[id] # "none",
           response.method = "SPEAK" => speech[response.id] # "none"
    PROVE  /\ PopRequest /\ active_request' = NULL
           /\ answers' = [answers EXCEPT ![response.id] = answers[response.id] + 1]
           /\ \A id \in Ids :
                 speech'[id] = IF id \in stopped THEN "COMPLETE"
                               ELSE IF id = response.id /\ response.method = "SPEAK"
                                    THEN response.state ELSE speech[id]
           /\ speech' \in [Ids -> {"none", "asked"} \cup RequestStates]
           /\ Hears(stopped \cup {response.id})
           /\ KeepsMarks
<1>1. SendResponse(response) /\ TellClient(response, stopped) /\ active_request' = NULL
  BY Zenon DEF Respond
<1>2. /\ PopRequest
      /\ answers' = [answers EXCEPT ![response.id] = answers[response.id] + 1]
  BY <1>1 DEF SendResponse
<1>3. /\ \A id \in Ids :
            speech'[id] = IF id \in stopped THEN "COMPLETE"
                          ELSE IF id = response.id /\ response.method = "SPEAK"
                               THEN response.state ELSE speech[id]
  BY <1>1 DEF TellClient
<1>4. answers \in [Ids -> Nat] /\ response.state \in RequestStates
  BY DEF Typed, TypeOK, MachineTypeOK, SessionTypeOK, EngineMessage
<1>5. Hears(stopped \cup {response.id})
  BY <1>2, <1>3, <1>4 DEF Hears
<1>6. \A id \in Sent : (speech'[id] = "none") <=> (speech[id] = "none")
  BY <1>3, <1>4, SentFacts DEF RequestStates
<1>7. speech' \in [Ids -> {"none", "asked"} \cup RequestStates]
  BY RespondTypes DEF Typed, TypeOK, MachineTypeOK, SpeechTypeOK
<1> QED
  BY <1>1, <1>2, <1>3, <1>5, <1>6, <1>7 DEF KeepsMarks

-----------------------------------------------------------------------------
(* Requests that are sent to the engine.                                   *)

Forwards ==
    /\ dispatching /\ Forward /\ RequestFrame /\ UNCHANGED <<speak_queue, channelVars>>
    /\ in_progress.method # "TERMINATE"
    /\ in_progress.method = "SPEAK" => speaker = NULL

LEMMA ForwardService ==
    ASSUME Typed, PlacesInv, Forwards
    PROVE  PlacesInv' /\ UNCHANGED <<answers, speech, next_id>>
<1>1. /\ toEngine' = Append(toEngine, in_progress) /\ active_request' = in_progress
      /\ ~dispatching'
      /\ UNCHANGED <<in_progress, request_queue, answers, speech, speak_queue, sm_active,
                     speaker, is_pending, deferred, fromEngine, next_id, terminated,
                     stop_response, clearing>>
  BY DEF Forwards, Forward, SendToEngine, RequestFrame, channelVars
<1>2. /\ in_progress \in Request /\ in_progress # NULL
      /\ Fresh(in_progress) /\ in_progress.id \in FreshIds
  BY NullAssumption DEF Forwards, Typed, DispatchesRequest, PlacesInv, FreshInv, FreshIds
<1>3. /\ in_progress.id \in Sent /\ answers[in_progress.id] = 0
      /\ speech[in_progress.id] = IF in_progress.method = "SPEAK" THEN "asked" ELSE "none"
  BY <1>2 DEF Forwards, Fresh
<1>4. Marked(in_progress)
  BY <1>3 DEF Marked
<1>5. KeepsMarks /\ FromShrinks
  BY <1>1 DEF KeepsMarks, FromShrinks, PlacesInv, DistinctInv
<1>6. MarkInv' /\ DistinctInv' /\ PipeIds' \subseteq PipeIds \cup {in_progress.id}
  <2>1. in_progress.id \notin PipeIds
    BY <1>2 DEF PlacesInv, ApartInv
  <2>2. MarkInv /\ DistinctInv
    BY DEF PlacesInv
  <2> QED
    BY <1>1, <1>2, <1>4, <1>5, <2>1, <2>2, SendPipe
<1>7. FreshInv' /\ FreshIds' \subseteq FreshIds \ {in_progress.id}
  <2>1. \A request : Fresh(request) => Fresh(request)'
    BY <1>1 DEF Fresh, Sent
  <2>2. FreshInv'
    BY <1>1, <2>1 DEF PlacesInv, FreshInv
  <2>3. FreshIds' = IdsOf(request_queue, Request)
    BY <1>1 DEF FreshIds
  <2>4. in_progress.id \notin IdsOf(request_queue, Request)
    BY DEF Forwards, PlacesInv, FreshInv
  <2> QED
    BY <2>2, <2>3, <2>4 DEF FreshIds
<1>8. WaitInv' /\ WaitIds' = WaitIds /\ in_progress.id \notin WaitIds
  <2>1. WaitInv' /\ WaitIds' = WaitIds
    BY <1>1 DEF PlacesInv, WaitInv, WaitIds, Waits, Sent
  <2>2. \A id \in WaitIds : speech[id] = "PENDING"
    BY DEF PlacesInv, WaitInv, WaitIds, Waits, IdsOf
  <2> QED
    BY <1>3, <2>1, <2>2
<1>9. ApartInv'
  BY <1>6, <1>7, <1>8 DEF PlacesInv, ApartInv
<1>10. ActiveInv'
  <2>1. Owed(in_progress.id)'
    BY <1>1, <1>2, <1>3 DEF Owed
  <2>2. speech[in_progress.id] # "none" => speaker = NULL
    BY <1>3 DEF Forwards
  <2> QED
    BY <1>1, <2>1, <2>2 DEF ActiveInv
<1>11. SpeakerInv'
  BY <1>1 DEF PlacesInv, SpeakerInv, Sent
<1> QED
  BY <1>1, <1>6, <1>7, <1>8, <1>9, <1>10, <1>11 DEF PlacesInv

-----------------------------------------------------------------------------
(* Requests that the machine answers itself.                               *)

LEMMA FreshNotWaiting ==
    ASSUME Typed, PlacesInv
    PROVE  FreshIds \cap WaitIds = {}
<1>1. \A id \in WaitIds : id \in Sent /\ speech[id] = "PENDING"
  BY DEF PlacesInv, WaitInv, WaitIds, Waits, IdsOf
<1>2. \A id \in FreshIds : id \in Sent => speech[id] # "PENDING"
  <2>1. \A request : Fresh(request) /\ request.id \in Sent => speech[request.id] # "PENDING"
    BY DEF Fresh, Sent
  <2> QED
    BY <2>1 DEF PlacesInv, FreshInv, FreshIds, IdsOf
<1> QED
  BY <1>1, <1>2

AnswersAtOnce(state, stopped) ==
    /\ dispatching /\ in_progress.method # "TERMINATE"
    /\ in_progress.method = "SPEAK" => state = "PENDING"
    /\ AnswerAtOnce(state, stopped)
    /\ stopped \subseteq IdsOf(speak_queue, Request)
    /\ RequestFrame /\ UNCHANGED channelVars

LEMMA AtOnceService ==
    ASSUME Typed, PlacesInv, sm_active, NEW state \in {"PENDING", "COMPLETE"},
           NEW stopped, AnswersAtOnce(state, stopped)
    PROVE  /\ in_progress \in Request /\ in_progress.id \in Sent \ stopped
           /\ speech[in_progress.id] = IF in_progress.method = "SPEAK" THEN "asked" ELSE "none"
           /\ in_progress.id \notin WaitIds
           /\ answers[in_progress.id] = 0
           /\ answers' = [answers EXCEPT ![in_progress.id] = 1]
           /\ stopped \subseteq Ids /\ \A id \in stopped : speech[id] = "PENDING"
           /\ \A id \in Ids :
                 speech'[id] = IF id \in stopped THEN "COMPLETE"
                               ELSE IF id = in_progress.id /\ in_progress.method = "SPEAK"
                                    THEN state ELSE speech[id]
           /\ speech' \in [Ids -> {"none", "asked"} \cup RequestStates]
           /\ Hears(stopped \cup {in_progress.id}) /\ next_id' = next_id
           /\ WaitInv' /\ WaitIds' \subseteq WaitIds \cup {in_progress.id} => PlacesInv'
<1> DEFINE response == Response(in_progress, state)
           told == stopped \cup {in_progress.id}
<1>1. /\ Respond(response, stopped)
      /\ UNCHANGED <<toEngine, sm_active, speaker, is_pending, deferred, fromEngine, next_id,
                     terminated, stop_response, clearing>>
  BY DEF AnswersAtOnce, AnswerAtOnce, RequestFrame, channelVars
<1>2. /\ in_progress \in Request
      /\ Fresh(in_progress) /\ in_progress.id \in FreshIds
      /\ in_progress.id \notin IdsOf(request_queue, Request)
  BY DEF AnswersAtOnce, Typed, DispatchesRequest, PlacesInv, FreshInv, FreshIds
<1>3. /\ in_progress.id \in Sent /\ answers[in_progress.id] = 0
      /\ speech[in_progress.id] = IF in_progress.method = "SPEAK" THEN "asked" ELSE "none"
  BY <1>2 DEF AnswersAtOnce, Fresh
<1>4. in_progress.id \notin WaitIds /\ in_progress.id \notin PipeIds
  BY <1>2, FreshNotWaiting DEF PlacesInv, ApartInv
<1>5. stopped \subseteq WaitIds
  BY DEF AnswersAtOnce, WaitIds
<1>6. Sent \subseteq Ids /\ \A id \in stopped : id \in Sent /\ speech[id] = "PENDING"
  BY <1>5, SentFacts DEF PlacesInv, WaitInv, WaitIds, Waits, IdsOf
<1>7. /\ response \in EngineMessage /\ response.id = in_progress.id
      /\ response.method = in_progress.method /\ response.state = state
  BY <1>2, MessageTypes DEF Response, RequestStates
<1>8. /\ PopRequest /\ active_request' = NULL
      /\ answers' = [answers EXCEPT ![in_progress.id] = answers[in_progress.id] + 1]
      /\ \A id \in Ids :
            speech'[id] = IF id \in stopped THEN "COMPLETE"
                          ELSE IF id = in_progress.id /\ in_progress.method = "SPEAK"
                               THEN state ELSE speech[id]
      /\ speech' \in [Ids -> {"none", "asked"} \cup RequestStates]
      /\ Hears(told)
      /\ KeepsMarks
  <2>1. \A id \in stopped : speech[id] # "none"
    BY <1>6
  <2>2. response.method = "SPEAK" => speech[response.id] # "none"
    BY <1>3, <1>7
  <2>3. response.id \in Sent
    BY <1>3, <1>7
  <2>4. UNCHANGED <<next_id, terminated>>
    BY <1>1
  <2>5. /\ PopRequest /\ active_request' = NULL
        /\ answers' = [answers EXCEPT ![response.id] = answers[response.id] + 1]
        /\ \A id \in Ids :
              speech'[id] = IF id \in stopped THEN "COMPLETE"
                            ELSE IF id = response.id /\ response.method = "SPEAK"
                                 THEN response.state ELSE speech[id]
        /\ speech' \in [Ids -> {"none", "asked"} \cup RequestStates]
        /\ Hears(stopped \cup {response.id})
        /\ KeepsMarks
    BY <1>1, <1>7, <2>1, <2>2, <2>3, <2>4, RespondTold
  <2> QED
    BY <1>7, <2>5
<1>9. FreshInv' /\ FreshIds' \subseteq IdsOf(request_queue, Request)
  <2>1. told \cap IdsOf(request_queue, Request) = {}
    BY <1>2, <1>5, FreshNotWaiting DEF FreshIds
  <2> QED
    BY <1>1, <1>8, <2>1, PopFresh DEF PlacesInv
<1>10. PipeKept
  BY <1>1, <1>8, ReceivesPipe DEF FromShrinks, PlacesInv, DistinctInv
<1>11. SpeakerInv'
  <2>1. speaker # NULL => speaker.id \in Sent' /\ speech'[speaker.id] = "IN-PROGRESS"
    <3>1. speaker # NULL => /\ speaker.id \in Sent /\ speaker.id \in Ids
                            /\ speaker.id \notin stopped /\ speaker.id # in_progress.id
      BY <1>3, <1>6 DEF PlacesInv, SpeakerInv
    <3> QED
      BY <1>1, <1>8, <3>1, SentFacts DEF PlacesInv, SpeakerInv
  <2>2. ASSUME NEW id \in Ids, speech'[id] = "IN-PROGRESS"
        PROVE  speaker # NULL /\ speaker.id = id
    BY <1>8, <2>2 DEF PlacesInv, SpeakerInv
  <2> QED
    BY <1>1, <2>1, <2>2 DEF SpeakerInv
<1>12. ASSUME WaitInv', WaitIds' \subseteq WaitIds \cup {in_progress.id}
       PROVE  PlacesInv'
  <2>1. IdsOf(request_queue, Request) \subseteq FreshIds
    BY DEF FreshIds
  <2>2. ApartInv'
    BY <1>2, <1>4, <1>9, <1>10, <1>12, <2>1 DEF PipeKept, PlacesInv, ApartInv
  <2>3. ActiveInv'
    BY <1>8 DEF ActiveInv
  <2> QED
    BY <1>9, <1>10, <1>11, <1>12, <2>2, <2>3 DEF PlacesInv, PipeKept
<1> QED
  BY <1>1, <1>2, <1>3, <1>4, <1>6, <1>8, <1>12

\* a step of the server keeps the invariant and is one of the service
Serves == ServiceInv' /\ [Service!ServiceNext]_<<answers, speech>>

\* what the client has not asked for is not told about
LEMMA FutureStays ==
    ASSUME Typed, FutureInv, NEW told, told \subseteq Sent, Hears(told), next_id' = next_id
    PROVE  FutureInv'
<1>1. \A id \in Ids : id >= next_id => id \notin told
  BY SentFacts, MessageAssumption DEF Sent, Ids
<1> QED
  BY <1>1 DEF FutureInv, Hears

LEMMA PendingService ==
    ASSUME Typed, ServiceInv, sm_active, UNCHANGED channelVars, RequestSpeak, speaker # NULL
    PROVE  Serves
<1>1. PlacesInv
  BY DEF ServiceInv
<1>2. /\ AnswersAtOnce("PENDING", {}) /\ in_progress.method = "SPEAK"
      /\ speak_queue' = Append(speak_queue, in_progress)
      /\ deferred' = deferred /\ sm_active' = sm_active /\ speaker' = speaker
  BY DEF RequestSpeak, Dispatches, AnswersAtOnce, RequestFrame
<1>3. /\ in_progress \in Request /\ in_progress.id \in Sent
      /\ speech[in_progress.id] = "asked" /\ answers[in_progress.id] = 0
      /\ in_progress.id \notin WaitIds
      /\ answers' = [answers EXCEPT ![in_progress.id] = 1]
      /\ \A id \in Ids :
            speech'[id] = IF id = in_progress.id THEN "PENDING" ELSE speech[id]
      /\ speech' \in [Ids -> {"none", "asked"} \cup RequestStates]
      /\ Hears({in_progress.id}) /\ next_id' = next_id
      /\ WaitInv' /\ WaitIds' \subseteq WaitIds \cup {in_progress.id} => PlacesInv'
  <2>0. PICK nobody : nobody = {}
    OBVIOUS
  <2>1. /\ in_progress \in Request /\ in_progress.id \in Sent \ nobody
        /\ speech[in_progress.id]
             = IF in_progress.method = "SPEAK" THEN "asked" ELSE "none"
        /\ in_progress.id \notin WaitIds
        /\ answers[in_progress.id] = 0
        /\ answers' = [answers EXCEPT ![in_progress.id] = 1]
        /\ \A id \in Ids :
              speech'[id] = IF id \in nobody THEN "COMPLETE"
                            ELSE IF id = in_progress.id /\ in_progress.method = "SPEAK"
                                 THEN "PENDING" ELSE speech[id]
        /\ speech' \in [Ids -> {"none", "asked"} \cup RequestStates]
        /\ Hears(nobody \cup {in_progress.id}) /\ next_id' = next_id
        /\ WaitInv' /\ WaitIds' \subseteq WaitIds \cup {in_progress.id} => PlacesInv'
    <3>1. sm_active /\ "PENDING" \in {"PENDING", "COMPLETE"}
      OBVIOUS
    <3>2. AnswersAtOnce("PENDING", nobody)
      BY <1>2, <2>0
    <3> QED
      BY <1>1, <3>1, <3>2, AtOnceService, Zenon
  <2>2. nobody \cup {in_progress.id} = {in_progress.id}
    BY <2>0
  <2> QED
    BY <1>2, <2>0, <2>1, <2>2
<1>4. in_progress.id \in Ids /\ Sent' = Sent /\ Sent \subseteq Ids
  BY <1>3, SentFacts
<1>5. /\ IdsOf(speak_queue', Request) = IdsOf(speak_queue, Request) \cup {in_progress.id}
      /\ DistinctIn(speak_queue', Request)
      /\ Elements(speak_queue') = Elements(speak_queue) \cup {in_progress}
      /\ Elements(speak_queue) \subseteq Request
  <2>1. speak_queue \in Seq(Request) /\ Elements(speak_queue) \subseteq Request
    BY TypedQueues DEF Elements
  <2>2. DistinctIn(speak_queue, Request) /\ in_progress.id \notin IdsOf(speak_queue, Request)
    BY <1>1, <1>3 DEF PlacesInv, WaitInv, WaitIds
  <2> QED
    BY <1>2, <1>3, <2>1, <2>2, AppendIds, QueueElements
<1>6. WaitInv' /\ WaitIds' \subseteq WaitIds \cup {in_progress.id}
  <2>1. PICK request : request = in_progress
    OBVIOUS
  <2>2. PICK pending : pending = deferred
    OBVIOUS
  <2>3. Waits(request)'
    BY <1>2, <1>3, <1>4, <2>1 DEF Waits
  <2>4. ASSUME NEW other, Waits(other), other.id # in_progress.id
        PROVE  Waits(other)'
    BY <1>3, <2>4, WaitStays
  <2>5. \A other \in Elements(speak_queue) : Waits(other)'
    BY <1>1, <1>3, <1>5, <2>4 DEF PlacesInv, WaitInv, WaitIds, IdsOf
  <2>6. pending # NULL => /\ Waits(pending) /\ pending.id # in_progress.id
                          /\ pending.id \notin IdsOf(speak_queue, Request)
    BY <1>1, <1>3, <2>2 DEF PlacesInv, WaitInv, WaitIds
  <2>7. pending # NULL => Waits(pending)'
    BY <2>4, <2>6
  <2>8. \A other \in Elements(speak_queue') : Waits(other)'
    BY <1>5, <2>1, <2>3, <2>5
  <2>9. pending = deferred'
    BY <1>2, <2>2
  <2>10. WaitInv'
    BY <1>5, <2>6, <2>7, <2>8, <2>9 DEF WaitInv
  <2>11. WaitIds' \subseteq WaitIds \cup {in_progress.id}
    BY <1>2, <1>5 DEF WaitIds
  <2> QED
    BY <2>10, <2>11
<1>7. FutureInv'
  BY <1>3, FutureStays DEF ServiceInv
<1>8. Service!AnswerSpeak(in_progress.id)
  <2>1. ~Service!Quiet
    BY <1>1, <1>2, SentFacts DEF Service!Quiet, PlacesInv, SpeakerInv, RequestSpeak,
       AnswersAtOnce
  <2>2. speech' = [speech EXCEPT ![in_progress.id] = "PENDING"]
    BY <1>3, <1>4 DEF Typed, TypeOK, MachineTypeOK
  <2> QED
    BY <1>3, <2>1, <2>2 DEF Service!AnswerSpeak, Service!Answer
<1> QED
  BY <1>2, <1>3, <1>4, <1>6, <1>7, <1>8 DEF Serves, ServiceInv, Service!ServiceNext

LEMMA StopAtOnceService ==
    ASSUME Typed, ServiceInv, sm_active, UNCHANGED channelVars,
           in_progress.method # "SPEAK",
           NEW stopped, AnswersAtOnce("COMPLETE", stopped),
           \/ stopped = {} /\ speak_queue' = speak_queue
           \/ stopped = Removed(in_progress) /\ speak_queue' \in Remainders(in_progress)
    PROVE  Serves
<1>1. PlacesInv
  BY DEF ServiceInv
<1>2. deferred' = deferred /\ sm_active' = sm_active /\ speaker' = speaker
  BY DEF AnswersAtOnce, RequestFrame
<1>3. /\ in_progress \in Request /\ in_progress.id \in Sent \ stopped
      /\ speech[in_progress.id] = "none" /\ answers[in_progress.id] = 0
      /\ in_progress.id \notin WaitIds
      /\ answers' = [answers EXCEPT ![in_progress.id] = 1]
      /\ stopped \subseteq Ids /\ \A id \in stopped : speech[id] = "PENDING"
      /\ \A id \in Ids :
            speech'[id] = IF id \in stopped THEN "COMPLETE" ELSE speech[id]
      /\ speech' \in [Ids -> {"none", "asked"} \cup RequestStates]
      /\ Hears(stopped \cup {in_progress.id}) /\ next_id' = next_id
      /\ WaitInv' /\ WaitIds' \subseteq WaitIds \cup {in_progress.id} => PlacesInv'
  BY <1>1, AtOnceService
<1>4. in_progress.id \in Ids /\ Sent' = Sent /\ Sent \subseteq Ids
  BY <1>3, SentFacts
<1>5. speak_queue \in Seq(Request) /\ Elements(speak_queue) \subseteq Request
  BY TypedQueues DEF Elements
<1>6. /\ Elements(speak_queue') \subseteq Elements(speak_queue)
      /\ DistinctIn(speak_queue', Request)
      /\ IdsOf(speak_queue', Request) \subseteq IdsOf(speak_queue, Request)
      /\ stopped \cap IdsOf(speak_queue', Request) = {}
      /\ stopped \subseteq IdsOf(speak_queue, Request)
  <2>1. DistinctIn(speak_queue, Request)
    BY <1>1 DEF PlacesInv, WaitInv
  <2>2. CASE stopped = {} /\ speak_queue' = speak_queue
    BY <2>1, <2>2
  <2>3. CASE stopped = Removed(in_progress) /\ speak_queue' \in Remainders(in_progress)
    <3>1. Elements(speak_queue') \subseteq Elements(speak_queue)
      BY <1>5, <2>3, RemainderElements
    <3> QED
      BY <1>5, <2>1, <2>3, <3>1, RemainderIds
  <2> QED
    BY <2>2, <2>3
<1>7. WaitInv' /\ WaitIds' \subseteq WaitIds
  <2>1. ASSUME NEW request, Waits(request),
               request.id \notin stopped, request.id # in_progress.id
        PROVE  Waits(request)'
    BY <1>3, <2>1, WaitStays
  <2>2. ASSUME NEW request \in Elements(speak_queue')
        PROVE  Waits(request)'
    <3>1. request.id \in IdsOf(speak_queue', Request)
      BY <1>5, <1>6 DEF IdsOf
    <3>2. request.id \notin stopped /\ request.id # in_progress.id
      BY <1>3, <1>6, <3>1 DEF WaitIds
    <3> QED
      BY <1>1, <1>6, <2>1, <3>2 DEF PlacesInv, WaitInv
  <2>3. PICK pending : pending = deferred /\ pending = deferred'
    BY <1>2
  <2>4. pending # NULL => /\ Waits(pending) /\ pending.id \in WaitIds
                          /\ pending.id \notin IdsOf(speak_queue, Request)
    BY <1>1, <2>3 DEF PlacesInv, WaitInv, WaitIds
  <2>5. pending # NULL => Waits(pending)'
    BY <1>3, <1>6, <2>1, <2>4
  <2> QED
    BY <1>2, <1>6, <2>2, <2>3, <2>4, <2>5 DEF WaitInv, WaitIds
<1>8. FutureInv'
  <2>1. stopped \cup {in_progress.id} \subseteq Sent
    BY <1>1, <1>3, <1>6 DEF PlacesInv, WaitInv, Waits, IdsOf
  <2> QED
    BY <1>3, <2>1, FutureStays DEF ServiceInv
<1>9. Service!AnswerOther(in_progress.id, stopped)
  <2>1. speech' = [other \in Ids |->
                     IF other \in stopped THEN "COMPLETE" ELSE speech[other]]
    BY <1>3
  <2> QED
    BY <1>3, <2>1 DEF Service!AnswerOther, Service!Answer
<1> QED
  BY <1>2, <1>3, <1>4, <1>7, <1>8, <1>9 DEF Serves, ServiceInv, Service!ServiceNext

\* an interrupted handler has ended the speech before it starts the next one
DeferredInv == deferred # NULL => speaker = NULL

LEMMA DeferredStep == Typed /\ DeferredInv /\ [Next]_vars => DeferredInv'
<1> SUFFICES ASSUME DeferredInv, [Next]_vars PROVE DeferredInv'
  OBVIOUS
<1> USE DEF DeferredInv
<1>1. CASE UNCHANGED vars
  BY <1>1 DEF vars, serverVars, machineVars
<1>2. CASE ClientStep \/ PluginStep \/ MediaStep
  BY <1>2 DEF ClientStep, ClientNext, ClientRequest, ClientTerminate, PluginStep,
     MediaStep, serverVars, machineVars
<1>3. CASE Dispatch
  BY <1>3 DEF Dispatch, RequestSpeak, RequestStop, RequestPause, RequestResume,
     RequestBargeIn, RequestControl, RequestDefineLexicon, RequestParams, RequestIf,
     RequestFrame, Deactivate, StartDeferred
<1>4. CASE FromEngine
  <2>1. Waiting
    BY <1>4 DEF FromEngine, ResponseUnexpected, ResponseSpeak, ResponseStop,
       ResponseBargeIn, ResponsePause, ResponseResume, ResponseControl, ResponsePlain,
       ResponseOnSpeaker, EventSpeakComplete, EventUnexpected, ReceivesAnswer, Receives
  <2>2. \/ deferred' = deferred
        \/ speaker' = NULL
    BY <1>4 DEF FromEngine, ResponseUnexpected, ResponseSpeak, ResponseStop,
       ResponseBargeIn, ResponsePause, ResponseResume, ResponseControl, ResponsePlain,
       ResponseOnSpeaker, FollowsNull, StopSpeaking, BecomeIdle, Crash,
       EventSpeakComplete, EventUnexpected, serverVars, machineVars
  <2> QED
    BY <2>1, <2>2 DEF Waiting
<1> QED
  BY <1>1, <1>2, <1>3, <1>4 DEF Next, ServerStep, ServerNext

LEMMA DeferredService ==
    ASSUME Typed, ServiceInv, DeferredInv, sm_active, UNCHANGED channelVars, StartDeferred
    PROVE  Serves
<1>1. PlacesInv
  BY DEF ServiceInv
<1>2. PICK request : request = deferred
  OBVIOUS
<1>3. /\ ~dispatching /\ request # NULL
      /\ is_pending' = TRUE /\ active_request' = request /\ deferred' = NULL
      /\ toEngine' = Append(toEngine, request)
      /\ UNCHANGED <<in_progress, request_queue, dispatching, answers, speech, speak_queue,
                     sm_active, speaker, fromEngine, next_id, terminated, stop_response,
                     clearing>>
  BY <1>2, Zenon DEF StartDeferred, SendToEngine, sessionVars, clientVars, channelVars
<1>4. speaker = NULL
  BY <1>2, <1>3 DEF DeferredInv
<1>5. /\ request \in Request /\ Waits(request) /\ request.id \in WaitIds
      /\ request.id \notin IdsOf(speak_queue, Request)
  BY <1>1, <1>2, <1>3
     DEF Typed, TypeOK, MachineTypeOK, PlacesInv, WaitInv, WaitIds
<1>6. Marked(request)
  BY <1>5 DEF Waits, Marked
<1>7. request.id \notin PipeIds /\ request.id \notin FreshIds
  BY <1>1, <1>5, FreshNotWaiting DEF PlacesInv, ApartInv
<1>8. MarkInv' /\ DistinctInv' /\ PipeIds' \subseteq PipeIds \cup {request.id}
  <2>1. KeepsMarks /\ FromShrinks /\ MarkInv /\ DistinctInv
    BY <1>1, <1>3 DEF KeepsMarks, FromShrinks, PlacesInv, DistinctInv
  <2> QED
    BY <1>3, <1>5, <1>6, <1>7, <2>1, SendPipe
<1>9. FreshInv' /\ FreshIds' = FreshIds
  BY <1>1, <1>3 DEF PlacesInv, FreshInv, FreshIds, Fresh, Sent
<1>10. WaitInv' /\ WaitIds' = WaitIds \ {request.id}
  BY <1>1, <1>2, <1>3, <1>5 DEF PlacesInv, WaitInv, WaitIds, Waits, Sent
<1>11. ApartInv'
  BY <1>1, <1>7, <1>8, <1>9, <1>10 DEF PlacesInv, ApartInv
<1>12. ActiveInv'
  BY <1>3, <1>4, <1>5 DEF ActiveInv, Owed, Waits
<1>13. SpeakerInv'
  BY <1>1, <1>3 DEF PlacesInv, SpeakerInv, Sent
<1>14. FutureInv'
  BY <1>3 DEF ServiceInv, FutureInv
<1> QED
  BY <1>3, <1>8, <1>9, <1>10, <1>11, <1>12, <1>13, <1>14 DEF Serves, ServiceInv, PlacesInv

LEMMA DispatchService ==
    ASSUME Typed, ServiceInv, DeferredInv, sm_active, UNCHANGED channelVars, Dispatch
    PROVE  Serves
<1>1. PlacesInv
  BY DEF ServiceInv
<1>2. ASSUME Forwards, UNCHANGED sm_active PROVE Serves
  <2>1. PlacesInv' /\ UNCHANGED <<answers, speech, next_id>>
    BY <1>1, <1>2, ForwardService
  <2> QED
    BY <1>2, <2>1 DEF Serves, ServiceInv, FutureInv
<1>3. CASE RequestSpeak
  <2>1. CASE speaker # NULL
    BY <1>3, <2>1, PendingService
  <2>2. CASE speaker = NULL
    <3>1. Forwards /\ UNCHANGED sm_active
      BY <1>3, <2>2 DEF RequestSpeak, Dispatches, Forwards, RequestFrame
    <3> QED
      BY <1>2, <3>1
  <2> QED
    BY <2>1, <2>2
<1>4. ASSUME NEW method \in SynthMethods \ {"SPEAK"}, NEW useful,
             RequestIf(method, useful)
      PROVE  Serves
  <2>1. method # "TERMINATE"
    BY DEF SynthMethods
  <2>2. CASE Forward
    <3>1. Forwards /\ UNCHANGED sm_active
      BY <1>4, <2>1, <2>2 DEF RequestIf, Dispatches, Forwards, RequestFrame
    <3> QED
      BY <1>2, <3>1
  <2>3. CASE AnswerAtOnce("COMPLETE", {})
    <3>1. PICK nobody : nobody = {}
      OBVIOUS
    <3>2. AnswersAtOnce("COMPLETE", nobody) /\ in_progress.method # "SPEAK"
      BY <1>4, <2>1, <2>3, <3>1 DEF RequestIf, Dispatches, AnswersAtOnce
    <3>3. speak_queue' = speak_queue
      BY <1>4 DEF RequestIf
    <3> QED
      BY <3>1, <3>2, <3>3, StopAtOnceService
  <2> QED
    BY <1>4, <2>2, <2>3 DEF RequestIf
<1>5. CASE RequestStop
  <2>1. CASE Forward /\ UNCHANGED speak_queue
    <3>1. Forwards /\ UNCHANGED sm_active
      BY <1>5, <2>1 DEF RequestStop, Dispatches, Forwards, RequestFrame
    <3> QED
      BY <1>2, <3>1
  <2>2. CASE /\ speak_queue' \in Remainders(in_progress)
             /\ AnswerAtOnce("COMPLETE", Removed(in_progress))
    <3>1. PICK stopped : stopped = Removed(in_progress)
      OBVIOUS
    <3>2. stopped \subseteq IdsOf(speak_queue, Request)
      BY <1>1, <2>2, <3>1, TypedQueues, RemainderIds DEF PlacesInv, WaitInv
    <3>3. AnswersAtOnce("COMPLETE", stopped) /\ in_progress.method # "SPEAK"
      BY <1>5, <2>2, <3>1, <3>2 DEF RequestStop, Dispatches, AnswersAtOnce
    <3> QED
      BY <2>2, <3>1, <3>3, StopAtOnceService
  <2> QED
    BY <1>5, <2>1, <2>2 DEF RequestStop
<1>6. CASE Deactivate
  <2>1. ~sm_active' /\ UNCHANGED <<answers, speech, next_id>>
    BY <1>6, Zenon DEF Deactivate, DeactivateSession
  <2> QED
    BY <2>1 DEF Serves, ServiceInv, FutureInv
<1>7. CASE StartDeferred
  BY <1>7, DeferredService
<1>8. CASE \/ RequestPause \/ RequestResume \/ RequestBargeIn \/ RequestControl
           \/ RequestDefineLexicon \/ RequestParams
  BY <1>4, <1>8 DEF RequestPause, RequestResume, RequestBargeIn, RequestControl,
     RequestDefineLexicon, RequestParams, SynthMethods
<1> QED
  BY <1>3, <1>5, <1>6, <1>7, <1>8 DEF Dispatch

-----------------------------------------------------------------------------
(* Messages of the engine.                                                 *)

\* the message says nothing to the client
LEMMA DroppedService ==
    ASSUME Typed, ServiceInv, sm_active, NEW kind, Receives(kind),
           UNCHANGED <<in_progress, request_queue, dispatching, sm_active, active_request,
                       speaker, speak_queue, is_pending, deferred, toEngine, next_id,
                       terminated, answers, speech, channelVars>>
    PROVE  Serves
<1>1. PlacesInv /\ UNCHANGED <<stop_response, clearing>>
  BY DEF ServiceInv, channelVars
<1>2. PipeKept
  <2>1. FromShrinks /\ KeepsMarks
    BY <1>1, ReceivesShrinks DEF PlacesInv, KeepsMarks
  <2> QED
    BY <1>1, <2>1, ReceivesPipe DEF PlacesInv
<1>3. FreshInv' /\ FreshIds' = FreshIds
  BY <1>1 DEF PlacesInv, FreshInv, FreshIds, Fresh, Sent
<1>4. WaitInv' /\ WaitIds' = WaitIds
  BY <1>1 DEF PlacesInv, WaitInv, WaitIds, Waits, Sent
<1>5. ApartInv'
  BY <1>1, <1>2, <1>3, <1>4 DEF PlacesInv, ApartInv, PipeKept
<1>6. ActiveInv'
  BY <1>1, <1>2 DEF PlacesInv, ActiveInv, Owed, PipeKept
<1>7. SpeakerInv'
  BY <1>1 DEF PlacesInv, SpeakerInv, Sent
<1>8. FutureInv'
  BY DEF ServiceInv, FutureInv
<1> QED
  BY <1>2, <1>3, <1>4, <1>5, <1>6, <1>7, <1>8 DEF Serves, ServiceInv, PlacesInv, PipeKept

LEMMA AwaitedFacts ==
    ASSUME Typed, PlacesInv, Receives("response"), Awaited
    PROVE  /\ Received \in EngineMessage /\ Received.id \in Sent
           /\ active_request # NULL /\ active_request.id = Received.id
           /\ Received.id \notin FreshIds /\ Received.id \notin WaitIds
           /\ Marked(Received) /\ Received.id \in PipeIds
           /\ Owed(Received.id)
           /\ speech[Received.id] # "none" => speaker = NULL
<1>1. Received \in Elements(fromEngine) \cap Answers /\ Received.id \in PipeIds
  <2>1. DistinctInv
    BY DEF PlacesInv
  <2> QED
    BY <2>1, ReceivesShrinks DEF PipeIds
<1>2. Received \in EngineMessage /\ Marked(Received)
  BY <1>1 DEF PlacesInv, MarkInv, Answers
<1>3. active_request # NULL /\ active_request.id = Received.id
  BY DEF Awaited
<1>4. Received.id \notin FreshIds /\ Received.id \notin WaitIds
  BY <1>1 DEF PlacesInv, ApartInv
<1>5. Owed(Received.id) /\ (speech[Received.id] # "none" => speaker = NULL)
  BY <1>1, <1>3 DEF PlacesInv, ActiveInv
<1> QED
  BY <1>1, <1>2, <1>3, <1>4, <1>5 DEF Marked

\* a pending SPEAK is in progress
LEMMA MarkerService ==
    ASSUME Typed, ServiceInv, sm_active, UNCHANGED channelVars, ResponseSpeak,
           is_pending, Received.state = "IN-PROGRESS"
    PROVE  Serves
<1>1. PlacesInv
  BY DEF ServiceInv
<1>2. PICK id : id = Received.id
  OBVIOUS
<1>3. ReceivesAnswer("SPEAK") /\ Receives("response") /\ Awaited
  BY DEF ResponseSpeak, ReceivesAnswer
<1>4. /\ Received \in EngineMessage /\ Received.method = "SPEAK"
      /\ id \in Sent /\ id \notin FreshIds /\ id \notin WaitIds
      /\ active_request # NULL /\ active_request.id = id
      /\ Owed(id) /\ speech[id] # "none" /\ speaker = NULL
  BY <1>1, <1>2, <1>3, AwaitedFacts DEF ReceivesAnswer, Marked
<1>5. id \in Ids /\ Sent' = Sent /\ Sent \subseteq Ids /\ next_id' = next_id
  BY <1>4, SentFacts DEF ResponseSpeak, ResponseFrame
<1>6. /\ speaker' = active_request
      /\ speech' = [speech EXCEPT ![id] = "IN-PROGRESS"]
      /\ UNCHANGED <<active_request, in_progress, request_queue, dispatching, answers,
                     speak_queue, deferred, sm_active, toEngine, terminated,
                     stop_response, clearing>>
  <2>1. SendEvent(active_request, "IN-PROGRESS")
        /\ UNCHANGED <<active_request, sessionVars, answers>>
    BY Zenon DEF ResponseSpeak, AnswerSpeak
  <2> QED
    BY <1>4, <2>1, Zenon
       DEF ResponseSpeak, ResponseFrame, SendEvent, sessionVars, channelVars
<1>7. speech \in [Ids -> {"none", "asked"} \cup RequestStates]
  BY DEF Typed, TypeOK, MachineTypeOK
<1>8. /\ \A other \in Ids : speech'[other] = IF other = id THEN "IN-PROGRESS" ELSE speech[other]
      /\ Hears({id}) /\ KeepsMarks
  BY <1>4, <1>5, <1>6, <1>7 DEF Hears, KeepsMarks
<1>9. PipeKept /\ id \notin PipeIds'
  BY <1>1, <1>2, <1>3, <1>6, <1>8, AnswerLeavesPipe DEF PlacesInv
<1>10. FreshInv' /\ FreshIds' = FreshIds
  <2>1. ASSUME NEW request, Fresh(request), request.id # id PROVE Fresh(request)'
    BY <1>5, <1>6, <1>8, <2>1, FreshStays
  <2>2. \A request \in Elements(request_queue) : Fresh(request)'
    <3>1. Elements(request_queue) \subseteq Request
      BY TypedQueues DEF Elements
    <3> QED
      BY <1>1, <1>4, <2>1, <3>1 DEF PlacesInv, FreshInv, FreshIds, IdsOf
  <2>3. PICK request : request = in_progress /\ request = in_progress'
    BY <1>6
  <2>4. dispatching => Fresh(request)'
    BY <1>1, <1>4, <2>1, <2>3 DEF PlacesInv, FreshInv, FreshIds
  <2> QED
    BY <1>1, <1>6, <2>2, <2>3, <2>4 DEF PlacesInv, FreshInv, FreshIds
<1>11. WaitInv' /\ WaitIds' = WaitIds
  <2>1. ASSUME NEW request, Waits(request), request.id # id PROVE Waits(request)'
    BY <1>5, <1>8, <2>1, WaitStays
  <2>2. \A request \in Elements(speak_queue) : Waits(request)'
    <3>1. Elements(speak_queue) \subseteq Request
      BY TypedQueues DEF Elements
    <3> QED
      BY <1>1, <1>4, <2>1, <3>1 DEF PlacesInv, WaitInv, WaitIds, IdsOf
  <2>3. PICK request : request = deferred /\ request = deferred'
    BY <1>6
  <2>4. request # NULL => Waits(request)'
    BY <1>1, <1>4, <2>1, <2>3 DEF PlacesInv, WaitInv, WaitIds
  <2> QED
    BY <1>1, <1>6, <2>2, <2>3, <2>4 DEF PlacesInv, WaitInv, WaitIds
<1>12. ApartInv'
  BY <1>1, <1>9, <1>10, <1>11 DEF PlacesInv, ApartInv, PipeKept
<1>13. ActiveInv'
  BY <1>4, <1>6, <1>9 DEF ActiveInv
<1>14. Service!Quiet
  BY <1>1, <1>4 DEF Service!Quiet, PlacesInv, SpeakerInv
<1>15. SpeakerInv'
  BY <1>4, <1>5, <1>6, <1>8, <1>14 DEF SpeakerInv, Service!Quiet
<1>16. FutureInv'
  BY <1>4, <1>5, <1>8, FutureStays DEF ServiceInv
<1>17. Service!Start(id)
  BY <1>4, <1>6, <1>14 DEF Service!Start, Owed
<1> QED
  BY <1>5, <1>6, <1>9, <1>10, <1>11, <1>12, <1>13, <1>15, <1>16, <1>17
     DEF Serves, ServiceInv, PlacesInv, PipeKept, Service!ServiceNext

\* the pending SPEAKs that an answer leaves
StillWait(stopped) ==
    /\ \A request \in Elements(speak_queue') : Waits(request) /\ request.id \notin stopped
    /\ DistinctIn(speak_queue', Request)
    /\ deferred' # NULL => /\ Waits(deferred') /\ deferred'.id \notin stopped
                           /\ deferred'.id \notin IdsOf(speak_queue', Request)
    /\ WaitIds' \subseteq WaitIds

LEMMA StillWaitService ==
    ASSUME Typed, PlacesInv, next_id' = next_id, speak_queue' \in Seq(Request),
           deferred' \in Request \cup {NULL},
           NEW stopped, NEW id, id \notin WaitIds,
           Hears(stopped \cup {id}), StillWait(stopped)
    PROVE  WaitInv'
<1>1. ASSUME NEW request, Waits(request), request.id \notin stopped, request.id # id
      PROVE  Waits(request)'
  BY <1>1, WaitStays
<1>2. \A request \in Elements(speak_queue') : Waits(request)'
  <2>1. \A request \in Elements(speak_queue') : request.id \in WaitIds'
    BY DEF WaitIds, IdsOf, Elements
  <2> QED
    BY <1>1, <2>1 DEF StillWait
<1>3. PICK request : request = deferred'
  OBVIOUS
<1>4. request # NULL => Waits(request) /\ request.id \notin stopped /\ request.id \in WaitIds
  BY <1>3 DEF StillWait, WaitIds
<1>5. request # NULL => Waits(request)'
  BY <1>1, <1>4
<1> QED
  BY <1>2, <1>3, <1>5 DEF StillWait, WaitInv

\* what becomes of the speaker when a request is answered
NextSpeaker(method, stopped) ==
    \/ /\ method = "SPEAK" /\ ~is_pending
       /\ Received.state = "IN-PROGRESS" /\ stopped = {} /\ speaker' = active_request
    \/ method # "SPEAK" /\ stopped = {} /\ speaker' = speaker
    \/ method # "SPEAK" /\ speaker # NULL /\ speaker.id \in stopped /\ speaker' = NULL

LEMMA RespondService ==
    ASSUME Typed, ServiceInv, sm_active, UNCHANGED <<channelVars, toEngine, sm_active,
                                                     next_id, terminated>>,
           NEW method, ReceivesAnswer(method), NEW stopped, Respond(Received, stopped),
           NextSpeaker(method, stopped),
           stopped \subseteq WaitIds \cup (IF speaker # NULL THEN {speaker.id} ELSE {}),
           speak_queue' \in Seq(Request), deferred' \in Request \cup {NULL},
           StillWait(stopped)
    PROVE  Serves
<1>1. PlacesInv /\ UNCHANGED <<stop_response, clearing>>
  BY DEF ServiceInv, channelVars
<1>2. PICK id : id = Received.id
  OBVIOUS
<1>3. Receives("response") /\ Awaited /\ Received.method = method
  BY DEF ReceivesAnswer
<1>4. /\ Received \in EngineMessage
      /\ id \in Sent /\ id \notin FreshIds /\ id \notin WaitIds
      /\ active_request # NULL /\ active_request.id = id
      /\ Owed(id)
      /\ (method = "SPEAK") <=> (speech[id] # "none")
      /\ speech[id] # "none" => speaker = NULL
  BY <1>1, <1>2, <1>3, AwaitedFacts DEF Marked
<1>5. /\ answers[id] = 0
      /\ speech[id] = IF method = "SPEAK" THEN "asked" ELSE "none"
  <2>1. method = "SPEAK" => ~is_pending
    BY Zenon DEF NextSpeaker
  <2>2. \/ answers[id] = 0 /\ speech[id] \in {"none", "asked"}
        \/ is_pending /\ speech[id] = "PENDING"
    BY <1>4, Zenon DEF Owed
  <2> QED
    BY <1>4, <2>1, <2>2
<1>6. id \in Ids /\ Sent' = Sent /\ Sent \subseteq Ids
  BY <1>4, SentFacts
<1>7. /\ \A other \in stopped : other \in Sent /\ speech[other] \in {"PENDING", "IN-PROGRESS"}
      /\ id \notin stopped
  <2>1. \A other \in WaitIds : other \in Sent /\ speech[other] = "PENDING"
    BY <1>1 DEF PlacesInv, WaitInv, WaitIds, Waits, IdsOf
  <2>2. speaker # NULL => speaker.id \in Sent /\ speech[speaker.id] = "IN-PROGRESS"
    BY <1>1 DEF PlacesInv, SpeakerInv
  <2>3. \A other \in stopped : other \in Sent /\ speech[other] \in {"PENDING", "IN-PROGRESS"}
    BY <2>1, <2>2
  <2> QED
    BY <1>5, <2>3
<1>8. /\ PopRequest /\ active_request' = NULL
      /\ answers' = [answers EXCEPT ![id] = 1]
      /\ \A other \in Ids :
            speech'[other] = IF other \in stopped THEN "COMPLETE"
                             ELSE IF other = id /\ method = "SPEAK"
                                  THEN Received.state ELSE speech[other]
      /\ speech' \in [Ids -> {"none", "asked"} \cup RequestStates]
      /\ Hears(stopped \cup {id})
      /\ KeepsMarks
  <2>1. \A other \in stopped : speech[other] # "none"
    BY <1>7
  <2>2. Received.method = "SPEAK" => speech[Received.id] # "none"
    BY <1>2, <1>3, <1>4
  <2>3. Received.id \in Sent
    BY <1>2, <1>4
  <2>4. UNCHANGED <<next_id, terminated>>
    OBVIOUS
  <2>5. PICK response \in EngineMessage : response = Received /\ Respond(response, stopped)
    BY <1>4
  <2>6. /\ PopRequest /\ active_request' = NULL
        /\ answers' = [answers EXCEPT ![response.id] = answers[response.id] + 1]
        /\ \A other \in Ids :
              speech'[other] = IF other \in stopped THEN "COMPLETE"
                               ELSE IF other = response.id /\ response.method = "SPEAK"
                                    THEN response.state ELSE speech[other]
        /\ speech' \in [Ids -> {"none", "asked"} \cup RequestStates]
        /\ Hears(stopped \cup {response.id})
        /\ KeepsMarks
    <3>1. response.id \in Sent /\ (response.method = "SPEAK" => speech[response.id] # "none")
      BY <2>2, <2>3, <2>5
    <3> QED
      BY <2>1, <2>4, <2>5, <3>1, RespondTold
  <2>7. response.id = id /\ response.method = method /\ response.state = Received.state
    BY <1>2, <1>3, <2>5
  <2>8. answers[response.id] + 1 = 1
    BY <1>5, <2>7
  <2>9. Hears(stopped \cup {id}) /\ answers' = [answers EXCEPT ![id] = 1]
    BY <2>6, <2>7, <2>8, Zenon
  <2> QED
    BY <2>6, <2>7, <2>9
<1>9. PipeKept
  BY <1>1, <1>3, <1>8, AnswerLeavesPipe DEF PlacesInv
<1>10. FreshInv' /\ FreshIds' \subseteq FreshIds
  <2>1. (stopped \cup {id}) \cap IdsOf(request_queue, Request) = {}
    <3>1. \A other \in IdsOf(request_queue, Request) : other \notin stopped
      <4>1. \A request \in Elements(request_queue) :
                request.id \in Sent => speech[request.id] \in {"none", "asked"}
        BY <1>1 DEF PlacesInv, FreshInv, Fresh, Sent
      <4> QED
        BY <1>7, <4>1 DEF IdsOf
    <3> QED
      BY <1>4, <3>1 DEF FreshIds
  <2>2. FreshInv' /\ FreshIds' \subseteq IdsOf(request_queue, Request)
    <3>1. FreshInv /\ PopRequest /\ UNCHANGED <<next_id, terminated>>
      BY <1>1, <1>8 DEF PlacesInv
    <3>2. PICK told : told = stopped \cup {id}
      OBVIOUS
    <3>3. Hears(told) /\ told \cap IdsOf(request_queue, Request) = {}
      BY <1>8, <2>1, <3>2
    <3> QED
      BY <3>1, <3>3, PopFresh
  <2> QED
    BY <2>2 DEF FreshIds
<1>11. WaitInv' /\ WaitIds' \subseteq WaitIds
  <2>1. WaitInv'
    BY <1>1, <1>4, <1>8, StillWaitService
  <2> QED
    BY <2>1 DEF StillWait
<1>12. ApartInv'
  BY <1>1, <1>9, <1>10, <1>11 DEF PlacesInv, ApartInv, PipeKept
<1>13. ActiveInv'
  BY <1>8 DEF ActiveInv
<1>14. method = "SPEAK" => Service!Quiet
  BY <1>1, <1>4 DEF Service!Quiet, PlacesInv, SpeakerInv
<1>15. SpeakerInv'
  <2>1. CASE method = "SPEAK"
    <3>1. Received.state = "IN-PROGRESS" /\ stopped = {} /\ speaker' = active_request
      BY <2>1 DEF NextSpeaker
    <3> QED
      BY <1>4, <1>6, <1>8, <1>14, <2>1, <3>1 DEF SpeakerInv, Service!Quiet
  <2>2. CASE method # "SPEAK" /\ stopped = {} /\ speaker' = speaker
    BY <1>1, <1>6, <1>8, <2>2 DEF PlacesInv, SpeakerInv
  <2>3. CASE method # "SPEAK" /\ speaker # NULL /\ speaker.id \in stopped /\ speaker' = NULL
    BY <1>1, <1>6, <1>8, <2>3 DEF PlacesInv, SpeakerInv
  <2> QED
    BY <2>1, <2>2, <2>3 DEF NextSpeaker
<1>16. FutureInv'
  <2>1. stopped \cup {id} \subseteq Sent
    BY <1>4, <1>7
  <2> QED
    BY <1>8, <2>1, FutureStays DEF ServiceInv
<1>17. Service!AnswerSpeak(id) \/ (stopped \in SUBSET Ids /\ Service!AnswerOther(id, stopped))
  <2>1. CASE method = "SPEAK"
    <3>1. Received.state = "IN-PROGRESS" /\ stopped = {}
      BY <2>1 DEF NextSpeaker
    <3>2. speech' = [speech EXCEPT ![id] = "IN-PROGRESS"]
      BY <1>6, <1>8, <2>1, <3>1 DEF Typed, TypeOK, MachineTypeOK
    <3> QED
      BY <1>5, <1>8, <1>14, <2>1, <3>2 DEF Service!AnswerSpeak, Service!Answer
  <2>2. CASE method # "SPEAK"
    <3>1. speech' = [other \in Ids |->
                       IF other \in stopped THEN "COMPLETE" ELSE speech[other]]
      BY <1>8, <2>2
    <3>2. stopped \in SUBSET Ids
      BY <1>6, <1>7
    <3> QED
      BY <1>5, <1>7, <1>8, <2>2, <3>1, <3>2 DEF Service!AnswerOther, Service!Answer
  <2> QED
    BY <2>1, <2>2
<1> QED
  BY <1>6, <1>9, <1>10, <1>11, <1>12, <1>13, <1>15, <1>16, <1>17
     DEF Serves, ServiceInv, PlacesInv, PipeKept, Service!ServiceNext

LEMMA SpeakAnsweredService ==
    ASSUME Typed, SortedInv, ~CodecMayBeLost, ServiceInv, sm_active, UNCHANGED channelVars,
           ResponseSpeak
    PROVE  Serves
<1>1. PlacesInv
  BY DEF ServiceInv
<1>2. ReceivesAnswer("SPEAK") /\ Receives("response")
  BY DEF ResponseSpeak, ReceivesAnswer
<1>3. Received.state = "IN-PROGRESS"
  <2>1. Received \in Elements(fromEngine)
    BY <1>2, ReceivesMoves
  <2> QED
    BY <1>2, <2>1 DEF ReceivesAnswer, Receives, SortedInv, AllSorted, SortedMessage
<1>4. CASE is_pending
  BY <1>3, <1>4, MarkerService
<1>5. CASE ~is_pending
  <2>1. PICK nobody : nobody = {}
    OBVIOUS
  <2>2. Respond(Received, nobody)
    BY <1>5, <2>1, Zenon DEF ResponseSpeak, AnswerSpeak
  <2>3. UNCHANGED <<channelVars, toEngine, sm_active, next_id, terminated>>
    BY DEF ResponseSpeak, ResponseFrame
  <2>4. speaker' = active_request /\ UNCHANGED <<speak_queue, deferred>>
    BY <1>3 DEF ResponseSpeak
  <2>5. NextSpeaker("SPEAK", nobody)
    BY <1>3, <1>5, <2>1, <2>4, Zenon DEF NextSpeaker
  <2>6. StillWait(nobody) /\ speak_queue' \in Seq(Request) /\ deferred' \in Request \cup {NULL}
    BY <1>1, <2>1, <2>4
       DEF PlacesInv, WaitInv, WaitIds, StillWait, Typed, TypeOK, MachineTypeOK
  <2>7. nobody \subseteq WaitIds \cup (IF speaker # NULL THEN {speaker.id} ELSE {})
    BY <2>1
  <2> QED
    BY <1>2, <2>2, <2>3, <2>5, <2>6, <2>7, RespondService
<1> QED
  BY <1>4, <1>5

LEMMA PlainService ==
    ASSUME Typed, ServiceInv, sm_active,
           UNCHANGED <<channelVars, speaker, speak_queue, deferred>>, ResponseFrame,
           NEW method, method # "SPEAK", ReceivesAnswer(method), Respond(Received, {})
    PROVE  Serves
<1>1. PlacesInv
  BY DEF ServiceInv
<1>2. PICK nobody : nobody = {}
  OBVIOUS
<1>3. Respond(Received, nobody)
  BY <1>2
<1>4. UNCHANGED <<channelVars, toEngine, sm_active, next_id, terminated>>
  BY DEF ResponseFrame
<1>5. NextSpeaker(method, nobody)
  BY <1>2 DEF NextSpeaker
<1>6. StillWait(nobody) /\ speak_queue' \in Seq(Request) /\ deferred' \in Request \cup {NULL}
  BY <1>1, <1>2
     DEF PlacesInv, WaitInv, WaitIds, StillWait, Typed, TypeOK, MachineTypeOK
<1>7. nobody \subseteq WaitIds \cup (IF speaker # NULL THEN {speaker.id} ELSE {})
  BY <1>2
<1> QED
  BY <1>3, <1>4, <1>5, <1>6, <1>7, RespondService

LEMMA StopService ==
    ASSUME Typed, ServiceInv, sm_active, UNCHANGED channelVars,
           NEW method, method # "SPEAK", ReceivesAnswer(method), StopSpeaking,
           NEW left \in Remainders(active_request),
           \/ speak_queue' = left /\ deferred' = deferred
           \/ /\ left # <<>> /\ speak_queue' = Tail(left) /\ deferred' = Head(left)
    PROVE  Serves
<1>1. PlacesInv /\ deferred = NULL
  BY DEF ServiceInv, ReceivesAnswer, Receives, Waiting
<1>2. PICK stopped : stopped = {speaker.id} \cup Removed(active_request)
  OBVIOUS
<1>3. /\ speaker # NULL /\ speaker' = NULL /\ Respond(Received, stopped)
      /\ UNCHANGED <<channelVars, toEngine, sm_active, next_id, terminated>>
  BY <1>2 DEF StopSpeaking, BecomeIdle, ResponseFrame
<1>4. /\ speak_queue \in Seq(Request) /\ DistinctIn(speak_queue, Request)
      /\ Elements(speak_queue) \subseteq Request
  BY <1>1, TypedQueues DEF PlacesInv, WaitInv, Elements
<1>5. /\ left \in Seq(Request) /\ Elements(left) \subseteq Elements(speak_queue)
      /\ DistinctIn(left, Request)
      /\ IdsOf(left, Request) \subseteq IdsOf(speak_queue, Request)
      /\ Removed(active_request) \subseteq IdsOf(speak_queue, Request)
      /\ Removed(active_request) \cap IdsOf(left, Request) = {}
  BY <1>4, RemainderIsQueue, RemainderElements, RemainderIds
<1>6. IdsOf(speak_queue, Request) = WaitIds /\ speaker.id \notin WaitIds
  <2>1. \A id \in WaitIds : speech[id] = "PENDING"
    BY <1>1 DEF PlacesInv, WaitInv, WaitIds, Waits, IdsOf
  <2>2. speech[speaker.id] = "IN-PROGRESS"
    BY <1>1, <1>3 DEF PlacesInv, SpeakerInv
  <2> QED
    BY <1>1, <2>1, <2>2 DEF WaitIds
<1>7. NextSpeaker(method, stopped)
  BY <1>2, <1>3 DEF NextSpeaker
<1>8. stopped \subseteq WaitIds \cup (IF speaker # NULL THEN {speaker.id} ELSE {})
  BY <1>2, <1>3, <1>5, <1>6
<1>9. \A request \in Elements(left) : Waits(request) /\ request.id \notin stopped
  <2>1. ASSUME NEW request \in Elements(left) PROVE request.id \in IdsOf(left, Request)
    BY <1>4, <1>5, <2>1 DEF IdsOf
  <2> QED
    BY <1>1, <1>2, <1>5, <1>6, <2>1 DEF PlacesInv, WaitInv
<1>10. StillWait(stopped) /\ speak_queue' \in Seq(Request) /\ deferred' \in Request \cup {NULL}
  <2>1. CASE speak_queue' = left /\ deferred' = deferred
    BY <1>1, <1>5, <1>6, <1>9, <2>1 DEF StillWait, WaitIds
  <2>2. CASE left # <<>> /\ speak_queue' = Tail(left) /\ deferred' = Head(left)
    <3>1. /\ Head(left) \in Elements(left) /\ Elements(Tail(left)) \subseteq Elements(left)
          /\ Head(left) \in Request /\ Tail(left) \in Seq(Request)
      BY <1>5, <2>2, QueueElements
    <3>2. /\ IdsOf(Tail(left), Request) \subseteq IdsOf(left, Request)
          /\ Head(left).id \in IdsOf(left, Request)
          /\ DistinctIn(Tail(left), Request)
          /\ Head(left).id \notin IdsOf(Tail(left), Request)
      BY <1>5, <2>2, <3>1, TailIds
    <3>3. WaitIds' \subseteq WaitIds
      BY <1>5, <1>6, <2>2, <3>2 DEF WaitIds
    <3> QED
      BY <1>9, <2>2, <3>1, <3>2, <3>3 DEF StillWait
  <2> QED
    BY <2>1, <2>2
<1> QED
  BY <1>3, <1>7, <1>8, <1>10, RespondService

\* the speech ends and the first pending SPEAK, if any, is sent to the engine
LEMMA CompleteService ==
    ASSUME Typed, ServiceInv, sm_active, UNCHANGED channelVars, EventSpeakComplete
    PROVE  Serves
<1>1. PlacesInv /\ deferred = NULL /\ Receives("event")
  BY DEF ServiceInv, EventSpeakComplete, Receives, Waiting
<1>2. /\ speaker # NULL /\ speaker' = NULL
      /\ UNCHANGED <<in_progress, request_queue, dispatching, sm_active, deferred, next_id,
                     terminated, answers, stop_response, clearing>>
  BY DEF EventSpeakComplete, CompletesSpeaker, BecomeIdle, sessionVars, channelVars
<1>3. PICK id : id = speaker.id
  OBVIOUS
<1>4. id \in Sent /\ speech[id] = "IN-PROGRESS"
  BY <1>1, <1>2, <1>3 DEF PlacesInv, SpeakerInv
<1>5. id \in Ids /\ Sent' = Sent /\ Sent \subseteq Ids
  BY <1>2, <1>4, SentFacts
<1>6. speech' = [speech EXCEPT ![id] = "COMPLETE"]
  BY <1>3, Zenon DEF EventSpeakComplete, SendEvent
<1>7. /\ \A other \in Ids : speech'[other] = IF other = id THEN "COMPLETE" ELSE speech[other]
      /\ Hears({id}) /\ KeepsMarks
  <2>1. speech \in [Ids -> {"none", "asked"} \cup RequestStates]
    BY DEF Typed, TypeOK, MachineTypeOK
  <2> QED
    BY <1>2, <1>4, <1>5, <1>6, <2>1 DEF Hears, KeepsMarks
<1>8. FromShrinks
  BY <1>1, ReceivesShrinks DEF PlacesInv
<1>9. FreshInv' /\ FreshIds' = FreshIds
  <2>1. ASSUME NEW request, Fresh(request), request.id # id PROVE Fresh(request)'
    BY <1>2, <1>7, <2>1, FreshStays
  <2>2. ASSUME NEW request, Fresh(request) PROVE Fresh(request)'
    <3>1. request.id = id => FALSE
      BY <1>4, <2>2 DEF Fresh, Sent
    <3> QED
      BY <2>1, <2>2, <3>1
  <2>3. PICK request : request = in_progress /\ request = in_progress'
    BY <1>2
  <2>4. dispatching => Fresh(request)'
    BY <1>1, <2>2, <2>3 DEF PlacesInv, FreshInv
  <2> QED
    BY <1>1, <1>2, <2>2, <2>3, <2>4 DEF PlacesInv, FreshInv, FreshIds
<1>10. ASSUME NEW request, Waits(request) PROVE Waits(request)'
  BY <1>2, <1>4, <1>7, <1>10, WaitStays DEF Waits
<1>11. SpeakerInv'
  BY <1>1, <1>2, <1>3, <1>5, <1>7 DEF PlacesInv, SpeakerInv
<1>12. FutureInv'
  BY <1>2, <1>4, <1>7, FutureStays DEF ServiceInv
<1>13. Service!ServiceNext
  BY <1>2, <1>4, <1>5, <1>6 DEF Service!ServiceNext, Service!Complete
<1>14. /\ MarkInv' /\ DistinctInv' /\ WaitInv' /\ ActiveInv' /\ ApartInv'
  <2>1. CASE speak_queue = <<>>
    <3>1. UNCHANGED <<speak_queue, is_pending, active_request, toEngine>>
      BY <2>1, Zenon DEF EventSpeakComplete, StartPending
    <3>2. PipeKept
      BY <1>1, <1>2, <1>7, <1>8, <3>1, ReceivesPipe DEF PlacesInv
    <3>3. WaitInv' /\ WaitIds' = WaitIds
      BY <1>1, <1>2, <1>10, <3>1 DEF PlacesInv, WaitInv, WaitIds
    <3>4. ActiveInv'
      <4>1. ASSUME active_request # NULL, active_request.id \in PipeIds
            PROVE  Owed(active_request.id)'
        <5>1. Owed(active_request.id) /\ active_request.id \in Sent
          BY <1>1, <4>1, PlacesAreSent DEF PlacesInv, ActiveInv
        <5>2. PICK owed : owed = active_request.id /\ owed = active_request'.id
          BY <3>1
        <5>3. owed # id /\ speech'[owed] = speech[owed]
          BY <1>4, <1>5, <1>7, <5>1, <5>2 DEF Owed
        <5>4. Owed(owed)'
          BY <1>2, <3>1, <5>1, <5>2, <5>3 DEF Owed
        <5> QED
          BY <5>2, <5>4
      <4> QED
        BY <1>2, <3>1, <3>2, <4>1 DEF ActiveInv, PipeKept
    <3> QED
      BY <1>1, <1>9, <3>2, <3>3, <3>4 DEF PlacesInv, ApartInv, PipeKept
  <2>2. CASE speak_queue # <<>>
    <3>1. PICK request : request = Head(speak_queue)
      OBVIOUS
    <3>2. /\ speak_queue' = Tail(speak_queue) /\ is_pending' = TRUE
          /\ active_request' = request /\ toEngine' = Append(toEngine, request)
      BY <2>2, <3>1, Zenon DEF EventSpeakComplete, StartPending, SendToEngine
    <3>3. /\ speak_queue \in Seq(Request) /\ request \in Request
          /\ Elements(speak_queue') \subseteq Elements(speak_queue)
          /\ request \in Elements(speak_queue)
      BY <2>2, <3>1, <3>2, TypedQueues, QueueElements
    <3>4. /\ IdsOf(speak_queue', Request) \subseteq IdsOf(speak_queue, Request)
          /\ request.id \in IdsOf(speak_queue, Request)
          /\ DistinctIn(speak_queue', Request)
          /\ request.id \notin IdsOf(speak_queue', Request)
      BY <1>1, <2>2, <3>1, <3>2, <3>3, TailIds DEF PlacesInv, WaitInv
    <3>5. Waits(request) /\ request.id \in WaitIds
      BY <1>1, <3>3, <3>4 DEF PlacesInv, WaitInv, WaitIds
    <3>6. request.id \notin PipeIds /\ request.id \notin FreshIds
      BY <1>1, <3>5, FreshNotWaiting DEF PlacesInv, ApartInv
    <3>7. MarkInv' /\ DistinctInv' /\ PipeIds' \subseteq PipeIds \cup {request.id}
      <4>1. Marked(request) /\ MarkInv /\ DistinctInv
        BY <1>1, <3>5 DEF Waits, Marked, PlacesInv
      <4> QED
        BY <1>2, <1>7, <1>8, <3>2, <3>3, <3>6, <4>1, SendPipe
    <3>8. WaitInv' /\ WaitIds' \subseteq WaitIds \ {request.id}
      BY <1>1, <1>2, <1>10, <3>3, <3>4 DEF PlacesInv, WaitInv, WaitIds
    <3>9. Waits(request)'
      BY <1>10, <3>5
    <3>10. ActiveInv'
      <4>1. Owed(request.id)'
        BY <3>2, <3>9 DEF Owed, Waits
      <4> QED
        BY <1>2, <3>2, <4>1 DEF ActiveInv
    <3>11. ApartInv'
      BY <1>1, <1>9, <3>6, <3>7, <3>8 DEF PlacesInv, ApartInv
    <3> QED
      BY <3>7, <3>8, <3>10, <3>11
  <2> QED
    BY <2>1, <2>2
<1> QED
  BY <1>2, <1>9, <1>11, <1>12, <1>13, <1>14 DEF Serves, ServiceInv, PlacesInv

LEMMA ServerService ==
    ASSUME Typed, SortedInv, ~CodecMayBeLost, DeferredInv, ServiceInv, ServerStep
    PROVE  Serves
<1>1. UNCHANGED channelVars
  BY DEF ServerStep
<1>2. CASE ~sm_active
  BY <1>2, InactiveService DEF Serves
<1>3. ASSUME sm_active, Dispatch PROVE Serves
  BY <1>1, <1>3, DispatchService
<1>4. ASSUME sm_active, FromEngine PROVE Serves
  <2>1. ASSUME NEW kind, Receives(kind), UNCHANGED <<serverVars, toEngine, clientVars>>
        PROVE  Serves
    <3>1. UNCHANGED <<in_progress, request_queue, dispatching, sm_active, active_request,
                      speaker, speak_queue, is_pending, deferred, toEngine, next_id,
                      terminated, answers, speech, channelVars>>
      BY <1>1, <2>1 DEF serverVars, sessionVars, machineVars, clientVars
    <3> QED
      BY <1>4, <2>1, <3>1, DroppedService
  <2>2. ASSUME NEW kind, Receives(kind), Crash PROVE Serves
    <3>1. UNCHANGED <<in_progress, request_queue, dispatching, sm_active, active_request,
                      speaker, speak_queue, is_pending, deferred, toEngine, next_id,
                      terminated, answers, speech, channelVars>>
      BY <1>1, <2>2 DEF Crash, sessionVars, clientVars
    <3> QED
      BY <1>4, <2>2, <3>1, DroppedService
  <2>3. CASE ResponseUnexpected
    BY <2>1, <2>3 DEF ResponseUnexpected
  <2>4. CASE EventUnexpected
    BY <2>1, <2>4 DEF EventUnexpected
  <2>5. CASE ResponseSpeak
    BY <1>1, <1>4, <2>5, SpeakAnsweredService
  <2>6. CASE ResponseStop
    <3>1. ReceivesAnswer("STOP") /\ Receives("response")
      BY <2>6 DEF ResponseStop, ReceivesAnswer
    <3>2. CASE FollowsNull
      BY <2>2, <3>1, <3>2 DEF FollowsNull
    <3>3. CASE ~FollowsNull
      <4>1. StopSpeaking /\ deferred = NULL
        BY <2>6, <3>1, <3>3 DEF ResponseStop, Receives, Waiting
      <4>2. PICK left \in Remainders(active_request) :
                \/ left = <<>> /\ speak_queue' = <<>> /\ UNCHANGED deferred
                \/ left # <<>> /\ speak_queue' = Tail(left) /\ deferred' = Head(left)
        BY <2>6, <3>3 DEF ResponseStop
      <4> QED
        BY <1>1, <1>4, <3>1, <4>1, <4>2, StopService
    <3> QED
      BY <3>2, <3>3
  <2>7. CASE ResponseBargeIn
    <3>1. ReceivesAnswer("BARGE-IN-OCCURRED") /\ Receives("response")
      BY <2>7 DEF ResponseBargeIn, ReceivesAnswer
    <3>2. CASE FollowsNull
      BY <2>2, <3>1, <3>2 DEF FollowsNull
    <3>3. CASE ~FollowsNull
      <4>1. /\ StopSpeaking /\ UNCHANGED deferred
            /\ speak_queue' \in Remainders(active_request)
        BY <2>7, <3>3 DEF ResponseBargeIn
      <4>2. PICK left \in Remainders(active_request) : speak_queue' = left
        BY <4>1
      <4> QED
        BY <1>1, <1>4, <3>1, <4>1, <4>2, StopService
    <3> QED
      BY <3>2, <3>3
  <2>8. ASSUME NEW method \in {"PAUSE", "RESUME", "CONTROL"}, NEW state,
               ResponseOnSpeaker(method, state)
        PROVE  Serves
    <3>1. ReceivesAnswer(method) /\ Receives("response") /\ method # "SPEAK"
      BY <2>8 DEF ResponseOnSpeaker, ReceivesAnswer
    <3>2. CASE FollowsNull
      BY <2>2, <3>1, <3>2 DEF FollowsNull
    <3>3. CASE ~FollowsNull
      <4>1. Respond(Received, {}) /\ UNCHANGED <<speaker, speak_queue, deferred>>
            /\ ResponseFrame
        BY <2>8, <3>3 DEF ResponseOnSpeaker
      <4>2. UNCHANGED <<channelVars, speaker, speak_queue, deferred>>
        BY <1>1, <4>1
      <4> QED
        BY <1>4, <3>1, <4>1, <4>2, PlainService
    <3> QED
      BY <3>2, <3>3
  <2>9. CASE ResponsePause \/ ResponseResume
    BY <2>8, <2>9 DEF ResponsePause, ResponseResume
  <2>10. CASE ResponseControl
    <3>1. PICK state : state = sm_state
      OBVIOUS
    <3>2. ResponseOnSpeaker("CONTROL", state)
      BY <2>10, <3>1 DEF ResponseControl
    <3> QED
      BY <2>8, <3>2
  <2>11. CASE ResponsePlain
    <3>1. PICK method \in {"SET-PARAMS", "DEFINE-LEXICON"} : ReceivesAnswer(method)
      BY <2>11 DEF ResponsePlain
    <3>2. Respond(Received, {}) /\ ResponseFrame
          /\ UNCHANGED <<channelVars, speaker, speak_queue, deferred>>
      BY <1>1, <2>11 DEF ResponsePlain
    <3> QED
      BY <1>4, <3>1, <3>2, PlainService
  <2>12. CASE EventSpeakComplete
    BY <1>1, <1>4, <2>12, CompleteService
  <2> QED
    BY <1>4, <2>3, <2>4, <2>5, <2>6, <2>7, <2>9, <2>10, <2>11, <2>12 DEF FromEngine
<1> QED
  BY <1>2, <1>3, <1>4 DEF ServerStep, ServerNext

LEMMA ServiceStep ==
    Typed /\ SortedInv /\ ~CodecMayBeLost /\ DeferredInv /\ ServiceInv /\ [Next]_vars
        => Serves
<1> SUFFICES ASSUME Typed, SortedInv, ~CodecMayBeLost, DeferredInv, ServiceInv, [Next]_vars
             PROVE  Serves
  OBVIOUS
<1>1. CASE ServerStep
  BY <1>1, ServerService
<1>2. CASE ClientStep
  BY <1>2, ClientService DEF Serves
<1>3. CASE PluginStep \/ MediaStep
  BY <1>3, EngineService DEF Serves, SortedInv
<1>4. CASE UNCHANGED vars
  <2>1. UNCHANGED <<in_progress, request_queue, dispatching, active_request, speaker,
                    speak_queue, is_pending, deferred, sm_active, toEngine, fromEngine,
                    stop_response, clearing, next_id, terminated, answers, speech>>
    BY <1>4 DEF vars, serverVars, sessionVars, machineVars, queueVars, clientVars, channelVars
  <2>2. PipeIds' = PipeIds /\ FreshIds' = FreshIds /\ WaitIds' = WaitIds
    BY <2>1 DEF PipeIds, StopIds, FreshIds, WaitIds
  <2>3. FreshInv <=> FreshInv'
    BY <2>1 DEF FreshInv, Fresh, Sent
  <2>4. WaitInv <=> WaitInv'
    BY <2>1 DEF WaitInv, Waits, Sent
  <2>5. (MarkInv <=> MarkInv') /\ (DistinctInv <=> DistinctInv')
    BY <2>1 DEF MarkInv, Marked, DistinctInv, StopIds, Sent
  <2>6. (ApartInv <=> ApartInv') /\ (ActiveInv <=> ActiveInv')
    BY <2>1, <2>2 DEF ApartInv, ActiveInv, Owed
  <2>7. SpeakerInv <=> SpeakerInv'
    BY <2>1 DEF SpeakerInv, Sent
  <2>8. PlacesInv => PlacesInv'
    BY <2>3, <2>4, <2>5, <2>6, <2>7 DEF PlacesInv
  <2>9. FutureInv => FutureInv'
    BY <2>1 DEF FutureInv
  <2> QED
    BY <2>1, <2>8, <2>9 DEF Serves, ServiceInv
<1> QED
  BY <1>1, <1>2, <1>3, <1>4 DEF Next

LEMMA ServiceStarts == Init => ServiceInv /\ DeferredInv /\ Service!ServiceInit
<1> SUFFICES ASSUME Init PROVE ServiceInv /\ DeferredInv /\ Service!ServiceInit
  OBVIOUS
<1>1. /\ answers = [id \in Ids |-> 0] /\ speech = [id \in Ids |-> "none"]
      /\ request_queue = <<>> /\ ~dispatching /\ speak_queue = <<>> /\ deferred = NULL
      /\ toEngine = <<>> /\ fromEngine = <<>> /\ stop_response = NULL
      /\ active_request = NULL /\ speaker = NULL
  BY Zenon DEF Init, MachineInit, SessionInit, QueueInit, Engine!EngineInit
<1>2. /\ \A S : IdsOf(<<>>, S) = {} /\ DistinctIn(<<>>, S)
      /\ Elements(<<>>) = {}
  BY NoIds, NoElements
<1>3. StopIds = {} /\ PipeIds = {} /\ FreshIds = {} /\ WaitIds = {}
  BY <1>1, <1>2 DEF StopIds, PipeIds, FreshIds, WaitIds
<1>4. FreshInv /\ WaitInv /\ MarkInv /\ DistinctInv
  BY <1>1, <1>2, <1>3 DEF FreshInv, WaitInv, MarkInv, DistinctInv
<1>5. ApartInv /\ ActiveInv /\ SpeakerInv
  BY <1>1, <1>3 DEF ApartInv, ActiveInv, SpeakerInv
<1> QED
  BY <1>1, <1>4, <1>5
     DEF ServiceInv, FutureInv, PlacesInv, DeferredInv, Service!ServiceInit

(***************************************************************************)
(* Whatever the client sends and however the task of the server and the    *)
(* two threads of the plugin interleave, the client sees the service: no   *)
(* request is answered twice, never two SPEAKs are in progress, and none   *)
(* is heard of after its end (mrcp_synth_state_machine.c).                 *)
(***************************************************************************)
THEOREM ChannelServes ==
    ASSUME ~CodecMayBeLost
    PROVE  Spec => ServiceRefinement
<1>1. Init => ServiceInv /\ DeferredInv /\ Service!ServiceInit
  BY ServiceStarts
<1>2. Spec => []SortedInv
  BY SortedInit, SortedStep, ChannelIsTyped, PTL DEF Spec, Typed
<1>3. Typed /\ DeferredInv /\ [Next]_vars => DeferredInv'
  BY DeferredStep
<1>4. Typed /\ SortedInv /\ DeferredInv /\ ServiceInv /\ [Next]_vars
        => ServiceInv' /\ [Service!ServiceNext]_<<answers, speech>>
  BY ServiceStep DEF Serves
<1>5. Spec => [](Typed /\ DeferredInv)
  BY <1>1, <1>3, ChannelIsTyped, PTL DEF Spec, Typed
<1> QED
  BY <1>1, <1>2, <1>4, <1>5, PTL DEF Spec, ServiceRefinement, Service!ServiceSpec

-----------------------------------------------------------------------------
(***************************************************************************)
(* A client that sends no SPEAK before the last one is over, whatever      *)
(* other methods it uses.  The engine may refuse a SPEAK, and the plugin's *)
(* task runs in the middle of a read of the stream.                        *)
(*                                                                         *)
(* Then one request at a time is on its way to the plugin and back, and it *)
(* is the one that the session waits for.  A read that has answered a STOP *)
(* and not yet cleared the channel may take a speech or the next STOP with *)
(* it; what the plugin speaks otherwise is what the machine believes to be *)
(* spoken or is about to learn of.                                         *)
(***************************************************************************)
AnswerPlaces == {i \in DOMAIN fromEngine : fromEngine[i].kind = "response"}
EventPlaces == {i \in DOMAIN fromEngine : fromEngine[i].kind = "event"}

\* No SPEAK is ever pending.
NothingWaits == ~is_pending /\ deferred = NULL /\ speak_queue = <<>>

\* The request that the session waits for is the one the machine waits for.
TurnInv ==
    /\ session_state = "UP" => sm_active
    /\ sm_active /\ dispatching => active_request = NULL
    /\ sm_active /\ ~dispatching => active_request = in_progress
    /\ ~sm_active => in_progress # NULL /\ ~dispatching
    /\ in_progress = NULL => request_queue = <<>> /\ ~dispatching
    /\ ~sm_active /\ active_request # NULL => session_state = "DEACTIVATING"

Standing == Elements(request_queue) \cup ({in_progress} \ {NULL})

MethodsInv ==
    /\ \A request \in Standing : request.method \in SynthMethods \cup {"TERMINATE"}
    /\ active_request # NULL => active_request.method \in SynthMethods

LeftToMedia == {"STOP", "BARGE-IN-OCCURRED"}

\* The active request, and no other, is on its way to the plugin and back, if
\* a read has not lost it.
HandedInv ==
    /\ toEngine # <<>> =>
         /\ active_request # NULL /\ toEngine = <<active_request>>
         /\ stop_response = NULL \/ clearing
         /\ AnswerPlaces = {}
    /\ stop_response # NULL /\ ~clearing =>
         /\ stop_response = active_request /\ active_request.method \in LeftToMedia
         /\ accepted = NULL /\ AnswerPlaces = {}
    /\ \A i \in AnswerPlaces :
         /\ active_request # NULL
         /\ fromEngine[i].id = active_request.id
         /\ fromEngine[i].method = active_request.method
         /\ fromEngine[i].state # "PENDING"
    /\ \A i, j \in AnswerPlaces : i = j

\* A STOP has a speaker, a SPEAK finds none.
NeedsInv ==
    active_request # NULL =>
        /\ active_request.method = "STOP" => speaker # NULL
        /\ active_request.method = "SPEAK" => speaker = NULL

Begins(message) == message.method = "SPEAK" /\ message.state = "IN-PROGRESS"

\* The channel speaks nothing that a read is not about to forget.
EngineSilent ==
    accepted = NULL /\ ending = NULL /\ (speak_request = NULL \/ clearing)

SpokenByEngine(request) ==
    /\ request.method = "SPEAK"
    /\ \/ speaker = request
       \/ active_request = request /\ \E i \in AnswerPlaces : Begins(fromEngine[i])

\* What the plugin speaks, or whose end it has announced, is what the machine
\* believes to be spoken, or what it will be told of next.
SpokenInv ==
    /\ accepted = NULL \/ speak_request = NULL \/ clearing
    /\ accepted # NULL => SpokenByEngine(accepted)
    /\ speak_request # NULL /\ ~clearing => SpokenByEngine(speak_request)
    /\ ending # NULL => ~clearing /\ ending = speak_request /\ accepted = NULL
    /\ \A i, j \in EventPlaces : i = j
    /\ \A i \in EventPlaces :
         /\ EngineSilent
         /\ \/ speaker # NULL /\ speaker.id = fromEngine[i].id
            \/ \E j \in AnswerPlaces :
                 j < i /\ Begins(fromEngine[j]) /\ active_request.id = fromEngine[i].id
    /\ \A i \in AnswerPlaces : fromEngine[i].method \in LeftToMedia =>
         EngineSilent /\ \A j \in EventPlaces : j < i

\* Requests are answered in the order in which they were sent.
Control(request) == request.method # "TERMINATE"

OrderInv ==
    /\ \A request \in Standing : Control(request) => request.id \in 1 .. next_id - 1
    /\ \A i, j \in 1 .. Len(request_queue) :
         i < j /\ Control(request_queue[i]) /\ Control(request_queue[j])
           => request_queue[i].id < request_queue[j].id
    /\ in_progress # NULL /\ Control(in_progress) =>
         \A request \in Elements(request_queue) :
            Control(request) => in_progress.id < request.id

\* At most one SPEAK is not over for the client: the speaker, or the one SPEAK
\* that waits for its answer.
AskedInv ==
    sm_active =>
        /\ \A request \in Standing :
             request.method = "SPEAK" => request.id \in Ids /\ speech[request.id] = "asked"
        /\ \A a, b \in Ids : Unfinished(a) /\ Unfinished(b) => a = b
        /\ speaker # NULL => speaker.id \in Ids /\ speech[speaker.id] = "IN-PROGRESS"
        /\ \A id \in Ids : Unfinished(id) =>
             \/ speaker # NULL /\ speaker.id = id
             \/ \E request \in Standing : request.method = "SPEAK" /\ request.id = id

CarefulInv ==
    /\ NothingWaits /\ TurnInv /\ MethodsInv /\ HandedInv /\ NeedsInv /\ SpokenInv
    /\ OrderInv /\ AskedInv

\* A handler that follows the null pointer ends the process.
SafeInv == crashed \/ CarefulInv

-----------------------------------------------------------------------------
\* A message is put behind the others.
LastPlace(message, n) ==
    /\ \A i \in DOMAIN fromEngine :
          i \in Nat /\ i < n /\ i \in DOMAIN fromEngine' /\ fromEngine'[i] = fromEngine[i]
    /\ fromEngine'[n] = message
    /\ message.kind = "response" => AnswerPlaces' = AnswerPlaces \cup {n} /\ EventPlaces' = EventPlaces
    /\ message.kind = "event" => AnswerPlaces' = AnswerPlaces /\ EventPlaces' = EventPlaces \cup {n}

LEMMA MailAdded ==
    ASSUME Typed, NEW message \in EngineMessage, fromEngine' = Append(fromEngine, message)
    PROVE  \E n \in Nat : LastPlace(message, n)
<1>1. fromEngine \in Seq(EngineMessage)
  BY DEF Typed, TypeOK, MachineTypeOK
<1>2. PICK n \in Nat : n = Len(fromEngine) + 1
  BY <1>1
<1>3. /\ DOMAIN fromEngine' = DOMAIN fromEngine \cup {n} /\ fromEngine'[n] = message
      /\ \A i \in DOMAIN fromEngine :
           i \in Nat /\ i < n /\ i \in DOMAIN fromEngine' /\ fromEngine'[i] = fromEngine[i]
  BY <1>1, <1>2
<1>4. message.kind = "response" => AnswerPlaces' = AnswerPlaces \cup {n} /\ EventPlaces' = EventPlaces
  BY <1>3 DEF AnswerPlaces, EventPlaces
<1>5. message.kind = "event" => AnswerPlaces' = AnswerPlaces /\ EventPlaces' = EventPlaces \cup {n}
  BY <1>3 DEF AnswerPlaces, EventPlaces
<1>6. LastPlace(message, n)
  BY <1>3, <1>4, <1>5, Zenon DEF LastPlace
<1> QED
  BY <1>6, Zenon

LEMMA EventKinds ==
    ASSUME Typed
    PROVE  /\ AnswerPlaces \cup EventPlaces = DOMAIN fromEngine
           /\ AnswerPlaces \cap EventPlaces = {}
<1>1. fromEngine \in Seq(EngineMessage)
  BY DEF Typed, TypeOK, MachineTypeOK
<1>2. \A i \in DOMAIN fromEngine : fromEngine[i].kind \in {"response", "event"}
  <2>1. \A i \in DOMAIN fromEngine : fromEngine[i] \in EngineMessage
    BY <1>1
  <2>2. \A message \in EngineMessage : message.kind \in {"response", "event"}
    BY DEF EngineMessage
  <2> QED
    BY <2>1, <2>2, Zenon
<1>3. ASSUME NEW i \in AnswerPlaces PROVE i \notin EventPlaces
  <2>1. fromEngine[i].kind = "response"
    BY Zenon DEF AnswerPlaces
  <2>2. fromEngine[i].kind # "event"
    BY <2>1
  <2> QED
    BY <2>2, Zenon DEF EventPlaces
<1>4. AnswerPlaces \cup EventPlaces = DOMAIN fromEngine
  BY <1>2, Zenon DEF AnswerPlaces, EventPlaces
<1> QED
  BY <1>3, <1>4

\* Nothing is heard of a speech before it begins and after it is over.
LEMMA SilentBefore ==
    ASSUME Typed, HandedInv, NeedsInv, SpokenInv, active_request # NULL,
           active_request.method = "SPEAK", AnswerPlaces = {}
    PROVE  EngineSilent /\ EventPlaces = {} /\ speaker = NULL
<1>1. speaker = NULL
  BY DEF NeedsInv
<1>2. active_request \in Request
  BY DEF Typed, TypeOK, MachineTypeOK
<1>3. \A request : SpokenByEngine(request) => speaker = request
  BY DEF SpokenByEngine
<1>4. accepted = NULL /\ (speak_request = NULL \/ clearing)
  BY <1>1, <1>3 DEF SpokenInv
<1>5. ending = NULL
  BY <1>4 DEF SpokenInv
<1>6. EventPlaces = {}
  BY <1>1 DEF SpokenInv
<1> QED
  BY <1>1, <1>4, <1>5, <1>6 DEF EngineSilent

\* The frame of the plugin: session, machine and client.
LEMMA EngineFrame ==
    ASSUME UNCHANGED serverVars, UNCHANGED clientVars,
           TurnInv, MethodsInv, NeedsInv, OrderInv, AskedInv
    PROVE  TurnInv' /\ MethodsInv' /\ NeedsInv' /\ OrderInv' /\ AskedInv'
<1> USE DEF serverVars, sessionVars, machineVars, clientVars
<1>1. /\ in_progress' = in_progress /\ request_queue' = request_queue /\ dispatching' = dispatching
      /\ session_state' = session_state /\ sm_active' = sm_active /\ active_request' = active_request
      /\ speaker' = speaker /\ speech' = speech /\ next_id' = next_id
  OBVIOUS
<1>2. Standing' = Standing
  BY <1>1, Zenon DEF Standing, Elements
<1>3. TurnInv'
  BY <1>1 DEF TurnInv
<1>4. MethodsInv' /\ NeedsInv'
  BY <1>1, <1>2, Zenon DEF MethodsInv, NeedsInv
<1>5. OrderInv'
  BY <1>1, <1>2, Zenon DEF OrderInv, Elements
<1>6. AskedInv'
  <2>1. Ids' = Ids /\ \A id \in Ids : Unfinished(id)' <=> Unfinished(id)
    BY <1>1 DEF Unfinished, Ids
  <2> QED
    BY <1>1, <1>2, <2>1 DEF AskedInv
<1> QED
  BY <1>3, <1>4, <1>5, <1>6

\* The plugin's task takes the active request.
LEMMA TakenByTask ==
    ASSUME Typed, HandedInv, NEW methods, Engine!Takes(methods)
    PROVE  /\ accepted = NULL /\ toEngine # <<>> /\ toEngine' = <<>>
           /\ active_request \in Request /\ Head(toEngine) = active_request
           /\ active_request.method \in methods
           /\ stop_response = NULL \/ clearing
           /\ AnswerPlaces = {}
<1>1. accepted = NULL /\ toEngine # <<>> /\ toEngine' = Tail(toEngine) /\ Head(toEngine).method \in methods
  BY DEF Engine!Takes
<1>2. /\ toEngine = <<active_request>> /\ active_request # NULL /\ AnswerPlaces = {}
      /\ stop_response = NULL \/ clearing
  BY <1>1 DEF HandedInv
<1>3. active_request \in Request
  BY <1>2 DEF Typed, TypeOK, MachineTypeOK
<1>4. Head(<<active_request>>) = active_request /\ Tail(<<active_request>>) = <<>>
  OBVIOUS
<1> QED
  BY <1>1, <1>2, <1>3, <1>4

\* The answer to a request of the plugin's task that begins no speech.
LEMMA AnswerHanded ==
    ASSUME Typed, HandedInv, SpokenInv, active_request # NULL,
           AnswerPlaces = {}, stop_response = NULL \/ clearing, toEngine' = <<>>,
           NEW message \in EngineMessage, fromEngine' = Append(fromEngine, message),
           message.kind = "response", ~Begins(message), message.method \notin LeftToMedia,
           message.state # "PENDING",
           message.id = active_request.id, message.method = active_request.method,
           UNCHANGED <<active_request, speaker, speak_request, stop_response, accepted,
                       clearing, ending>>
    PROVE  HandedInv' /\ SpokenInv'
<1>1. PICK n \in Nat : LastPlace(message, n)
  BY MailAdded
<1>2. AnswerPlaces' = {n} /\ EventPlaces' = EventPlaces /\ fromEngine'[n] = message
  BY <1>1 DEF LastPlace
<1>3. \A i \in EventPlaces : fromEngine'[i] = fromEngine[i]
  BY <1>1 DEF LastPlace, EventPlaces
<1>4. HandedInv'
  BY <1>2 DEF HandedInv
<1>5. \A request : SpokenByEngine(request) => SpokenByEngine(request)'
  BY DEF SpokenByEngine
<1>6. EngineSilent' <=> EngineSilent
  BY DEF EngineSilent
<1>7. fromEngine'[n].method \notin LeftToMedia
  BY <1>2
<1>8. SpokenInv'
  <2>1. /\ accepted' = NULL \/ speak_request' = NULL \/ clearing'
        /\ accepted' # NULL => SpokenByEngine(accepted)'
        /\ speak_request' # NULL /\ ~clearing' => SpokenByEngine(speak_request)'
        /\ ending' # NULL => ~clearing' /\ ending' = speak_request' /\ accepted' = NULL
        /\ \A i, j \in EventPlaces' : i = j
    BY <1>2, <1>5 DEF SpokenInv
  <2>2. ASSUME NEW i \in EventPlaces' PROVE EngineSilent' /\ speaker' # NULL /\ speaker'.id = fromEngine'[i].id
    BY <1>2, <1>3, <1>6 DEF SpokenInv
  <2>3. \A i \in AnswerPlaces' : fromEngine'[i].method \notin LeftToMedia
    BY <1>2, <1>7
  <2> QED
    BY <2>1, <2>2, <2>3 DEF SpokenInv
<1> QED
  BY <1>4, <1>8

Untouched == UNCHANGED <<active_request, speaker>>

Answering(request) ==
    /\ request = active_request /\ request \in Request /\ accepted = NULL
    /\ AnswerPlaces = {} /\ toEngine' = <<>>
    /\ stop_response = NULL \/ clearing

\* The plugin's task answers a request at once, or refuses a SPEAK.
LEMMA AtOnceHanded ==
    ASSUME Typed, HandedInv, SpokenInv, Untouched,
           NEW state \in RequestStates \ {"PENDING", "IN-PROGRESS"},
           active_request.method \notin LeftToMedia,
           Answering(active_request), fromEngine' = Append(fromEngine, Response(active_request, state)),
           UNCHANGED <<speak_request, stop_response, accepted, clearing, ending>>
    PROVE  HandedInv' /\ SpokenInv'
<1>1. /\ active_request \in Request /\ active_request # NULL
      /\ AnswerPlaces = {} /\ toEngine' = <<>>
      /\ stop_response = NULL \/ clearing
  BY NullAssumption DEF Answering
<1>2. PICK message \in EngineMessage : message = Response(active_request, state)
  BY <1>1, MessageTypes
<1>3. /\ message.kind = "response" /\ message.state = state
      /\ message.id = active_request.id /\ message.method = active_request.method
  BY <1>2 DEF Response
<1>4. ~Begins(message) /\ message.method \notin LeftToMedia /\ message.state # "PENDING"
  BY <1>3 DEF Begins
<1> QED
  BY <1>1, <1>2, <1>3, <1>4, AnswerHanded DEF Untouched

\* The plugin's task accepts a SPEAK.
LEMMA AcceptedHanded ==
    ASSUME Typed, HandedInv, NeedsInv, SpokenInv, Untouched, Answering(active_request),
           active_request.method = "SPEAK", accepted' = active_request,
           fromEngine' = Append(fromEngine, Response(active_request, "IN-PROGRESS")),
           UNCHANGED <<speak_request, stop_response, clearing, ending>>
    PROVE  HandedInv' /\ SpokenInv'
<1>1. /\ active_request \in Request /\ active_request # NULL
      /\ AnswerPlaces = {} /\ toEngine' = <<>>
      /\ stop_response = NULL \/ clearing
  BY NullAssumption DEF Answering
<1>2. PICK message \in EngineMessage : message = Response(active_request, "IN-PROGRESS")
  BY <1>1, MessageTypes DEF RequestStates
<1>3. /\ message.kind = "response" /\ message.state = "IN-PROGRESS"
      /\ message.id = active_request.id /\ message.method = "SPEAK"
  BY <1>2 DEF Response
<1>4. EngineSilent /\ EventPlaces = {} /\ speaker = NULL
  BY <1>1, SilentBefore
<1>5. PICK n \in Nat : LastPlace(message, n)
  BY <1>2, MailAdded
<1>6. AnswerPlaces' = {n} /\ EventPlaces' = {} /\ fromEngine'[n] = message
  BY <1>1, <1>3, <1>4, <1>5 DEF LastPlace
<1>7. /\ active_request' = active_request /\ speaker' = NULL
      /\ stop_response' = NULL \/ clearing'
  BY <1>1, <1>4 DEF Untouched
<1>8. HandedInv'
  BY <1>1, <1>3, <1>6, <1>7 DEF HandedInv
<1>9. Begins(fromEngine[n])'
  BY <1>3, <1>6 DEF Begins
<1>10. SpokenByEngine(accepted)'
  BY <1>6, <1>7, <1>9 DEF SpokenByEngine
<1>11. (speak_request' = NULL \/ clearing') /\ ending' = NULL
  BY <1>4 DEF EngineSilent
<1>12. \A i \in AnswerPlaces' : fromEngine'[i].method \notin LeftToMedia
  BY <1>3, <1>6 DEF LeftToMedia
<1> QED
  BY <1>6, <1>7, <1>8, <1>10, <1>11, <1>12 DEF SpokenInv

\* What the plugin speaks is stored after the answer has left.
LEMMA StoredHanded ==
    ASSUME HandedInv, SpokenInv, Untouched, Engine!SpeakStored
    PROVE  HandedInv' /\ SpokenInv'
<1>1. /\ accepted # NULL /\ speak_request' = accepted /\ accepted' = NULL
      /\ UNCHANGED <<toEngine, fromEngine, stop_response, active_request, speaker,
                     clearing, ending>>
  BY DEF Engine!SpeakStored, Untouched
<1>2. AnswerPlaces' = AnswerPlaces /\ EventPlaces' = EventPlaces
  BY <1>1 DEF AnswerPlaces, EventPlaces
<1>3. ~EngineSilent /\ ending = NULL
  BY <1>1 DEF SpokenInv, EngineSilent
<1>4. HandedInv'
  BY <1>1, <1>2 DEF HandedInv
<1>5. \A request : SpokenByEngine(request)' <=> SpokenByEngine(request)
  BY <1>1, <1>2 DEF SpokenByEngine
<1>6. EventPlaces = {} /\ \A i \in AnswerPlaces : fromEngine[i].method \notin LeftToMedia
  BY <1>3 DEF SpokenInv
<1>7. SpokenByEngine(speak_request)'
  BY <1>1, <1>5 DEF SpokenInv
<1>8. \A i \in AnswerPlaces' : fromEngine'[i].method \notin LeftToMedia
  BY <1>1, <1>2, <1>6
<1> QED
  BY <1>1, <1>2, <1>3, <1>4, <1>6, <1>7, <1>8 DEF SpokenInv

\* A STOP is left to the next read of the stream.
LEMMA StopStoredHanded ==
    ASSUME HandedInv, SpokenInv, Untouched, Answering(active_request),
           active_request.method \in LeftToMedia, stop_response' = active_request,
           UNCHANGED <<fromEngine, speak_request, accepted, clearing, ending>>
    PROVE  HandedInv' /\ SpokenInv'
<1>1. /\ active_request' = active_request /\ speaker' = speaker
      /\ active_request # NULL /\ AnswerPlaces = {} /\ toEngine' = <<>> /\ accepted = NULL
  BY NullAssumption DEF Answering, Untouched
<1>2. AnswerPlaces' = {} /\ EventPlaces' = EventPlaces
  BY <1>1 DEF AnswerPlaces, EventPlaces
<1>3. HandedInv'
  BY <1>1, <1>2 DEF HandedInv
<1>4. \A request : SpokenByEngine(request)' <=> SpokenByEngine(request)
  BY <1>1, <1>2 DEF SpokenByEngine
<1>5. EngineSilent' <=> EngineSilent
  BY DEF EngineSilent
<1> QED
  BY <1>1, <1>2, <1>3, <1>4, <1>5 DEF SpokenInv

\* A read of the stream answers a STOP.
LEMMA StopAnsweredHanded ==
    ASSUME Typed, HandedInv, NeedsInv, SpokenInv, Untouched, Engine!StopAnswered
    PROVE  HandedInv' /\ SpokenInv'
<1>1. /\ stop_response # NULL /\ ~clearing /\ ending = NULL /\ clearing' = TRUE
      /\ UNCHANGED <<toEngine, speak_request, stop_response, accepted, ending>>
      /\ fromEngine' = Append(fromEngine, Response(stop_response, "COMPLETE"))
  BY SameMessages DEF Engine!StopAnswered, Engine!ReadStarts, Engine!SendToServer
<1>2. /\ stop_response = active_request /\ active_request # NULL
      /\ active_request.method \in LeftToMedia
      /\ accepted = NULL /\ AnswerPlaces = {} /\ toEngine = <<>>
  BY <1>1 DEF HandedInv
<1>3. active_request \in Request
  BY <1>2 DEF Typed, TypeOK, MachineTypeOK
<1>4. PICK message \in EngineMessage : message = Response(active_request, "COMPLETE")
  BY <1>3, MessageTypes DEF RequestStates
<1>5. /\ message.kind = "response" /\ message.id = active_request.id
      /\ message.method = active_request.method /\ message.state = "COMPLETE"
  BY <1>4 DEF Response
<1>6. PICK n \in Nat : LastPlace(message, n)
  BY <1>1, <1>2, <1>4, MailAdded
<1>7. AnswerPlaces' = {n} /\ EventPlaces' = EventPlaces /\ fromEngine'[n] = message
  BY <1>2, <1>5, <1>6 DEF LastPlace
<1>8. active_request' = active_request /\ speaker' = speaker
  BY DEF Untouched
<1>9. HandedInv'
  BY <1>1, <1>2, <1>5, <1>7, <1>8 DEF HandedInv
<1>10. \A i \in EventPlaces : i < n /\ fromEngine'[i] = fromEngine[i]
  BY <1>6 DEF LastPlace, EventPlaces
<1>11. EngineSilent'
  BY <1>1, <1>2 DEF EngineSilent
<1>12. \A i \in EventPlaces : speaker # NULL /\ speaker.id = fromEngine[i].id
  BY <1>2 DEF SpokenInv
<1>13. \A i, j \in EventPlaces : i = j
  BY DEF SpokenInv
<1>14. \A i \in EventPlaces' : EngineSilent' /\ speaker' # NULL /\ speaker'.id = fromEngine'[i].id
  BY <1>7, <1>8, <1>10, <1>11, <1>12
<1>15. \A i \in AnswerPlaces' : EngineSilent' /\ \A j \in EventPlaces' : j < i
  BY <1>7, <1>10, <1>11
<1> QED
  BY <1>1, <1>2, <1>7, <1>9, <1>13, <1>14, <1>15 DEF SpokenInv

\* The read forgets what it has stopped.
LEMMA StopClearedHanded ==
    ASSUME HandedInv, SpokenInv, Untouched, Engine!StopCleared
    PROVE  HandedInv' /\ SpokenInv'
<1>1. /\ clearing /\ clearing' = FALSE /\ stop_response' = NULL /\ speak_request' = NULL
      /\ UNCHANGED <<toEngine, fromEngine, accepted, ending, active_request, speaker>>
  BY DEF Engine!StopCleared, Untouched
<1>2. AnswerPlaces' = AnswerPlaces /\ EventPlaces' = EventPlaces
  BY <1>1 DEF AnswerPlaces, EventPlaces
<1>3. HandedInv'
  BY <1>1, <1>2 DEF HandedInv
<1>4. \A request : SpokenByEngine(request)' <=> SpokenByEngine(request)
  BY <1>1, <1>2 DEF SpokenByEngine
<1>5. EngineSilent => EngineSilent'
  BY <1>1 DEF EngineSilent
<1>6. accepted # NULL => SpokenByEngine(accepted)'
  BY <1>1, <1>4 DEF SpokenInv
<1>7. ending' = NULL
  BY <1>1 DEF SpokenInv
<1> QED
  BY <1>1, <1>2, <1>3, <1>5, <1>6, <1>7 DEF SpokenInv, Begins

\* A read of the stream finds the end of the speech.
LEMMA SpeechEndsHanded ==
    ASSUME HandedInv, SpokenInv, Untouched, Engine!SpeechEnds
    PROVE  HandedInv' /\ SpokenInv'
<1>1. /\ speak_request # NULL /\ ~clearing /\ ending' = speak_request
      /\ UNCHANGED <<toEngine, fromEngine, speak_request, stop_response, accepted, clearing,
                     active_request, speaker>>
  BY DEF Engine!SpeechEnds, Engine!ReadStarts, Untouched
<1>2. AnswerPlaces' = AnswerPlaces /\ EventPlaces' = EventPlaces
  BY <1>1 DEF AnswerPlaces, EventPlaces
<1>3. HandedInv'
  BY <1>1, <1>2 DEF HandedInv
<1>4. \A request : SpokenByEngine(request)' <=> SpokenByEngine(request)
  BY <1>1, <1>2 DEF SpokenByEngine
<1>5. accepted = NULL /\ ~EngineSilent
  BY <1>1 DEF SpokenInv, EngineSilent
<1>6. EventPlaces = {} /\ \A i \in AnswerPlaces : fromEngine[i].method \notin LeftToMedia
  BY <1>5 DEF SpokenInv
<1>7. SpokenByEngine(speak_request)'
  BY <1>1, <1>4 DEF SpokenInv
<1>8. \A i \in AnswerPlaces' : fromEngine'[i].method \notin LeftToMedia
  BY <1>1, <1>2, <1>6
<1> QED
  BY <1>1, <1>2, <1>3, <1>5, <1>6, <1>7, <1>8 DEF SpokenInv

\* The end of the speech is announced.
LEMMA SpeechClearedHanded ==
    ASSUME Typed, HandedInv, NeedsInv, SpokenInv, Untouched, Engine!SpeechCleared
    PROVE  HandedInv' /\ SpokenInv'
<1>1. /\ ending # NULL /\ ending' = NULL /\ speak_request' = NULL
      /\ UNCHANGED <<toEngine, stop_response, accepted, clearing>>
      /\ fromEngine' = Append(fromEngine, Event("SPEAK-COMPLETE", ending))
  BY SameMessages DEF Engine!SpeechCleared, Engine!SendToServer
<1>2. ending \in Request
  BY <1>1, SameMessages DEF Typed, TypeOK, Engine!EngineTypeOK
<1>3. PICK message \in EngineMessage : message = Event("SPEAK-COMPLETE", ending)
  <2>1. "SPEAK-COMPLETE" \in EventNames
    BY DEF EventNames
  <2> QED
    BY <1>2, <2>1, MessageTypes, Zenon
<1>4. message.kind = "event" /\ message.id = ending.id
  BY <1>3 DEF Event
<1>5. PICK n \in Nat : LastPlace(message, n)
  BY <1>1, <1>3, MailAdded
<1>6. ~EngineSilent
  BY <1>1 DEF EngineSilent
<1>7. accepted = NULL /\ EventPlaces = {} /\ SpokenByEngine(ending)
  <2>1. ending = speak_request /\ ~clearing /\ accepted = NULL
    BY <1>1 DEF SpokenInv
  <2> QED
    BY <1>1, <1>6, <2>1 DEF SpokenInv
<1>8. /\ AnswerPlaces' = AnswerPlaces /\ EventPlaces' = {n} /\ fromEngine'[n] = message
      /\ \A i \in AnswerPlaces : i < n /\ fromEngine'[i] = fromEngine[i]
  BY <1>4, <1>5, <1>7 DEF LastPlace, AnswerPlaces
<1>9. active_request' = active_request /\ speaker' = speaker
  BY DEF Untouched
<1>10. HandedInv'
  BY <1>1, <1>8, <1>9 DEF HandedInv
<1>11. EngineSilent'
  BY <1>1, <1>7 DEF EngineSilent
<1>12. \A i \in AnswerPlaces : fromEngine[i].method \notin LeftToMedia
  BY <1>6 DEF SpokenInv
<1>13. \/ (speaker # NULL /\ speaker.id = fromEngine'[n].id)
       \/ \E j \in AnswerPlaces' :
             j < n /\ Begins(fromEngine[j])' /\ active_request.id = fromEngine'[n].id
  <2>1. CASE speaker = ending
    BY <1>1, <1>4, <1>8, <2>1
  <2>2. CASE active_request = ending /\ \E j \in AnswerPlaces : Begins(fromEngine[j])
    <3>1. PICK j \in AnswerPlaces : Begins(fromEngine[j])
      BY <2>2
    <3>2. Begins(fromEngine[j])' /\ j < n /\ j \in AnswerPlaces'
      BY <1>8, <3>1 DEF Begins
    <3>3. active_request.id = fromEngine'[n].id
      BY <1>4, <1>8, <2>2
    <3> QED
      BY <3>2, <3>3
  <2> QED
    BY <1>7, <2>1, <2>2 DEF SpokenByEngine
<1>14. \A i \in AnswerPlaces' : fromEngine'[i].method \notin LeftToMedia
  BY <1>8, <1>12
<1> QED
  BY <1>1, <1>7, <1>8, <1>9, <1>10, <1>11, <1>13, <1>14 DEF SpokenInv, EngineSilent

\* A step of the plugin, whichever of its threads takes it.
LEMMA EngineCareful ==
    ASSUME Typed, CarefulInv, PluginStep \/ MediaStep
    PROVE  CarefulInv'
<1>1. /\ NothingWaits /\ TurnInv /\ MethodsInv /\ HandedInv /\ NeedsInv /\ SpokenInv
      /\ OrderInv /\ AskedInv
  BY Zenon DEF CarefulInv
<1>2. UNCHANGED serverVars /\ UNCHANGED clientVars
  BY DEF PluginStep, MediaStep
<1>3. TurnInv' /\ MethodsInv' /\ NeedsInv' /\ OrderInv' /\ AskedInv'
  BY <1>1, <1>2, EngineFrame
<1>4. Untouched
  BY <1>2 DEF Untouched, serverVars, machineVars
<1> SUFFICES HandedInv' /\ SpokenInv'
  <2>1. is_pending' = is_pending /\ deferred' = deferred /\ speak_queue' = speak_queue
    BY <1>2 DEF serverVars, machineVars
  <2> QED
    BY <1>1, <1>3, <2>1 DEF CarefulInv, NothingWaits
<1>5. ASSUME NEW methods, Engine!Takes(methods)
      PROVE  /\ Answering(active_request) /\ Head(toEngine) = active_request
             /\ active_request.method \in methods
  BY <1>1, <1>5, TakenByTask DEF Answering
<1>6. ASSUME NEW methods \in SUBSET (SynthMethods \ LeftToMedia), Engine!Takes(methods),
             fromEngine' = Append(fromEngine, Response(Head(toEngine), "COMPLETE")),
             UNCHANGED <<speak_request, stop_response, accepted, clearing, ending>>
      PROVE  HandedInv' /\ SpokenInv'
  <2>1. Answering(active_request) /\ Head(toEngine) = active_request /\ active_request.method \in methods
    BY <1>5, <1>6
  <2>2. active_request.method \notin LeftToMedia
    BY <2>1
  <2>3. "COMPLETE" \in RequestStates \ {"PENDING", "IN-PROGRESS"}
    BY DEF RequestStates
  <2> QED
    BY <1>1, <1>4, <1>6, <2>1, <2>2, <2>3, AtOnceHanded
<1>7. CASE Engine!SpeakAccepted
  <2>1. /\ Engine!Takes({"SPEAK"}) /\ accepted' = Head(toEngine)
        /\ fromEngine' = Append(fromEngine, Response(Head(toEngine), "IN-PROGRESS"))
        /\ UNCHANGED <<speak_request, stop_response, clearing, ending>>
    BY <1>7, SameMessages DEF Engine!SpeakAccepted, Engine!SendToServer
  <2>2. Answering(active_request) /\ Head(toEngine) = active_request /\ active_request.method = "SPEAK"
    BY <1>5, <2>1
  <2> QED
    BY <1>1, <1>4, <2>1, <2>2, AcceptedHanded
<1>8. CASE Engine!SpeakStored
  BY <1>1, <1>4, <1>8, StoredHanded
<1>9. CASE Engine!SpeakRefused
  <2>1. /\ Engine!Takes({"SPEAK"})
        /\ fromEngine' = Append(fromEngine, Response(Head(toEngine), "COMPLETE"))
        /\ UNCHANGED <<speak_request, stop_response, accepted, clearing, ending>>
    BY <1>9, SameMessages DEF Engine!SpeakRefused, Engine!SendToServer
  <2>2. {"SPEAK"} \in SUBSET (SynthMethods \ LeftToMedia)
    BY DEF SynthMethods, LeftToMedia
  <2> QED
    BY <1>6, <2>1, <2>2
<1>10. CASE Engine!StopStored
  <2>1. /\ Engine!Takes({"STOP", "BARGE-IN-OCCURRED"}) /\ stop_response' = Head(toEngine)
        /\ UNCHANGED <<fromEngine, speak_request, accepted, clearing, ending>>
    BY <1>10 DEF Engine!StopStored
  <2>2. /\ Answering(active_request) /\ Head(toEngine) = active_request
        /\ active_request.method \in LeftToMedia
    BY <1>5, <2>1 DEF LeftToMedia
  <2> QED
    BY <1>1, <1>4, <2>1, <2>2, StopStoredHanded
<1>11. CASE Engine!PauseOrResume
  <2>1. /\ Engine!Takes({"PAUSE", "RESUME"})
        /\ fromEngine' = Append(fromEngine, Response(Head(toEngine), "COMPLETE"))
        /\ UNCHANGED <<speak_request, stop_response, accepted, clearing, ending>>
    BY <1>11, SameMessages DEF Engine!PauseOrResume, Engine!SendToServer
  <2>2. {"PAUSE", "RESUME"} \in SUBSET (SynthMethods \ LeftToMedia)
    BY DEF SynthMethods, LeftToMedia
  <2> QED
    BY <1>6, <2>1, <2>2
<1>12. CASE Engine!OtherAnswered
  <2>1. /\ Engine!Takes({"SET-PARAMS", "CONTROL", "DEFINE-LEXICON"})
        /\ fromEngine' = Append(fromEngine, Response(Head(toEngine), "COMPLETE"))
        /\ UNCHANGED <<speak_request, stop_response, accepted, clearing, ending>>
    BY <1>12, SameMessages DEF Engine!OtherAnswered, Engine!SendToServer
  <2>2. {"SET-PARAMS", "CONTROL", "DEFINE-LEXICON"} \in SUBSET (SynthMethods \ LeftToMedia)
    BY DEF SynthMethods, LeftToMedia
  <2> QED
    BY <1>6, <2>1, <2>2
<1>13. CASE Engine!StopAnswered
  BY <1>1, <1>4, <1>13, StopAnsweredHanded
<1>14. CASE Engine!StopCleared
  BY <1>1, <1>4, <1>14, StopClearedHanded
<1>15. CASE Engine!SpeechEnds
  BY <1>1, <1>4, <1>15, SpeechEndsHanded
<1>16. CASE Engine!SpeechCleared
  BY <1>1, <1>4, <1>16, SpeechClearedHanded
<1> QED
  BY <1>7, <1>8, <1>9, <1>10, <1>11, <1>12, <1>13, <1>14, <1>15, <1>16
     DEF PluginStep, MediaStep, Engine!PluginNext, Engine!MediaNext

-----------------------------------------------------------------------------
(* The client.                                                             *)

\* What machine and plugin have of their own.
LEMMA QuietFrame ==
    ASSUME UNCHANGED <<active_request, speaker, speak_queue, is_pending, deferred>>,
           UNCHANGED <<toEngine, fromEngine, channelVars>>,
           NothingWaits, HandedInv, NeedsInv, SpokenInv
    PROVE  NothingWaits' /\ HandedInv' /\ NeedsInv' /\ SpokenInv'
<1>1. /\ active_request' = active_request /\ speaker' = speaker /\ speak_queue' = speak_queue
      /\ is_pending' = is_pending /\ deferred' = deferred
      /\ toEngine' = toEngine /\ fromEngine' = fromEngine /\ speak_request' = speak_request
      /\ stop_response' = stop_response /\ accepted' = accepted
      /\ clearing' = clearing /\ ending' = ending
  BY DEF channelVars
<1>2. AnswerPlaces' = AnswerPlaces /\ EventPlaces' = EventPlaces
  BY <1>1, Zenon DEF AnswerPlaces, EventPlaces
<1>3. NothingWaits' /\ NeedsInv'
  BY <1>1 DEF NothingWaits, NeedsInv
<1>4. HandedInv'
  BY <1>1, <1>2, Zenon DEF HandedInv
<1>5. \A request : SpokenByEngine(request)' <=> SpokenByEngine(request)
  BY <1>1, <1>2, Zenon DEF SpokenByEngine, Begins
<1>6. EngineSilent' <=> EngineSilent
  BY <1>1, Zenon DEF EngineSilent
<1>7. SpokenByEngine(accepted)' <=> SpokenByEngine(accepted)
  BY <1>1, <1>2, Zenon DEF SpokenByEngine, Begins
<1>8. SpokenByEngine(speak_request)' <=> SpokenByEngine(speak_request)
  BY <1>1, <1>2, Zenon DEF SpokenByEngine, Begins
<1>9. \A i : Begins(fromEngine[i])' <=> Begins(fromEngine[i])
  BY <1>1, Zenon DEF Begins
<1>10. SpokenInv'
  BY <1>1, <1>2, <1>6, <1>7, <1>8, <1>9, Zenon DEF SpokenInv
<1> QED
  BY <1>3, <1>4, <1>10

\* A request arrives behind the others, and it is the newest.
LEMMA ArriveOrdered ==
    ASSUME Typed, ~dispatching, TurnInv, MethodsInv, OrderInv, NEW request \in Request,
           Arrive(request), UNCHANGED <<sm_active, active_request>>,
           request.method \in SynthMethods \cup {"TERMINATE"}, next_id' \in Nat,
           Control(request) => request.id = next_id /\ next_id' = next_id + 1,
           ~Control(request) => next_id' = next_id
    PROVE  /\ TurnInv' /\ MethodsInv' /\ OrderInv'
           /\ Standing' = Standing \cup {request}
<1>1. /\ request_queue \in Seq(Request) /\ request # NULL /\ next_id \in Nat \ {0}
  BY NullAssumption DEF Typed, TypeOK, MachineTypeOK, SessionTypeOK
<1>2. session_state' = session_state /\ Enqueue(request)
  BY DEF Arrive
<1>3. CASE in_progress = NULL
  <2>1. /\ in_progress' = request /\ dispatching' = TRUE /\ request_queue' = request_queue
        /\ request_queue = <<>>
    BY <1>2, <1>3 DEF Enqueue, TurnInv
  <2>2. Elements(request_queue) = {} /\ Elements(request_queue') = {}
    BY <2>1, NoElements
  <2>3. Standing = {} /\ Standing' = {request}
    BY <1>1, <1>3, <2>1, <2>2 DEF Standing
  <2>4. TurnInv'
    BY <1>1, <1>2, <1>3, <2>1 DEF TurnInv
  <2>5. MethodsInv'
    BY <2>3 DEF MethodsInv
  <2>6. Len(request_queue') = 0
    BY <2>1
  <2>7. Control(request) => request.id \in 1 .. next_id' - 1
    BY <1>1
  <2>8. OrderInv'
    BY <2>2, <2>3, <2>6, <2>7 DEF OrderInv, Control
  <2> QED
    BY <2>3, <2>4, <2>5, <2>8
<1>4. CASE in_progress # NULL
  <2>1. /\ in_progress' = in_progress /\ dispatching' = dispatching
        /\ request_queue' = Append(request_queue, request)
    BY <1>2, <1>4 DEF Enqueue
  <2>2. Elements(request_queue') = Elements(request_queue) \cup {request}
    BY <1>1, <2>1, QueueElements
  <2>3. Standing' = Standing \cup {request}
    BY <2>1, <2>2 DEF Standing
  <2>4. TurnInv'
    BY <1>2, <1>4, <2>1 DEF TurnInv
  <2>5. MethodsInv'
    BY <2>3 DEF MethodsInv
  <2>6. \A other \in Standing : Control(other) => other.id \in 1 .. next_id - 1
    BY DEF OrderInv
  <2>7. ASSUME NEW other \in Standing', Control(other) PROVE other.id \in 1 .. next_id' - 1
    <3>1. CASE other \in Standing
      BY <1>1, <2>6, <2>7, <3>1
    <3>2. CASE other = request
      BY <1>1, <2>7, <3>2
    <3> QED
      BY <2>3, <3>1, <3>2
  <2>8. /\ Len(request_queue') = Len(request_queue) + 1 /\ Len(request_queue) \in Nat
        /\ \A i \in 1 .. Len(request_queue) : request_queue'[i] = request_queue[i]
        /\ request_queue'[Len(request_queue) + 1] = request
    BY <1>1, <2>1
  <2>9. \A i \in 1 .. Len(request_queue) : request_queue[i] \in Standing
    BY DEF Standing, Elements
  <2>10. ASSUME NEW i \in 1 .. Len(request_queue'), NEW j \in 1 .. Len(request_queue'),
                i < j, Control(request_queue'[i]), Control(request_queue'[j])
         PROVE  request_queue'[i].id < request_queue'[j].id
    <3>1. i \in 1 .. Len(request_queue)
      BY <2>8, <2>10
    <3>2. CASE j \in 1 .. Len(request_queue)
      BY <2>8, <2>10, <3>1, <3>2 DEF OrderInv
    <3>3. CASE j = Len(request_queue) + 1
      <4>1. Control(request) /\ request.id = next_id /\ request_queue'[j] = request
        BY <2>8, <2>10, <3>3
      <4>2. request_queue[i].id \in 1 .. next_id - 1 /\ request_queue'[i] = request_queue[i]
        BY <2>6, <2>8, <2>9, <2>10, <3>1
      <4> QED
        BY <1>1, <4>1, <4>2
    <3> QED
      BY <2>8, <3>2, <3>3
  <2>11. ASSUME Control(in_progress), NEW other \in Elements(request_queue'), Control(other)
         PROVE  in_progress.id < other.id
    <3>1. CASE other \in Elements(request_queue)
      BY <1>4, <2>11, <3>1 DEF OrderInv
    <3>2. CASE other = request
      <4>1. in_progress \in Standing
        BY <1>4 DEF Standing
      <4>2. in_progress.id \in 1 .. next_id - 1
        BY <2>6, <2>11, <4>1
      <4> QED
        BY <1>1, <2>11, <3>2, <4>2
    <3> QED
      BY <2>2, <2>11, <3>1, <3>2
  <2>12. OrderInv'
    BY <2>1, <2>7, <2>10, <2>11 DEF OrderInv, Control
  <2> QED
    BY <2>3, <2>4, <2>5, <2>12
<1> QED
  BY <1>3, <1>4

LEMMA ClientCareful ==
    ASSUME ~Queueing, Typed, CarefulInv, ClientStep
    PROVE  CarefulInv'
<1>1. /\ NothingWaits /\ TurnInv /\ MethodsInv /\ HandedInv /\ NeedsInv /\ SpokenInv
      /\ OrderInv /\ AskedInv
  BY Zenon DEF CarefulInv
<1>2. UNCHANGED <<machineVars, queueVars, channelVars>> /\ ~dispatching
  BY Zenon DEF ClientStep, ClientNext, ClientRequest, ClientTerminate, Waiting
<1>3. NothingWaits' /\ HandedInv' /\ NeedsInv' /\ SpokenInv'
  <2>1. UNCHANGED <<active_request, speaker, speak_queue, is_pending, deferred>>
    BY <1>2 DEF machineVars
  <2>2. UNCHANGED <<toEngine, fromEngine, channelVars>>
    BY <1>2 DEF queueVars
  <2> QED
    BY <1>1, <2>1, <2>2, QuietFrame
<1>4. sm_active' = sm_active /\ active_request' = active_request /\ speaker' = speaker
  BY <1>2 DEF machineVars
<1>5. next_id \in 1 .. MaxRequests + 1 /\ speech \in [Ids -> {"none", "asked"} \cup RequestStates]
  BY DEF Typed, TypeOK, MachineTypeOK, SessionTypeOK
<1>6. CASE ClientTerminate
  <2>1. Arrive(TerminateRequest) /\ next_id' = next_id /\ speech' = speech
    BY <1>6 DEF ClientTerminate, ArriveTerminate
  <2>2. TerminateRequest \in Request /\ TerminateRequest.method = "TERMINATE"
    BY MessageTypes DEF TerminateRequest
  <2>3. ~Control(TerminateRequest)
    BY <2>2 DEF Control
  <2>4. TurnInv' /\ MethodsInv' /\ OrderInv' /\ Standing' = Standing \cup {TerminateRequest}
    BY <1>1, <1>2, <1>4, <1>5, <2>1, <2>2, <2>3, MessageAssumption, ArriveOrdered
  <2>5. \A id : Unfinished(id)' <=> Unfinished(id)
    BY <2>1 DEF Unfinished
  <2>6. AskedInv'
    BY <1>1, <1>4, <2>1, <2>2, <2>4, <2>5 DEF AskedInv
  <2> QED
    BY <1>3, <2>4, <2>6 DEF CarefulInv
<1>7. ASSUME NEW method \in Methods, NEW only \in Selections, NEW flag \in BOOLEAN,
             ClientRequest(method, only, flag)
      PROVE  CarefulInv'
  <2>1. PICK request : request = NewRequest(method, only, flag)
    OBVIOUS
  <2>2. /\ request \in Request /\ request.id = next_id /\ request.method = method
    BY <1>5, <2>1, MessageAssumption DEF NewRequest, Request, Selections
  <2>3. /\ Arrive(request) /\ next_id' = next_id + 1 /\ next_id \in Ids
        /\ method = "SPEAK" => \A id \in Ids : ~Unfinished(id)
        /\ speech' = IF method = "SPEAK" THEN [speech EXCEPT ![next_id] = "asked"] ELSE speech
    BY <1>5, <1>7, <2>1, MessageAssumption DEF ClientRequest, ArriveRequest, Ids
  <2>4. method \in SynthMethods /\ method # "TERMINATE"
    BY QueueingAssumption DEF SynthMethods
  <2>5. Control(request)
    BY <2>2, <2>4 DEF Control
  <2>6. TurnInv' /\ MethodsInv' /\ OrderInv' /\ Standing' = Standing \cup {request}
    BY <1>1, <1>2, <1>4, <1>5, <2>2, <2>3, <2>4, <2>5, MessageAssumption, ArriveOrdered
  <2>7. CASE method # "SPEAK"
    <3>1. \A id : Unfinished(id)' <=> Unfinished(id)
      BY <2>3, <2>7 DEF Unfinished
    <3> QED
      BY <1>1, <1>3, <1>4, <2>2, <2>3, <2>6, <2>7, <3>1 DEF CarefulInv, AskedInv
  <2>8. CASE method = "SPEAK"
    <3>1. /\ speech'[next_id] = "asked"
          /\ \A id \in Ids : id # next_id => speech'[id] = speech[id]
      BY <1>5, <2>3, <2>8
    <3>2. \A id \in Ids : Unfinished(id)' => id = next_id
      BY <2>3, <2>8, <3>1 DEF Unfinished
    <3>3. \A other \in Standing : other.method = "SPEAK" /\ other.id \in Ids => speech[other.id] # "asked"
      BY <2>3, <2>8 DEF Unfinished
    <3>4. sm_active => speaker = NULL /\ \A other \in Standing : other.method # "SPEAK"
      BY <1>1, <2>3, <2>8, <3>3 DEF AskedInv, Unfinished
    <3>5. AskedInv'
      BY <1>4, <2>2, <2>3, <2>6, <2>8, <3>1, <3>2, <3>4 DEF AskedInv
    <3> QED
      BY <1>3, <2>6, <3>5 DEF CarefulInv
  <2> QED
    BY <2>7, <2>8
<1> QED
  BY <1>6, <1>7 DEF ClientStep, ClientNext

-----------------------------------------------------------------------------
(* The server task takes a message of the plugin.                          *)

\* The first message is taken: the others move up.
LEMMA MailTaken ==
    ASSUME Typed, NEW kind, Receives(kind)
    PROVE  /\ 1 \in DOMAIN fromEngine /\ Received = fromEngine[1] /\ Received.kind = kind
           /\ \A i \in AnswerPlaces' : i \in Nat /\ i + 1 \in AnswerPlaces /\ fromEngine'[i] = fromEngine[i + 1]
           /\ \A i \in EventPlaces' : i \in Nat /\ i + 1 \in EventPlaces /\ fromEngine'[i] = fromEngine[i + 1]
           /\ \A i \in AnswerPlaces : i # 1 => i - 1 \in AnswerPlaces' /\ i - 1 \in Nat /\ fromEngine'[i - 1] = fromEngine[i]
           /\ \A i \in EventPlaces : i # 1 => i - 1 \in EventPlaces' /\ i - 1 \in Nat /\ fromEngine'[i - 1] = fromEngine[i]
           /\ \A i \in AnswerPlaces \cup EventPlaces : i \in Nat /\ i >= 1
<1>1. fromEngine \in Seq(EngineMessage) /\ fromEngine # <<>> /\ fromEngine' = Tail(fromEngine)
  BY TypedQueues DEF Receives
<1>2. 1 \in DOMAIN fromEngine /\ Received = fromEngine[1] /\ Received.kind = kind
  BY <1>1 DEF Receives, Received
<1>3. \A i \in DOMAIN fromEngine' : i \in Nat /\ i + 1 \in DOMAIN fromEngine /\ fromEngine'[i] = fromEngine[i + 1]
  BY <1>1
<1>4. \A i \in DOMAIN fromEngine : i # 1 => i - 1 \in DOMAIN fromEngine' /\ i - 1 \in Nat /\ fromEngine'[i - 1] = fromEngine[i]
  BY <1>1
<1>5. \A i \in DOMAIN fromEngine : i \in Nat /\ i >= 1
  BY <1>1
<1>6. /\ \A i \in AnswerPlaces' : i \in Nat /\ i + 1 \in AnswerPlaces /\ fromEngine'[i] = fromEngine[i + 1]
      /\ \A i \in EventPlaces' : i \in Nat /\ i + 1 \in EventPlaces /\ fromEngine'[i] = fromEngine[i + 1]
  BY <1>3 DEF AnswerPlaces, EventPlaces
<1>7. /\ \A i \in AnswerPlaces : i # 1 => i - 1 \in AnswerPlaces' /\ i - 1 \in Nat /\ fromEngine'[i - 1] = fromEngine[i]
      /\ \A i \in EventPlaces : i # 1 => i - 1 \in EventPlaces' /\ i - 1 \in Nat /\ fromEngine'[i - 1] = fromEngine[i]
  BY <1>4 DEF AnswerPlaces, EventPlaces
<1>8. \A i \in AnswerPlaces \cup EventPlaces : i \in Nat /\ i >= 1
  BY <1>5, Zenon DEF AnswerPlaces, EventPlaces
<1> QED
  BY <1>2, <1>6, <1>7, <1>8

\* An answer is the only one, and it is the awaited one.
LEMMA AnswerTaken ==
    ASSUME Typed, HandedInv, Receives("response")
    PROVE  /\ AnswerPlaces = {1} /\ AnswerPlaces' = {} /\ Received = fromEngine[1]
           /\ Awaited /\ Received.method = active_request.method /\ Received.state # "PENDING"
           /\ toEngine = <<>>
           /\ stop_response = NULL \/ clearing
<1>1. 1 \in DOMAIN fromEngine /\ Received = fromEngine[1] /\ Received.kind = "response"
  BY MailTaken
<1>2. 1 \in AnswerPlaces
  BY <1>1 DEF AnswerPlaces
<1>3. AnswerPlaces = {1} /\ active_request # NULL
  BY <1>2 DEF HandedInv
<1>4. AnswerPlaces' = {}
  <2>1. ASSUME NEW i \in AnswerPlaces' PROVE FALSE
    <3>1. i \in Nat /\ i + 1 \in AnswerPlaces /\ \A j \in AnswerPlaces : j >= 1 /\ j \in Nat
      BY <2>1, MailTaken
    <3>2. i + 1 = 1
      BY <1>3, <3>1
    <3>3. i = 0
      BY <3>1, <3>2
    <3>4. fromEngine' \in Seq(EngineMessage)
      <4>1. fromEngine \in Seq(EngineMessage) /\ fromEngine # <<>> /\ fromEngine' = Tail(fromEngine)
        BY TypedQueues DEF Receives
      <4> QED
        BY <4>1
    <3>5. i \in DOMAIN fromEngine'
      BY <2>1, Zenon DEF AnswerPlaces
    <3> QED
      BY <3>3, <3>4, <3>5
  <2> QED
    BY <2>1
<1>5. Awaited /\ Received.method = active_request.method /\ Received.state # "PENDING"
  BY <1>1, <1>2, <1>3 DEF HandedInv, Awaited
<1> QED
  BY <1>1, <1>2, <1>3, <1>4, <1>5 DEF HandedInv

\* An event is the only one, and it is the end of the speaker.
LEMMA EventTaken ==
    ASSUME Typed, SpokenInv, Receives("event")
    PROVE  /\ EventPlaces = {1} /\ EventPlaces' = {} /\ EngineSilent
           /\ speaker # NULL /\ speaker.id = Received.id
<1>1. 1 \in DOMAIN fromEngine /\ Received = fromEngine[1] /\ Received.kind = "event"
  BY MailTaken
<1>2. 1 \in EventPlaces
  BY <1>1 DEF EventPlaces
<1>3. EventPlaces = {1} /\ EngineSilent
  BY <1>2 DEF SpokenInv
<1>4. EventPlaces' = {}
  <2>1. ASSUME NEW i \in EventPlaces' PROVE FALSE
    <3>1. i \in Nat /\ i + 1 \in EventPlaces
      BY <2>1, MailTaken
    <3>2. i + 1 = 1
      BY <1>3, <3>1
    <3>3. i = 0
      BY <3>1, <3>2
    <3>4. fromEngine' \in Seq(EngineMessage)
      <4>1. fromEngine \in Seq(EngineMessage) /\ fromEngine # <<>> /\ fromEngine' = Tail(fromEngine)
        BY TypedQueues DEF Receives
      <4> QED
        BY <4>1
    <3>5. i \in DOMAIN fromEngine'
      BY <2>1, Zenon DEF EventPlaces
    <3> QED
      BY <3>3, <3>4, <3>5
  <2> QED
    BY <2>1
<1>5. \A j \in AnswerPlaces : ~(j < 1)
  <2>1. \A j \in AnswerPlaces : j \in Nat /\ j >= 1
    BY MailTaken
  <2> QED
    BY <2>1
<1>6. \/ (speaker # NULL /\ speaker.id = fromEngine[1].id)
      \/ \E j \in AnswerPlaces : j < 1
  BY <1>2 DEF SpokenInv
<1> QED
  BY <1>1, <1>3, <1>4, <1>5, <1>6

-----------------------------------------------------------------------------
(* The session goes on to the next request.                                *)

LEMMA PopOrdered ==
    ASSUME Typed, OrderInv, MethodsInv, in_progress # NULL, PopRequest, next_id' = next_id
    PROVE  /\ Standing' = Elements(request_queue) /\ Standing' \subseteq Standing
           /\ OrderInv'
           /\ Control(in_progress) => \A request \in Standing' : Control(request) => in_progress.id < request.id
           /\ \A request \in Standing' : request.method \in SynthMethods \cup {"TERMINATE"}
           /\ in_progress' = NULL => request_queue' = <<>> /\ dispatching' = FALSE
           /\ dispatching' = FALSE => in_progress' = NULL
<1>1. request_queue \in Seq(Request) /\ NULL \notin Request
  BY TypedQueues, NullAssumption
<1>2. CASE request_queue = <<>>
  <2>1. in_progress' = NULL /\ request_queue' = <<>> /\ dispatching' = FALSE
    BY <1>2 DEF PopRequest
  <2>2. Elements(request_queue) = {} /\ Elements(request_queue') = {}
    BY <1>2, <2>1, NoElements
  <2>3. Standing' = {}
    BY <2>1, <2>2 DEF Standing
  <2>4. Len(request_queue') = 0
    BY <2>1
  <2>5. OrderInv'
    BY <2>1, <2>3, <2>4 DEF OrderInv
  <2> QED
    BY <2>1, <2>2, <2>3, <2>5
<1>3. CASE request_queue # <<>>
  <2>1. in_progress' = Head(request_queue) /\ request_queue' = Tail(request_queue) /\ dispatching' = TRUE
    BY <1>3 DEF PopRequest
  <2>2. /\ Len(request_queue) \in Nat \ {0} /\ Len(request_queue') = Len(request_queue) - 1
        /\ in_progress' = request_queue[1] /\ in_progress' \in Request
        /\ \A i \in 1 .. Len(request_queue') :
              request_queue'[i] = request_queue[i + 1] /\ i + 1 \in 2 .. Len(request_queue)
        /\ \A i \in 2 .. Len(request_queue) :
              i - 1 \in 1 .. Len(request_queue') /\ request_queue'[i - 1] = request_queue[i]
    BY <1>1, <1>3, <2>1
  <2>3. Elements(request_queue) = Elements(request_queue') \cup {in_progress'}
    <3>1. ASSUME NEW i \in 1 .. Len(request_queue)
          PROVE  request_queue[i] \in Elements(request_queue') \cup {in_progress'}
      <4>1. CASE i = 1
        BY <2>2, <4>1
      <4>2. CASE i \in 2 .. Len(request_queue)
        <5>1. request_queue'[i - 1] = request_queue[i] /\ i - 1 \in 1 .. Len(request_queue')
          BY <2>2, <4>2
        <5> QED
          BY <5>1, Zenon DEF Elements
      <4> QED
        BY <2>2, <4>1, <4>2
    <3>2. \A i \in 1 .. Len(request_queue') : request_queue'[i] \in Elements(request_queue)
      <4>1. \A i \in 1 .. Len(request_queue') :
               request_queue'[i] = request_queue[i + 1] /\ i + 1 \in 1 .. Len(request_queue)
        BY <2>2
      <4> QED
        BY <4>1, Zenon DEF Elements
    <3>3. in_progress' \in Elements(request_queue)
      BY <2>2 DEF Elements
    <3> QED
      BY <3>1, <3>2, <3>3, Zenon DEF Elements
  <2>4. Standing' = Elements(request_queue) /\ Standing' \subseteq Standing
    BY <1>1, <2>2, <2>3 DEF Standing
  <2>5. ASSUME NEW i \in 1 .. Len(request_queue'), NEW j \in 1 .. Len(request_queue'), i < j,
               Control(request_queue'[i]), Control(request_queue'[j])
        PROVE  request_queue'[i].id < request_queue'[j].id
    <3>1. /\ i + 1 \in 1 .. Len(request_queue) /\ j + 1 \in 1 .. Len(request_queue) /\ i + 1 < j + 1
          /\ Control(request_queue[i + 1]) /\ Control(request_queue[j + 1])
      BY <2>2, <2>5
    <3>2. request_queue[i + 1].id < request_queue[j + 1].id
      BY <3>1 DEF OrderInv
    <3> QED
      BY <2>2, <3>2
  <2>6. ASSUME Control(in_progress'), NEW other \in Elements(request_queue'), Control(other)
        PROVE  in_progress'.id < other.id
    <3>1. PICK i \in 1 .. Len(request_queue') : other = request_queue'[i]
      BY Zenon DEF Elements
    <3>2. /\ 1 \in 1 .. Len(request_queue) /\ i + 1 \in 1 .. Len(request_queue) /\ 1 < i + 1
          /\ Control(request_queue[1]) /\ Control(request_queue[i + 1])
      BY <2>2, <2>6, <3>1
    <3>3. request_queue[1].id < request_queue[i + 1].id
      BY <3>2 DEF OrderInv
    <3> QED
      BY <2>2, <3>1, <3>3
  <2>7. OrderInv'
    BY <2>4, <2>5, <2>6 DEF OrderInv, Control
  <2>8. \A request \in Standing' : request.method \in SynthMethods \cup {"TERMINATE"}
    BY <2>4 DEF MethodsInv
  <2>9. Control(in_progress) => \A request \in Standing' : Control(request) => in_progress.id < request.id
    BY <2>4 DEF OrderInv
  <2>10. in_progress' # NULL
    BY <1>1, <2>2
  <2> QED
    BY <2>1, <2>4, <2>7, <2>8, <2>9, <2>10
<1> QED
  BY <1>2, <1>3

\* A request is answered: the session turns to the next one.
LEMMA RespondTurns ==
    ASSUME Typed, TurnInv, MethodsInv, OrderInv, in_progress # NULL,
           NEW response, NEW stopped, Respond(response, stopped),
           UNCHANGED <<sm_active, next_id>>
    PROVE  TurnInv' /\ MethodsInv' /\ OrderInv'
<1>1. active_request' = NULL
  BY DEF Respond
<1>2. CASE sm_active
  <2>1. PopRequest /\ session_state' = session_state
    BY <1>2, Zenon DEF Respond, SendResponse
  <2>2. /\ OrderInv'
        /\ \A request \in Standing' : request.method \in SynthMethods \cup {"TERMINATE"}
        /\ in_progress' = NULL => request_queue' = <<>> /\ dispatching' = FALSE
        /\ dispatching' = FALSE => in_progress' = NULL
    BY <2>1, PopOrdered
  <2>3. dispatching' \in BOOLEAN /\ sm_active' = sm_active
    BY <2>1 DEF PopRequest
  <2>4. TurnInv'
    BY <1>1, <1>2, <2>1, <2>2, <2>3 DEF TurnInv
  <2>5. MethodsInv'
    BY <1>1, <2>2 DEF MethodsInv
  <2> QED
    BY <2>2, <2>4, <2>5
<1>3. CASE ~sm_active
  <2>1. /\ in_progress' = in_progress /\ request_queue' = request_queue /\ dispatching' = dispatching
        /\ session_state' = IF session_state = "DEACTIVATING" THEN "TERMINATING" ELSE session_state
    BY <1>3, Zenon DEF Respond, ReportDeactivation
  <2>2. Standing' = Standing
    BY <2>1, Zenon DEF Standing, Elements
  <2>3. TurnInv'
    BY <1>1, <1>3, <2>1 DEF TurnInv
  <2>4. MethodsInv'
    BY <1>1, <2>2 DEF MethodsInv
  <2>5. Elements(request_queue') = Elements(request_queue)
    BY <2>1
  <2>6. OrderInv'
    BY <2>1, <2>2, <2>5, Zenon DEF OrderInv
  <2> QED
    BY <2>3, <2>4, <2>6
<1> QED
  BY <1>2, <1>3

\* What becomes of the speaker when a request is answered.
Outcome(response, stopped) ==
    \/ /\ speaker' = speaker /\ stopped = {}
       /\ response.method = "SPEAK" => response.state = "COMPLETE"
    \/ /\ speaker = NULL /\ speaker' = in_progress /\ stopped = {}
       /\ response.method = "SPEAK" /\ response.state = "IN-PROGRESS"
    \/ /\ speaker # NULL /\ speaker' = NULL /\ stopped = {speaker.id}
       /\ response.method # "SPEAK"

LEMMA RespondAsked ==
    ASSUME Typed, MethodsInv, OrderInv, AskedInv, in_progress # NULL, Control(in_progress),
           NEW response, NEW stopped, Respond(response, stopped), Outcome(response, stopped),
           response.id = in_progress.id, response.method = in_progress.method,
           UNCHANGED <<sm_active, next_id>>
    PROVE  AskedInv'
<1> SUFFICES ASSUME sm_active, sm_active' PROVE AskedInv'
  BY DEF AskedInv
<1>1. PopRequest /\ TellClient(response, stopped)
  BY Zenon DEF Respond, SendResponse
<1>2. /\ Standing' = Elements(request_queue) /\ Standing' \subseteq Standing
      /\ \A request \in Standing' : Control(request) => in_progress.id < request.id
  BY <1>1, PopOrdered
<1>3. Standing = Standing' \cup {in_progress} /\ in_progress \in Standing
  BY <1>2 DEF Standing
<1>4. in_progress.id \in Ids
  <2>1. in_progress.id \in 1 .. next_id - 1 /\ next_id \in 1 .. MaxRequests + 1
    BY <1>3 DEF OrderInv, Typed, TypeOK, MachineTypeOK, SessionTypeOK
  <2> QED
    BY <2>1, MessageAssumption DEF Ids
<1>5. /\ \A request \in Standing : request.method = "SPEAK" =>
            request.id \in Ids /\ speech[request.id] = "asked"
      /\ \A a, b \in Ids : Unfinished(a) /\ Unfinished(b) => a = b
      /\ speaker # NULL => speaker.id \in Ids /\ speech[speaker.id] = "IN-PROGRESS"
      /\ \A id \in Ids : Unfinished(id) =>
            \/ speaker # NULL /\ speaker.id = id
            \/ \E request \in Standing : request.method = "SPEAK" /\ request.id = id
  BY DEF AskedInv
<1>6. \A id \in Ids : speech'[id] = IF id \in stopped THEN "COMPLETE"
                                   ELSE IF id = in_progress.id /\ in_progress.method = "SPEAK"
                                        THEN response.state ELSE speech[id]
  BY <1>1 DEF TellClient
<1>7. \A id \in stopped : id \in Ids /\ speech[id] = "IN-PROGRESS"
  BY <1>5 DEF Outcome
<1>8. ASSUME NEW request \in Standing', request.method = "SPEAK"
      PROVE  request.id \in Ids /\ speech'[request.id] = "asked"
  <2>1. request.id \in Ids /\ speech[request.id] = "asked" /\ Control(request)
    BY <1>2, <1>5, <1>8 DEF Control
  <2>2. request.id # in_progress.id
    BY <1>2, <1>4, <2>1 DEF Ids
  <2>3. request.id \notin stopped
    BY <1>7, <2>1
  <2> QED
    BY <1>6, <2>1, <2>2, <2>3
<1>9. ASSUME NEW id \in Ids, Unfinished(id)'
      PROVE  Unfinished(id) /\ id \notin stopped
  <2>1. id \notin stopped
    BY <1>6, <1>9 DEF Unfinished
  <2>2. CASE id = in_progress.id /\ in_progress.method = "SPEAK"
    BY <1>3, <1>5, <2>1, <2>2 DEF Unfinished
  <2>3. CASE ~(id = in_progress.id /\ in_progress.method = "SPEAK")
    BY <1>6, <1>9, <2>1, <2>3 DEF Unfinished
  <2> QED
    BY <2>1, <2>2, <2>3
<1>10. \A a, b \in Ids : Unfinished(a)' /\ Unfinished(b)' => a = b
  BY <1>5, <1>9
<1>11. ASSUME speaker' # NULL
       PROVE  speaker'.id \in Ids /\ speech'[speaker'.id] = "IN-PROGRESS"
  <2>1. CASE speaker' = in_progress /\ stopped = {} /\ response.method = "SPEAK" /\ response.state = "IN-PROGRESS"
    BY <1>4, <1>6, <2>1
  <2>2. CASE speaker' = speaker /\ stopped = {}
    <3>1. speaker.id \in Ids /\ speech[speaker.id] = "IN-PROGRESS"
      BY <1>5, <1>11, <2>2
    <3>2. ~(speaker.id = in_progress.id /\ in_progress.method = "SPEAK")
      BY <1>3, <1>5, <3>1
    <3> QED
      BY <1>6, <2>2, <3>1, <3>2
  <2> QED
    BY <1>11, <2>1, <2>2 DEF Outcome
<1>12. ASSUME NEW id \in Ids, Unfinished(id)'
       PROVE  \/ speaker' # NULL /\ speaker'.id = id
              \/ \E request \in Standing' : request.method = "SPEAK" /\ request.id = id
  <2>1. Unfinished(id) /\ id \notin stopped
    BY <1>9, <1>12
  <2>2. CASE speaker # NULL /\ speaker.id = id
    BY <2>1, <2>2 DEF Outcome
  <2>3. CASE \E request \in Standing' : request.method = "SPEAK" /\ request.id = id
    BY <2>3
  <2>4. CASE in_progress.method = "SPEAK" /\ in_progress.id = id
    <3>1. speech'[id] = response.state
      BY <1>6, <2>1, <2>4
    <3>2. response.state # "COMPLETE" /\ response.method = "SPEAK"
      BY <1>12, <2>4, <3>1 DEF Unfinished
    <3>3. speaker' = in_progress
      BY <3>2 DEF Outcome
    <3> QED
      BY <2>4, <3>3
  <2> QED
    BY <1>3, <1>5, <2>1, <2>2, <2>3, <2>4
<1> QED
  BY <1>8, <1>10, <1>11, <1>12 DEF AskedInv

\* What the handler of an answer makes of the speaker.
Learns ==
    \/ Received.method \notin {"SPEAK"} \cup LeftToMedia /\ speaker' = speaker
    \/ Received.method = "SPEAK" /\ Received.state # "IN-PROGRESS" /\ speaker' = speaker
    \/ Received.method = "SPEAK" /\ Received.state = "IN-PROGRESS" /\ speaker' = active_request
    \/ Received.method \in LeftToMedia /\ speaker' = NULL

LEMMA AnswerSpoken ==
    ASSUME Typed, HandedInv, NeedsInv, SpokenInv, Receives("response"), Learns,
           active_request' = NULL, UNCHANGED <<speak_request, accepted, clearing, ending>>
    PROVE  SpokenInv'
<1>1. /\ AnswerPlaces = {1} /\ AnswerPlaces' = {} /\ Received = fromEngine[1]
      /\ active_request # NULL /\ Received.method = active_request.method
  BY AnswerTaken DEF Awaited
<1>2. /\ \A i \in EventPlaces' : i \in Nat /\ i + 1 \in EventPlaces /\ fromEngine'[i] = fromEngine[i + 1]
      /\ \A i \in EventPlaces : i # 1 => i - 1 \in EventPlaces' /\ i - 1 \in Nat
      /\ \A i \in EventPlaces : i \in Nat /\ i >= 1
  BY MailTaken
<1>3. 1 \notin EventPlaces
  BY <1>1, EventKinds, Zenon
<1>5. \A i, j \in EventPlaces' : i = j
  <2>1. ASSUME NEW i \in EventPlaces', NEW j \in EventPlaces' PROVE i = j
    <3>1. i \in Nat /\ j \in Nat /\ i + 1 \in EventPlaces /\ j + 1 \in EventPlaces
      BY <1>2
    <3>2. i + 1 = j + 1
      BY <3>1 DEF SpokenInv
    <3> QED
      BY <3>1, <3>2
  <2> QED
    BY <2>1
<1>6. EngineSilent' <=> EngineSilent
  BY DEF EngineSilent
<1>7. \A request : SpokenByEngine(request) =>
        request.method = "SPEAK" /\ (speaker = request \/ (active_request = request /\ Begins(Received)))
  BY <1>1, Zenon DEF SpokenByEngine
<1>8. ASSUME NEW request, request # NULL, SpokenByEngine(request), ~EngineSilent
      PROVE  SpokenByEngine(request)'
  <2>1. Received.method \notin LeftToMedia
    BY <1>1, <1>8 DEF SpokenInv
  <2>2. CASE speaker = request
    <3>1. speaker' = speaker
      BY <1>1, <1>8, <2>1, <2>2 DEF Learns, NeedsInv
    <3> QED
      BY <1>7, <1>8, <2>2, <3>1 DEF SpokenByEngine
  <2>3. CASE active_request = request /\ Begins(Received)
    <3>1. speaker' = request
      BY <2>1, <2>3 DEF Learns, Begins
    <3> QED
      BY <1>7, <1>8, <3>1 DEF SpokenByEngine
  <2> QED
    BY <1>7, <1>8, <2>2, <2>3
<1>9. /\ accepted' # NULL => SpokenByEngine(accepted)'
      /\ speak_request' # NULL /\ ~clearing' => SpokenByEngine(speak_request)'
  <2>1. ASSUME accepted # NULL PROVE SpokenByEngine(accepted)'
    BY <1>8, <2>1 DEF SpokenInv, EngineSilent
  <2>2. ASSUME speak_request # NULL, ~clearing PROVE SpokenByEngine(speak_request)'
    BY <1>8, <2>2 DEF SpokenInv, EngineSilent
  <2> QED
    BY <2>1, <2>2
<1>10. ASSUME NEW i \in EventPlaces'
       PROVE  EngineSilent' /\ speaker' # NULL /\ speaker'.id = fromEngine'[i].id
  <2>1. i + 1 \in EventPlaces /\ fromEngine'[i] = fromEngine[i + 1] /\ ~(i + 1 < 1)
    BY <1>2
  <2>2. EngineSilent
    BY <2>1 DEF SpokenInv
  <2>3. \/ (speaker # NULL /\ speaker.id = fromEngine'[i].id)
        \/ Begins(Received) /\ active_request.id = fromEngine'[i].id
    BY <1>1, <2>1 DEF SpokenInv
  <2>4. Received.method \notin LeftToMedia
    BY <1>1, <2>1 DEF SpokenInv
  <2> QED
    BY <1>1, <1>6, <2>2, <2>3, <2>4 DEF Learns, NeedsInv, Begins
<1>11. /\ accepted' = NULL \/ speak_request' = NULL \/ clearing'
       /\ ending' # NULL => ~clearing' /\ ending' = speak_request' /\ accepted' = NULL
  BY DEF SpokenInv
<1> QED
  BY <1>1, <1>5, <1>9, <1>10, <1>11 DEF SpokenInv

\* The request that the machine waits for is the one the session waits for.
LEMMA ActiveIsOwed ==
    ASSUME TurnInv, MethodsInv, active_request # NULL
    PROVE  /\ in_progress # NULL /\ ~dispatching
           /\ sm_active => in_progress = active_request /\ Control(in_progress)
<1>1. /\ in_progress # NULL /\ ~dispatching
      /\ sm_active => in_progress = active_request
  BY DEF TurnInv
<1>2. sm_active => Control(in_progress)
  BY <1>1 DEF MethodsInv, SynthMethods, Control
<1> QED
  BY <1>1, <1>2

\* The handler of an answer, all of it.
LEMMA AnswerCareful ==
    ASSUME Typed, CarefulInv, Receives("response"), Learns,
           NEW stopped, Respond(Received, stopped), sm_active => Outcome(Received, stopped),
           UNCHANGED <<speak_queue, is_pending, deferred, sm_active, toEngine, next_id, channelVars>>
    PROVE  CarefulInv'
<1>1. /\ NothingWaits /\ TurnInv /\ MethodsInv /\ HandedInv /\ NeedsInv /\ SpokenInv
      /\ OrderInv /\ AskedInv
  BY Zenon DEF CarefulInv
<1>2. /\ AnswerPlaces' = {} /\ Awaited /\ Received.method = active_request.method
      /\ toEngine = <<>>
      /\ stop_response = NULL \/ clearing
  BY <1>1, AnswerTaken
<1>3. /\ speak_request' = speak_request /\ accepted' = accepted /\ stop_response' = stop_response
      /\ clearing' = clearing /\ ending' = ending
  BY DEF channelVars
<1>4. active_request' = NULL /\ active_request # NULL /\ active_request.id = Received.id
  BY <1>2 DEF Respond, Awaited
<1>5. /\ in_progress # NULL /\ ~dispatching
      /\ sm_active => in_progress = active_request /\ Control(in_progress)
  BY <1>1, <1>4, ActiveIsOwed
<1>6. TurnInv' /\ MethodsInv' /\ OrderInv'
  BY <1>1, <1>5, RespondTurns
<1>7. AskedInv'
  <2>1. CASE sm_active
    BY <1>1, <1>2, <1>4, <1>5, <2>1, RespondAsked
  <2>2. CASE ~sm_active
    BY <2>2 DEF AskedInv
  <2> QED
    BY <2>1, <2>2
<1>8. SpokenInv'
  BY <1>1, <1>3, <1>4, AnswerSpoken
<1>9. HandedInv' /\ NeedsInv'
  BY <1>2, <1>3, <1>4 DEF HandedInv, NeedsInv
<1>10. NothingWaits'
  BY <1>1, <1>3 DEF NothingWaits
<1> QED
  BY <1>6, <1>7, <1>8, <1>9, <1>10 DEF CarefulInv

LEMMA NothingLeft ==
    ASSUME Typed, speak_queue = <<>>, NEW request
    PROVE  /\ Removed(request) = {}
           /\ \A left \in Remainders(request) : left = <<>>
<1>1. \A left \in Remainders(request) : left = <<>>
  BY TypedQueues, RemainderIsQueue
<1>2. DOMAIN speak_queue = {}
  OBVIOUS
<1> QED
  BY <1>1, <1>2 DEF Removed

\* The answers of the plugin.
LEMMA AnswersCareful ==
    ASSUME Typed, CarefulInv, UNCHANGED channelVars,
           \/ ResponseSpeak \/ ResponseStop \/ ResponseBargeIn \/ ResponsePause
           \/ ResponseResume \/ ResponseControl \/ ResponsePlain
    PROVE  SafeInv'
<1>1. NothingWaits /\ HandedInv /\ NeedsInv /\ TurnInv /\ MethodsInv
  BY Zenon DEF CarefulInv
<1>2. Receives("response")
  BY Zenon DEF ResponseSpeak, ResponseStop, ResponseBargeIn, ResponsePause, ResponseResume,
     ResponseControl, ResponsePlain, ResponseOnSpeaker, ReceivesAnswer
<1>3. /\ active_request # NULL /\ Received.method = active_request.method
      /\ Received.state # "PENDING"
  BY <1>1, <1>2, AnswerTaken DEF Awaited
<1>4. Received.state \in {"IN-PROGRESS", "COMPLETE"}
  <2>1. Received \in EngineMessage
    BY <1>2, ReceivesMoves, RequestsAreTyped
  <2> QED
    BY <1>3, <2>1 DEF EngineMessage, RequestStates
<1>5. sm_active => in_progress = active_request
  BY <1>1, <1>3, ActiveIsOwed
<1>6. CASE ResponseSpeak
  <2>1. /\ Received.method = "SPEAK" /\ Respond(Received, {})
        /\ UNCHANGED <<speak_queue, is_pending, deferred, sm_active, toEngine, next_id>>
    BY <1>1, <1>6 DEF ResponseSpeak, ReceivesAnswer, AnswerSpeak, ResponseFrame, NothingWaits
  <2>2. speaker = NULL
    BY <1>1, <1>3, <2>1 DEF NeedsInv
  <2>3. \/ Received.state = "IN-PROGRESS" /\ speaker' = active_request
        \/ Received.state # "IN-PROGRESS" /\ speaker' = speaker
    BY <1>6 DEF ResponseSpeak
  <2>4. Learns
    BY <2>1, <2>3 DEF Learns
  <2>5. sm_active => Outcome(Received, {})
    BY <1>4, <1>5, <2>1, <2>2, <2>3 DEF Outcome
  <2>6. CarefulInv'
    BY <1>2, <2>1, <2>4, <2>5, AnswerCareful
  <2> QED
    BY <2>6, Zenon DEF SafeInv
<1>7. ASSUME Received.method \in LeftToMedia, StopSpeaking,
             speak_queue' = <<>> /\ UNCHANGED deferred
      PROVE  SafeInv'
  <2>1. Removed(active_request) = {} /\ speak_queue' = speak_queue /\ deferred' = deferred
    BY <1>1, <1>7, NothingLeft DEF NothingWaits
  <2>2. /\ speaker # NULL /\ Respond(Received, {speaker.id}) /\ speaker' = NULL
        /\ UNCHANGED <<is_pending, sm_active, toEngine, next_id>>
    <3>1. {speaker.id} \cup Removed(active_request) = {speaker.id}
      BY <2>1
    <3> QED
      BY <1>7, <3>1, Zenon DEF StopSpeaking, BecomeIdle, ResponseFrame
  <2>3. Learns /\ Outcome(Received, {speaker.id})
    BY <1>7, <2>2 DEF Learns, Outcome, LeftToMedia
  <2>4. PICK stopped : stopped = {speaker.id}
    OBVIOUS
  <2>5. CarefulInv'
    BY <1>2, <2>1, <2>2, <2>3, <2>4, AnswerCareful
  <2> QED
    BY <2>5, Zenon DEF SafeInv
<1>8. ASSUME FollowsNull PROVE SafeInv'
  BY <1>8, Zenon DEF FollowsNull, Crash, SafeInv
<1>9. speak_queue = <<>> /\ \A left \in Remainders(active_request) : left = <<>>
  BY <1>1, NothingLeft DEF NothingWaits
<1>10. CASE ResponseStop
  <2>1. Received.method \in LeftToMedia
    BY <1>10 DEF ResponseStop, ReceivesAnswer, LeftToMedia
  <2>2. CASE StopSpeaking /\ \E left \in Remainders(active_request) :
           \/ left = <<>> /\ speak_queue' = <<>> /\ UNCHANGED deferred
           \/ left # <<>>
    BY <1>7, <1>9, <2>1, <2>2, Zenon
  <2> QED
    BY <1>8, <1>10, <2>2, Zenon DEF ResponseStop
<1>11. CASE ResponseBargeIn
  <2>1. Received.method \in LeftToMedia
    BY <1>11 DEF ResponseBargeIn, ReceivesAnswer, LeftToMedia
  <2>2. CASE StopSpeaking /\ speak_queue' \in Remainders(active_request) /\ UNCHANGED deferred
    BY <1>7, <1>9, <2>1, <2>2, Zenon
  <2> QED
    BY <1>8, <1>11, <2>2, Zenon DEF ResponseBargeIn
<1>12. ASSUME Received.method \notin {"SPEAK"} \cup LeftToMedia, Respond(Received, {}),
              speaker' = speaker,
              UNCHANGED <<speak_queue, is_pending, deferred, sm_active, toEngine, next_id>>
       PROVE  SafeInv'
  <2>1. Learns /\ Outcome(Received, {})
    BY <1>12 DEF Learns, Outcome
  <2>2. CarefulInv'
    BY <1>2, <1>12, <2>1, AnswerCareful
  <2> QED
    BY <2>2, Zenon DEF SafeInv
<1>13. ASSUME NEW method \in {"PAUSE", "RESUME", "CONTROL"}, NEW state,
              ResponseOnSpeaker(method, state)
       PROVE  SafeInv'
  <2>1. Received.method \notin {"SPEAK"} \cup LeftToMedia
    BY <1>13 DEF ResponseOnSpeaker, ReceivesAnswer, LeftToMedia
  <2>2. CASE /\ Respond(Received, {})
             /\ UNCHANGED <<speaker, speak_queue, is_pending, deferred>>
             /\ ResponseFrame
    BY <1>12, <2>1, <2>2 DEF ResponseFrame
  <2> QED
    BY <1>8, <1>13, <2>2, Zenon DEF ResponseOnSpeaker
<1>14. CASE ResponsePlain
  <2>1. /\ Received.method \in {"SET-PARAMS", "DEFINE-LEXICON"} /\ Respond(Received, {})
        /\ speaker' = speaker
        /\ UNCHANGED <<speak_queue, is_pending, deferred, sm_active, toEngine, next_id>>
    BY <1>14 DEF ResponsePlain, ReceivesAnswer, ResponseFrame
  <2> QED
    BY <1>12, <2>1 DEF LeftToMedia
<1> QED
  BY <1>6, <1>10, <1>11, <1>13, <1>14 DEF ResponsePause, ResponseResume, ResponseControl

\* The end of a speech: its event, or the answer to a STOP that took it over.
LEMMA EventSpoken ==
    ASSUME Typed, HandedInv, NeedsInv, SpokenInv, Receives("event"),
           UNCHANGED <<active_request, toEngine, stop_response, speak_request, accepted,
                       clearing, ending>>,
           \/ speaker' = NULL /\ ~(active_request # NULL /\ active_request.method = "STOP")
           \/ speaker' = speaker /\ active_request # NULL /\ active_request.method = "STOP"
    PROVE  HandedInv' /\ NeedsInv' /\ SpokenInv'
<1>1. /\ EventPlaces = {1} /\ EventPlaces' = {} /\ EngineSilent
      /\ speaker # NULL /\ speaker.id = Received.id
  BY EventTaken
<1>2. /\ \A i \in AnswerPlaces' : i \in Nat /\ i + 1 \in AnswerPlaces /\ fromEngine'[i] = fromEngine[i + 1]
      /\ \A i \in AnswerPlaces : i # 1 => i - 1 \in AnswerPlaces' /\ i - 1 \in Nat
  BY MailTaken
<1>3. 1 \notin AnswerPlaces
  BY <1>1, EventKinds, Zenon
<1>4. AnswerPlaces = {} => AnswerPlaces' = {}
  BY <1>2
<1>5. \A i, j \in AnswerPlaces' : i = j
  <2>1. ASSUME NEW i \in AnswerPlaces', NEW j \in AnswerPlaces' PROVE i = j
    <3>1. i \in Nat /\ j \in Nat /\ i + 1 \in AnswerPlaces /\ j + 1 \in AnswerPlaces
      BY <1>2
    <3>2. i + 1 = j + 1
      BY <3>1 DEF HandedInv
    <3> QED
      BY <3>1, <3>2
  <2> QED
    BY <2>1
<1>6. \A i \in AnswerPlaces' : /\ active_request # NULL
                               /\ fromEngine'[i].id = active_request.id
                               /\ fromEngine'[i].method = active_request.method
                               /\ fromEngine'[i].state # "PENDING"
  BY <1>2 DEF HandedInv
<1>7. /\ active_request' = active_request /\ toEngine' = toEngine /\ stop_response' = stop_response
      /\ accepted' = accepted /\ speak_request' = speak_request
  OBVIOUS
<1>8. HandedInv'
  <2>1. toEngine # <<>> => /\ active_request # NULL /\ toEngine = <<active_request>>
                           /\ stop_response = NULL \/ clearing
                           /\ AnswerPlaces' = {}
    BY <1>4 DEF HandedInv
  <2>2. stop_response # NULL /\ ~clearing =>
             /\ stop_response = active_request /\ active_request.method \in LeftToMedia
             /\ accepted = NULL /\ AnswerPlaces' = {}
    BY <1>4 DEF HandedInv
  <2> QED
    BY <1>5, <1>6, <1>7, <2>1, <2>2 DEF HandedInv
<1>9. active_request # NULL => active_request.method # "SPEAK"
  BY <1>1 DEF NeedsInv
<1>10. NeedsInv'
  BY <1>1, <1>7, <1>9 DEF NeedsInv
<1>11. EngineSilent'
  BY <1>1 DEF EngineSilent
<1>12. SpokenInv'
  BY <1>1, <1>11 DEF SpokenInv, EngineSilent
<1> QED
  BY <1>8, <1>10, <1>12

LEMMA EventsCareful ==
    ASSUME Typed, CarefulInv, UNCHANGED channelVars, EventSpeakComplete \/ EventUnexpected
    PROVE  CarefulInv'
<1>1. /\ NothingWaits /\ TurnInv /\ MethodsInv /\ HandedInv /\ NeedsInv /\ SpokenInv
      /\ OrderInv /\ AskedInv
  BY Zenon DEF CarefulInv
<1>2. Receives("event")
  BY DEF EventSpeakComplete, EventUnexpected
<1>3. speaker # NULL /\ speaker.id = Received.id
  BY <1>1, <1>2, EventTaken
<1>4. /\ UNCHANGED <<in_progress, request_queue, dispatching, session_state, sm_active, next_id>>
      /\ UNCHANGED <<active_request, toEngine, speak_queue, is_pending, deferred>>
  <2>1. CASE EventSpeakComplete
    BY <1>1, <2>1 DEF EventSpeakComplete, StartPending, NothingWaits, sessionVars
  <2>2. CASE EventUnexpected
    BY <2>2 DEF EventUnexpected, serverVars, sessionVars, machineVars, clientVars
  <2> QED
    BY <2>1, <2>2
<1>5. /\ speak_request' = speak_request /\ accepted' = accepted /\ stop_response' = stop_response
      /\ clearing' = clearing /\ ending' = ending
  BY DEF channelVars
<1>6. /\ Standing' = Standing /\ Elements(request_queue') = Elements(request_queue)
  BY <1>4, Zenon DEF Standing, Elements
<1>7. TurnInv' /\ NothingWaits'
  BY <1>1, <1>4, <1>5 DEF TurnInv, NothingWaits
<1>8. MethodsInv'
  BY <1>1, <1>4, <1>6 DEF MethodsInv
<1>9. OrderInv'
  <2>1. in_progress' = in_progress /\ request_queue' = request_queue /\ next_id' = next_id
    BY <1>4
  <2> QED
    BY <1>1, <1>6, <2>1, Zenon DEF OrderInv
<1>10. CASE EventUnexpected
  <2>1. speaker' = speaker /\ speech' = speech /\ ~CompletesSpeaker
    BY <1>10 DEF EventUnexpected, serverVars, machineVars, clientVars
  <2>2. active_request # NULL /\ active_request.method = "STOP"
    BY <1>3, <2>1 DEF CompletesSpeaker
  <2>3. HandedInv' /\ NeedsInv' /\ SpokenInv'
    BY <1>1, <1>2, <1>4, <1>5, <2>1, <2>2, EventSpoken
  <2>4. AskedInv'
    BY <1>1, <1>4, <1>6, <2>1 DEF AskedInv, Unfinished
  <2> QED
    BY <1>7, <1>8, <1>9, <2>3, <2>4 DEF CarefulInv
<1>11. CASE EventSpeakComplete
  <2>1. speaker' = NULL /\ SendEvent(speaker, "COMPLETE") /\ CompletesSpeaker
    BY <1>11 DEF EventSpeakComplete, BecomeIdle
  <2>2. ~(active_request # NULL /\ active_request.method = "STOP")
    BY <2>1, Zenon DEF CompletesSpeaker
  <2>3. HandedInv' /\ NeedsInv' /\ SpokenInv'
    BY <1>1, <1>2, <1>4, <1>5, <2>1, <2>2, EventSpoken
  <2>4. AskedInv'
    <3> SUFFICES ASSUME sm_active, sm_active' PROVE AskedInv'
      BY <1>4 DEF AskedInv
    <3>1. /\ \A request \in Standing : request.method = "SPEAK" =>
               request.id \in Ids /\ speech[request.id] = "asked"
          /\ \A a, b \in Ids : Unfinished(a) /\ Unfinished(b) => a = b
          /\ speaker.id \in Ids /\ speech[speaker.id] = "IN-PROGRESS"
          /\ \A id \in Ids : Unfinished(id) =>
                \/ speaker # NULL /\ speaker.id = id
                \/ \E request \in Standing : request.method = "SPEAK" /\ request.id = id
      BY <1>1, <1>3 DEF AskedInv
    <3>2. speech' = [speech EXCEPT ![speaker.id] = "COMPLETE"]
      BY <2>1 DEF SendEvent
    <3>3. speech \in [Ids -> {"none", "asked"} \cup RequestStates]
      BY DEF Typed, TypeOK, MachineTypeOK
    <3>4. \A id \in Ids : IF id = speaker.id THEN speech'[id] = "COMPLETE" ELSE speech'[id] = speech[id]
      BY <3>2, <3>3
    <3>5. \A id \in Ids : Unfinished(id)' => Unfinished(id) /\ id # speaker.id
      BY <3>4 DEF Unfinished
    <3>6. \A request \in Standing' : request.method = "SPEAK" =>
             request.id \in Ids /\ speech'[request.id] = "asked"
      BY <1>6, <3>1, <3>4
    <3>7. \A id \in Ids : Unfinished(id)' =>
             \E request \in Standing' : request.method = "SPEAK" /\ request.id = id
      BY <1>6, <3>1, <3>5
    <3>8. \A a, b \in Ids : Unfinished(a)' /\ Unfinished(b)' => a = b
      BY <3>1, <3>5
    <3> QED
      BY <2>1, <3>6, <3>7, <3>8 DEF AskedInv
  <2> QED
    BY <1>7, <1>8, <1>9, <2>3, <2>4 DEF CarefulInv
<1> QED
  BY <1>10, <1>11

LEMMA NothingUnexpected ==
    ASSUME Typed, CarefulInv
    PROVE  ~(ResponseUnexpected \/ StartDeferred)
<1>1. NothingWaits /\ HandedInv
  BY Zenon DEF CarefulInv
<1>2. ~ResponseUnexpected
  BY <1>1, AnswerTaken DEF ResponseUnexpected
<1>3. ~StartDeferred
  BY <1>1 DEF StartDeferred, NothingWaits
<1> QED
  BY <1>2, <1>3

-----------------------------------------------------------------------------
(* The server task dispatches a request.                                   *)

LEMMA NothingActive ==
    ASSUME TurnInv, HandedInv, dispatching
    PROVE  /\ sm_active /\ active_request = NULL /\ in_progress # NULL
           /\ toEngine = <<>> /\ AnswerPlaces = {}
           /\ stop_response = NULL \/ clearing
<1>1. sm_active /\ active_request = NULL /\ in_progress # NULL
  BY DEF TurnInv
<1> QED
  BY <1>1 DEF HandedInv

\* A request is handed to the plugin.
LEMMA SentHanded ==
    ASSUME Typed, HandedInv, SpokenInv, active_request = NULL, toEngine = <<>>,
           stop_response = NULL \/ clearing, AnswerPlaces = {},
           NEW request \in Request, SendToEngine(request),
           request.method = "STOP" => speaker # NULL,
           request.method = "SPEAK" => speaker = NULL,
           UNCHANGED <<speaker, fromEngine, channelVars>>
    PROVE  HandedInv' /\ NeedsInv' /\ SpokenInv'
<1>1. /\ active_request' = request /\ request # NULL /\ toEngine' = <<request>> /\ toEngine' # <<>>
  BY NullAssumption DEF SendToEngine
<1>2. /\ speak_request' = speak_request /\ accepted' = accepted /\ stop_response' = stop_response
      /\ clearing' = clearing /\ ending' = ending
      /\ speaker' = speaker /\ fromEngine' = fromEngine
  BY DEF channelVars
<1>3. AnswerPlaces' = {} /\ EventPlaces' = EventPlaces
  BY <1>2 DEF AnswerPlaces, EventPlaces
<1>4. HandedInv'
  BY <1>1, <1>2, <1>3 DEF HandedInv
<1>5. NeedsInv'
  BY <1>1, <1>2 DEF NeedsInv
<1>6. \A other : SpokenByEngine(other) <=> other.method = "SPEAK" /\ speaker = other
  BY DEF SpokenByEngine
<1>7. accepted # NULL => SpokenByEngine(accepted)'
  BY <1>2, <1>6 DEF SpokenInv, SpokenByEngine
<1>8. speak_request # NULL /\ ~clearing => SpokenByEngine(speak_request)'
  BY <1>2, <1>6 DEF SpokenInv, SpokenByEngine
<1>9. EngineSilent' <=> EngineSilent
  BY <1>2 DEF EngineSilent
<1>10. \A i \in EventPlaces : EngineSilent /\ speaker # NULL /\ speaker.id = fromEngine[i].id
  BY DEF SpokenInv
<1>11. /\ accepted = NULL \/ speak_request = NULL \/ clearing
       /\ ending # NULL => ~clearing /\ ending = speak_request /\ accepted = NULL
       /\ \A i, j \in EventPlaces : i = j
  BY DEF SpokenInv
<1>12. SpokenInv'
  BY <1>2, <1>3, <1>7, <1>8, <1>9, <1>10, <1>11 DEF SpokenInv
<1> QED
  BY <1>4, <1>5, <1>12

LEMMA ForwardCareful ==
    ASSUME Typed, CarefulInv, dispatching, Forward, RequestFrame, UNCHANGED <<speak_queue, channelVars>>,
           in_progress.method # "TERMINATE",
           in_progress.method = "STOP" => speaker # NULL,
           in_progress.method = "SPEAK" => speaker = NULL
    PROVE  CarefulInv'
<1>1. /\ NothingWaits /\ TurnInv /\ MethodsInv /\ HandedInv /\ NeedsInv /\ SpokenInv
      /\ OrderInv /\ AskedInv
  BY Zenon DEF CarefulInv
<1>2. /\ sm_active /\ active_request = NULL /\ in_progress # NULL
      /\ toEngine = <<>> /\ AnswerPlaces = {}
      /\ stop_response = NULL \/ clearing
  BY <1>1, NothingActive
<1>3. /\ SendToEngine(in_progress) /\ dispatching' = FALSE /\ active_request' = in_progress
      /\ in_progress' = in_progress /\ request_queue' = request_queue /\ session_state' = session_state
      /\ speech' = speech
  BY DEF Forward, SendToEngine
<1>4. /\ sm_active' = sm_active /\ speaker' = speaker /\ is_pending' = is_pending
      /\ deferred' = deferred /\ fromEngine' = fromEngine /\ next_id' = next_id
  BY DEF RequestFrame
<1>5. in_progress \in Request
  BY DEF Typed, DispatchesRequest
<1>6. HandedInv' /\ NeedsInv' /\ SpokenInv'
  BY <1>1, <1>2, <1>3, <1>4, <1>5, SentHanded
<1>7. NothingWaits'
  BY <1>1, <1>4 DEF NothingWaits
<1>8. TurnInv'
  BY <1>1, <1>2, <1>3, <1>4 DEF TurnInv
<1>9. Standing' = Standing /\ in_progress \in Standing
  BY <1>2, <1>3, Zenon DEF Standing, Elements
<1>10. in_progress.method \in SynthMethods
  BY <1>1, <1>9 DEF MethodsInv
<1>11. MethodsInv'
  BY <1>1, <1>3, <1>9, <1>10 DEF MethodsInv
<1>12. Elements(request_queue') = Elements(request_queue)
  BY <1>3
<1>13. OrderInv'
  BY <1>1, <1>3, <1>4, <1>9, <1>12, Zenon DEF OrderInv
<1>14. \A id : Unfinished(id)' <=> Unfinished(id)
  BY <1>3 DEF Unfinished
<1>15. AskedInv'
  BY <1>1, <1>3, <1>4, <1>9, <1>14 DEF AskedInv
<1> QED
  BY <1>6, <1>7, <1>8, <1>11, <1>13, <1>15 DEF CarefulInv

LEMMA AtOnceCareful ==
    ASSUME Typed, CarefulInv, dispatching, AnswerAtOnce("COMPLETE", {}), RequestFrame,
           UNCHANGED <<speak_queue, channelVars>>, in_progress.method # "TERMINATE"
    PROVE  CarefulInv'
<1>1. /\ NothingWaits /\ TurnInv /\ MethodsInv /\ HandedInv /\ NeedsInv /\ SpokenInv
      /\ OrderInv /\ AskedInv
  BY Zenon DEF CarefulInv
<1>2. /\ sm_active /\ active_request = NULL /\ in_progress # NULL
      /\ toEngine = <<>> /\ AnswerPlaces = {}
      /\ stop_response = NULL \/ clearing
  BY <1>1, NothingActive
<1>3. PICK response : response = Response(in_progress, "COMPLETE")
  OBVIOUS
<1>4. /\ Respond(response, {}) /\ active_request' = NULL /\ toEngine' = toEngine
      /\ response.id = in_progress.id /\ response.method = in_progress.method
      /\ response.state = "COMPLETE"
  BY <1>3 DEF AnswerAtOnce, Respond, Response
<1>5. /\ sm_active' = sm_active /\ speaker' = speaker /\ is_pending' = is_pending
      /\ deferred' = deferred /\ fromEngine' = fromEngine /\ next_id' = next_id
  BY DEF RequestFrame
<1>7. TurnInv' /\ MethodsInv' /\ OrderInv'
  BY <1>1, <1>2, <1>4, <1>5, RespondTurns
<1>8. Outcome(response, {}) /\ Control(in_progress)
  BY <1>4, <1>5 DEF Outcome, Control
<1>9. AskedInv'
  BY <1>1, <1>2, <1>4, <1>5, <1>8, RespondAsked
<1>10. NothingWaits' /\ HandedInv' /\ NeedsInv' /\ SpokenInv'
  BY <1>1, <1>2, <1>4, <1>5, QuietFrame
<1> QED
  BY <1>7, <1>9, <1>10 DEF CarefulInv

LEMMA RequestsCareful ==
    ASSUME Typed, CarefulInv, UNCHANGED channelVars,
           \/ RequestSpeak \/ RequestStop \/ RequestPause \/ RequestResume
           \/ RequestBargeIn \/ RequestControl \/ RequestDefineLexicon \/ RequestParams
    PROVE  CarefulInv'
<1>1. NothingWaits /\ TurnInv /\ MethodsInv /\ HandedInv /\ AskedInv
  BY Zenon DEF CarefulInv
<1>2. dispatching /\ RequestFrame
  BY Zenon DEF RequestSpeak, RequestStop, RequestPause, RequestResume, RequestBargeIn,
     RequestControl, RequestDefineLexicon, RequestParams, RequestIf, Dispatches
<1>3. sm_active /\ in_progress # NULL
  BY <1>1, <1>2, NothingActive
<1>4. in_progress \in Standing
  BY <1>3 DEF Standing
<1>5. in_progress.method \in SynthMethods \cup {"TERMINATE"}
  BY <1>1, <1>4 DEF MethodsInv
<1>6. speak_queue = <<>>
  BY <1>1 DEF NothingWaits
<1>7. CASE RequestSpeak
  <2>1. in_progress.method = "SPEAK"
    BY <1>7 DEF RequestSpeak, Dispatches
  <2>2. in_progress.id \in Ids /\ speech[in_progress.id] = "asked"
    BY <1>1, <1>3, <1>4, <2>1 DEF AskedInv
  <2>3. speaker # NULL => speaker.id \in Ids /\ speech[speaker.id] = "IN-PROGRESS"
    BY <1>1, <1>3 DEF AskedInv
  <2>4. \A a, b \in Ids : Unfinished(a) /\ Unfinished(b) => a = b
    BY <1>1, <1>3 DEF AskedInv
  <2>5. speaker = NULL
    BY <2>2, <2>3, <2>4 DEF Unfinished
  <2>6. Forward /\ speak_queue' = speak_queue
    BY <1>7, <2>5 DEF RequestSpeak
  <2> QED
    BY <1>2, <2>1, <2>5, <2>6, ForwardCareful
<1>8. CASE RequestStop
  <2>1. in_progress.method = "STOP"
    BY <1>8 DEF RequestStop, Dispatches
  <2>2. CASE StopsSpeaker(in_progress) /\ Forward /\ UNCHANGED speak_queue
    BY <1>2, <2>1, <2>2, ForwardCareful DEF StopsSpeaker
  <2>3. CASE /\ speak_queue' \in Remainders(in_progress)
             /\ AnswerAtOnce("COMPLETE", Removed(in_progress))
    <3>1. Removed(in_progress) = {} /\ speak_queue' = speak_queue
      BY <1>6, <2>3, NothingLeft
    <3>2. AnswerAtOnce("COMPLETE", {})
      BY <2>3, <3>1
    <3> QED
      BY <1>2, <2>1, <3>1, <3>2, AtOnceCareful
  <2> QED
    BY <1>8, <2>2, <2>3, Zenon DEF RequestStop
<1>9. ASSUME NEW method \in SynthMethods \ {"SPEAK", "STOP"}, NEW useful, RequestIf(method, useful)
      PROVE  CarefulInv'
  <2>1. /\ in_progress.method = method /\ speak_queue' = speak_queue
        /\ method \notin {"TERMINATE", "SPEAK", "STOP"}
    BY <1>9 DEF RequestIf, Dispatches, SynthMethods
  <2>2. Forward \/ AnswerAtOnce("COMPLETE", {})
    BY <1>9, Zenon DEF RequestIf
  <2> QED
    BY <1>2, <2>1, <2>2, ForwardCareful, AtOnceCareful
<1>10. CASE \/ RequestPause \/ RequestResume \/ RequestBargeIn
            \/ RequestControl \/ RequestDefineLexicon \/ RequestParams
  <2>1. {"PAUSE", "RESUME", "BARGE-IN-OCCURRED", "CONTROL", "DEFINE-LEXICON", "SET-PARAMS"}
          \subseteq SynthMethods \ {"SPEAK", "STOP"}
    BY DEF SynthMethods
  <2>2. PICK method \in SynthMethods \ {"SPEAK", "STOP"}, useful \in {TRUE, FALSE} :
           RequestIf(method, useful)
    BY <1>10, <2>1 DEF RequestPause, RequestResume, RequestBargeIn,
       RequestControl, RequestDefineLexicon, RequestParams, RequestIf
  <2> QED
    BY <1>9, <2>2
<1> QED
  BY <1>7, <1>8, <1>10

LEMMA DeactivateCareful ==
    ASSUME Typed, CarefulInv, UNCHANGED channelVars, Deactivate
    PROVE  CarefulInv'
<1>1. /\ NothingWaits /\ TurnInv /\ MethodsInv /\ HandedInv /\ NeedsInv /\ SpokenInv
      /\ OrderInv /\ AskedInv
  BY Zenon DEF CarefulInv
<1>2. dispatching
  BY DEF Deactivate, DeactivateSession, Dispatches
<1>3. /\ sm_active /\ active_request = NULL /\ in_progress # NULL
      /\ toEngine = <<>> /\ AnswerPlaces = {}
      /\ stop_response = NULL \/ clearing
  BY <1>1, <1>2, NothingActive
<1>4. /\ sm_active' = FALSE /\ dispatching' = FALSE /\ session_state' # "UP"
      /\ in_progress' = in_progress /\ request_queue' = request_queue
      /\ next_id' = next_id /\ speech' = speech
      /\ UNCHANGED <<speaker, speak_queue, is_pending, deferred, fromEngine>>
  <2>1. session_state' # "UP"
    BY DEF Deactivate, DeactivateSession
  <2> QED
    BY <2>1 DEF Deactivate, DeactivateSession
<1>5. Standing' = Standing /\ Elements(request_queue') = Elements(request_queue)
  BY <1>4, Zenon DEF Standing, Elements
<1>6. TurnInv'
  <2>1. CASE speaker # NULL
    <3>1. session_state' = "DEACTIVATING"
      BY <2>1 DEF Deactivate, DeactivateSession
    <3> QED
      BY <1>3, <1>4, <3>1 DEF TurnInv
  <2>2. CASE speaker = NULL
    <3>1. active_request' = active_request
      BY <2>2 DEF Deactivate
    <3> QED
      BY <1>3, <1>4, <3>1 DEF TurnInv
  <2> QED
    BY <2>1, <2>2
<1>7. OrderInv'
  BY <1>1, <1>4, <1>5, Zenon DEF OrderInv
<1>8. AskedInv'
  BY <1>4 DEF AskedInv
<1>9. CASE speaker # NULL
  <2>1. speaker \in Request
    BY <1>9 DEF Typed, TypeOK, MachineTypeOK
  <2>2. PICK request \in Request : request = InternalStop(speaker)
    BY <2>1, MessageTypes
  <2>3. request.method = "STOP" /\ SendToEngine(request) /\ active_request' = request
    BY <1>9, <2>2 DEF Deactivate, InternalStop, SendToEngine
  <2>4. HandedInv' /\ NeedsInv' /\ SpokenInv'
    BY <1>1, <1>3, <1>4, <1>9, <2>3, SentHanded
  <2>5. MethodsInv'
    BY <1>1, <1>5, <2>3 DEF MethodsInv, SynthMethods
  <2>6. NothingWaits'
    BY <1>1, <1>4 DEF NothingWaits
  <2> QED
    BY <1>6, <1>7, <1>8, <2>4, <2>5, <2>6 DEF CarefulInv
<1>10. CASE speaker = NULL
  <2>1. active_request' = active_request /\ toEngine' = toEngine
    BY <1>10 DEF Deactivate
  <2>2. NothingWaits' /\ HandedInv' /\ NeedsInv' /\ SpokenInv'
    BY <1>1, <1>4, <2>1, QuietFrame
  <2>3. MethodsInv'
    BY <1>1, <1>5, <2>1 DEF MethodsInv
  <2> QED
    BY <1>6, <1>7, <1>8, <2>2, <2>3 DEF CarefulInv
<1> QED
  BY <1>9, <1>10

-----------------------------------------------------------------------------
LEMMA CarefulStarts == Init => CarefulInv
<1> SUFFICES ASSUME Init PROVE CarefulInv
  OBVIOUS
<1>1. /\ in_progress = NULL /\ request_queue = <<>> /\ dispatching = FALSE /\ session_state = "UP"
      /\ sm_active = TRUE /\ active_request = NULL /\ speaker = NULL /\ speak_queue = <<>>
      /\ is_pending = FALSE /\ deferred = NULL /\ toEngine = <<>> /\ fromEngine = <<>>
      /\ speech = [id \in Ids |-> "none"] /\ speak_request = NULL /\ stop_response = NULL
      /\ accepted = NULL /\ clearing = FALSE /\ ending = NULL
  BY DEF Init, MachineInit, SessionInit, QueueInit, Engine!EngineInit
<1>2. Standing = {} /\ AnswerPlaces = {} /\ EventPlaces = {} /\ Elements(request_queue) = {}
  <2>1. Elements(request_queue) = {}
    BY <1>1, NoElements
  <2> QED
    BY <1>1, <2>1 DEF Standing, AnswerPlaces, EventPlaces
<1>3. NothingWaits /\ TurnInv
  BY <1>1 DEF NothingWaits, TurnInv
<1>4. MethodsInv /\ HandedInv /\ NeedsInv
  BY <1>1, <1>2 DEF MethodsInv, HandedInv, NeedsInv
<1>5. SpokenInv
  BY <1>1, <1>2 DEF SpokenInv
<1>6. OrderInv
  BY <1>1, <1>2 DEF OrderInv
<1>7. AskedInv
  BY <1>1, <1>2 DEF AskedInv, Unfinished
<1> QED
  BY <1>3, <1>4, <1>5, <1>6, <1>7 DEF CarefulInv

LEMMA CarefulStep ==
    ASSUME ~Queueing, Typed, SafeInv, [Next]_vars
    PROVE  SafeInv'
<1>1. CASE ServerStep
  <2>1. ServerNext /\ UNCHANGED channelVars /\ CarefulInv
    BY <1>1, Zenon DEF ServerStep, SafeInv
  <2>2. CarefulInv' => SafeInv'
    BY Zenon DEF SafeInv
  <2> QED
    BY <2>1, <2>2, RequestsCareful, DeactivateCareful, AnswersCareful, EventsCareful,
       NothingUnexpected, Zenon DEF ServerNext, Dispatch, FromEngine
<1>2. CASE ClientStep
  <2>1. CarefulInv
    BY <1>2, Zenon DEF ClientStep, SafeInv
  <2> QED
    BY <1>2, <2>1, ClientCareful, Zenon DEF SafeInv
<1>3. CASE PluginStep \/ MediaStep
  <2>1. CarefulInv
    BY <1>3, Zenon DEF PluginStep, MediaStep, SafeInv
  <2> QED
    BY <1>3, <2>1, EngineCareful, Zenon DEF SafeInv
<1>4. CASE UNCHANGED vars
  <2>1. /\ UNCHANGED serverVars /\ UNCHANGED clientVars /\ UNCHANGED queueVars /\ UNCHANGED channelVars
    BY <1>4 DEF vars
  <2>2. crashed' = crashed
    BY <2>1 DEF serverVars, machineVars
  <2>3. ASSUME CarefulInv PROVE CarefulInv'
    <3>1. /\ NothingWaits /\ TurnInv /\ MethodsInv /\ HandedInv /\ NeedsInv /\ SpokenInv
          /\ OrderInv /\ AskedInv
      BY <2>3, Zenon DEF CarefulInv
    <3>2. TurnInv' /\ MethodsInv' /\ NeedsInv' /\ OrderInv' /\ AskedInv'
      BY <2>1, <3>1, EngineFrame
    <3>3. /\ UNCHANGED <<active_request, speaker, speak_queue, is_pending, deferred>>
          /\ UNCHANGED <<toEngine, fromEngine, channelVars>>
      BY <2>1 DEF serverVars, machineVars, queueVars
    <3>4. NothingWaits' /\ HandedInv' /\ SpokenInv'
      BY <3>1, <3>3, QuietFrame
    <3> QED
      BY <3>2, <3>4 DEF CarefulInv
  <2> QED
    BY <2>2, <2>3, Zenon DEF SafeInv
<1> QED
  BY <1>1, <1>2, <1>3, <1>4 DEF Next

LEMMA CarefulHolds == ASSUME ~Queueing PROVE Spec => [](Typed /\ SafeInv)
<1>1. Init => SafeInv
  BY CarefulStarts DEF SafeInv
<1>2. Typed /\ SafeInv /\ [Next]_vars => SafeInv'
  BY CarefulStep
<1> QED
  BY <1>1, <1>2, ChannelIsTyped, PTL DEF Spec, Typed

(***************************************************************************)
(* With such a client, as long as no handler has followed the null         *)
(* pointer, what the session waits for is what the machine waits for, and  *)
(* once every message is handled the plugin speaks nothing but what the    *)
(* machine believes to be in progress, wherever the two threads of the     *)
(* plugin interrupt each other and whether it refuses SPEAKs or not        *)
(* (mrcp_synth_state_machine.c:49, demo_synth_engine.c:97).                *)
(***************************************************************************)
THEOREM MachineFollowsEngine == ASSUME ~Queueing PROVE Spec => []MachineKnowsEngine
<1>1. Typed /\ SafeInv => MachineKnowsEngine
  <2> SUFFICES ASSUME Typed, CarefulInv PROVE OwedIsActive /\ SpokenIsSpeaker
    BY Zenon DEF SafeInv, MachineKnowsEngine
  <2>1. TurnInv /\ SpokenInv
    BY Zenon DEF CarefulInv
  <2>2. OwedIsActive
    BY <2>1 DEF TurnInv, OwedIsActive
  <2>3. SpokenIsSpeaker
    <3> SUFFICES ASSUME Settled, speak_request # NULL PROVE speaker = speak_request
      BY DEF SpokenIsSpeaker
    <3>1. fromEngine = <<>> /\ ~clearing
      BY DEF Settled
    <3>2. AnswerPlaces = {}
      BY <3>1 DEF AnswerPlaces
    <3>3. SpokenByEngine(speak_request)
      BY <2>1, <3>1 DEF SpokenInv
    <3> QED
      BY <3>2, <3>3 DEF SpokenByEngine
  <2> QED
    BY <2>2, <2>3
<1> QED
  BY <1>1, CarefulHolds, PTL

-----------------------------------------------------------------------------
(* A STOP that selects nothing.                                            *)

\* The session's client hears of the request in progress, and of the speaker
\* if the request is to stop it.
AnswersOwed(response, stopped) ==
    /\ sm_active /\ Respond(response, stopped)
    /\ response.id = in_progress.id /\ response.method = in_progress.method
    /\ in_progress # NULL
    /\ in_progress.method = "STOP" /\ in_progress.only = {} /\ speaker # NULL =>
         speaker.id \in stopped

LEMMA AnswerIsOwed ==
    ASSUME Typed, CarefulInv, [Next]_vars, answers' # answers
    PROVE  \E response, stopped : AnswersOwed(response, stopped)
<1>1. TurnInv /\ HandedInv /\ MethodsInv /\ NothingWaits
  BY Zenon DEF CarefulInv
<1>2. ServerNext
  BY DEF Next, ServerStep, ClientStep, ClientNext, ClientRequest, ClientTerminate, ArriveRequest,
         ArriveTerminate, Arrive, PluginStep, MediaStep, clientVars, vars
<1>3. ~(Forward \/ Deactivate \/ EventSpeakComplete \/ EventUnexpected \/ StartDeferred)
  BY DEF Forward, Deactivate, DeactivateSession, EventSpeakComplete, EventUnexpected, StartDeferred,
         clientVars
<1>4. ASSUME NEW response, NEW stopped, Respond(response, stopped) PROVE sm_active
  BY <1>4 DEF Respond, ReportDeactivation
<1>5. ASSUME dispatching, NEW state, NEW stopped, AnswerAtOnce(state, stopped),
             in_progress.method = "STOP" /\ in_progress.only = {} => speaker = NULL
      PROVE  \E response, rest : AnswersOwed(response, rest)
  <2>1. PICK response : response = Response(in_progress, state)
    OBVIOUS
  <2>2. /\ Respond(response, stopped) /\ response.id = in_progress.id
        /\ response.method = in_progress.method
    BY <1>5, <2>1 DEF AnswerAtOnce, Response
  <2>3. in_progress # NULL /\ sm_active
    BY <1>1, <1>5, NothingActive
  <2>4. AnswersOwed(response, stopped)
    BY <1>5, <2>2, <2>3 DEF AnswersOwed
  <2> QED
    BY <2>4, Zenon
<1>6. CASE \/ RequestSpeak \/ RequestStop \/ RequestPause \/ RequestResume
           \/ RequestBargeIn \/ RequestControl \/ RequestDefineLexicon \/ RequestParams
  <2>1. dispatching
    BY <1>6, Zenon DEF RequestSpeak, RequestStop, RequestPause, RequestResume, RequestBargeIn,
       RequestControl, RequestDefineLexicon, RequestParams, RequestIf, Dispatches
  <2>2. CASE RequestStop
    <3>1. ~StopsSpeaker(in_progress) /\ AnswerAtOnce("COMPLETE", Removed(in_progress))
      BY <1>3, <2>2, Zenon DEF RequestStop
    <3>2. in_progress.only = {} => speaker = NULL
      BY <3>1 DEF StopsSpeaker, Selected
    <3> QED
      BY <1>5, <2>1, <3>1, <3>2, Zenon
  <2>3. CASE ~RequestStop
    <3>1. in_progress.method # "STOP"
      BY <1>6, <2>3 DEF RequestSpeak, RequestPause, RequestResume, RequestBargeIn,
         RequestControl, RequestDefineLexicon, RequestParams, RequestIf, Dispatches
    <3>2. \E state : AnswerAtOnce(state, {})
      BY <1>3, <1>6, <2>3, Zenon DEF RequestSpeak, RequestPause, RequestResume, RequestBargeIn,
         RequestControl, RequestDefineLexicon, RequestParams, RequestIf
    <3> QED
      BY <1>5, <2>1, <3>1, <3>2, Zenon
  <2> QED
    BY <2>2, <2>3
<1>7. CASE \/ ResponseSpeak \/ ResponseStop \/ ResponseBargeIn \/ ResponsePause
           \/ ResponseResume \/ ResponseControl \/ ResponsePlain
  <2>1. Receives("response")
    BY <1>7, Zenon DEF ResponseSpeak, ResponseStop, ResponseBargeIn, ResponsePause,
       ResponseResume, ResponseControl, ResponsePlain, ResponseOnSpeaker, ReceivesAnswer
  <2>2. active_request # NULL /\ active_request.id = Received.id /\ Received.method = active_request.method
    BY <1>1, <2>1, AnswerTaken DEF Awaited
  <2>3. in_progress # NULL /\ (sm_active => in_progress = active_request)
    BY <1>1, <2>2, ActiveIsOwed
  <2>4. ASSUME NEW stopped, Respond(Received, stopped), Received.method = "STOP" => speaker.id \in stopped
        PROVE  AnswersOwed(Received, stopped)
    BY <1>4, <2>2, <2>3, <2>4 DEF AnswersOwed
  <2>5. CASE ResponseSpeak
    <3>1. Respond(Received, {}) /\ Received.method = "SPEAK"
      BY <1>1, <2>5, Zenon DEF ResponseSpeak, ReceivesAnswer, AnswerSpeak, NothingWaits
    <3>2. AnswersOwed(Received, {})
      BY <2>4, <3>1
    <3> QED
      BY <3>2, Zenon
  <2>6. CASE ResponseStop \/ ResponseBargeIn
    <3>1. StopSpeaking \/ Crash
      BY <2>6, Zenon DEF ResponseStop, ResponseBargeIn, FollowsNull
    <3>2. ~Crash
      BY DEF Crash, clientVars
    <3>3. PICK stopped : stopped = {speaker.id} \cup Removed(active_request)
      OBVIOUS
    <3>4. Respond(Received, stopped) /\ speaker.id \in stopped
      BY <3>1, <3>2, <3>3 DEF StopSpeaking
    <3>5. AnswersOwed(Received, stopped)
      BY <2>4, <3>4
    <3> QED
      BY <3>5, Zenon
  <2>7. ASSUME NEW method \in {"PAUSE", "RESUME", "CONTROL"}, NEW state,
               ResponseOnSpeaker(method, state)
        PROVE  \E response, rest : AnswersOwed(response, rest)
    <3>1. Received.method # "STOP"
      BY <2>7 DEF ResponseOnSpeaker, ReceivesAnswer
    <3>2. Respond(Received, {}) \/ Crash
      BY <2>7, Zenon DEF ResponseOnSpeaker, FollowsNull
    <3>3. ~Crash
      BY DEF Crash, clientVars
    <3>4. AnswersOwed(Received, {})
      BY <2>4, <3>1, <3>2, <3>3
    <3> QED
      BY <3>4, Zenon
  <2>8. CASE ResponsePlain
    <3>1. Respond(Received, {}) /\ Received.method # "STOP"
      BY <2>8 DEF ResponsePlain, ReceivesAnswer
    <3>2. AnswersOwed(Received, {})
      BY <2>4, <3>1
    <3> QED
      BY <3>2, Zenon
  <2> QED
    BY <1>7, <2>5, <2>6, <2>7, <2>8 DEF ResponsePause, ResponseResume, ResponseControl
<1> QED
  BY <1>2, <1>3, <1>6, <1>7, NothingUnexpected, Zenon DEF ServerNext, Dispatch, FromEngine

Silenced(id) == \A other \in 1 .. id - 1 : speech'[other] \in {"none", "COMPLETE"}

LEMMA SilencedStep ==
    ASSUME Typed, CarefulInv, [Next]_vars, NEW id \in Ids, answers'[id] # answers[id],
           in_progress.method = "STOP", in_progress.only = {}
    PROVE  Silenced(id)
<1>1. OrderInv /\ AskedInv
  BY Zenon DEF CarefulInv
<1>2. PICK response, stopped : AnswersOwed(response, stopped)
  BY AnswerIsOwed
<1>3. /\ sm_active /\ SendResponse(response) /\ TellClient(response, stopped)
      /\ response.id = in_progress.id /\ response.method = "STOP" /\ in_progress # NULL
      /\ speaker # NULL => speaker.id \in stopped
  BY <1>2, Zenon DEF AnswersOwed, Respond
<1>4. /\ answers \in [Ids -> Nat]
      /\ speech \in [Ids -> {"none", "asked"} \cup RequestStates]
  BY DEF Typed, TypeOK, MachineTypeOK, SessionTypeOK
<1>5. id = in_progress.id
  BY <1>3, <1>4 DEF SendResponse
<1>6. ASSUME NEW other \in 1 .. id - 1 PROVE speech'[other] \in {"none", "COMPLETE"}
  <2>1. other \in Ids /\ other < id
    BY MessageAssumption DEF Ids
  <2>2. speech'[other] = IF other \in stopped THEN "COMPLETE" ELSE speech[other]
    BY <1>3, <1>5, <2>1 DEF TellClient
  <2>3. CASE Unfinished(other)
    <3>1. ~(\E request \in Standing : request.method = "SPEAK" /\ request.id = other)
      <4>1. ASSUME NEW request \in Standing, request.method = "SPEAK", request.id = other PROVE FALSE
        <5>1. request \in Elements(request_queue)
          BY <4>1 DEF Standing
        <5>2. in_progress.id < request.id
          BY <1>1, <1>3, <4>1, <5>1 DEF OrderInv, Control
        <5> QED
          BY <1>5, <2>1, <4>1, <5>2 DEF Ids
      <4> QED
        BY <4>1
    <3>2. speaker # NULL /\ speaker.id = other
      BY <1>1, <1>3, <2>1, <2>3, <3>1 DEF AskedInv
    <3> QED
      BY <1>3, <2>2, <3>2
  <2>4. CASE ~Unfinished(other)
    BY <1>4, <2>1, <2>2, <2>4 DEF Unfinished, RequestStates
  <2> QED
    BY <2>3, <2>4
<1> QED
  BY <1>6 DEF Silenced

(***************************************************************************)
(* When the client of such a session is told that its STOP, which selects  *)
(* nothing, is done, it has heard of the end of every SPEAK that it sent   *)
(* before (mrcp_synth_state_machine.c:217).                                *)
(***************************************************************************)
THEOREM StopIsSilence == ASSUME ~Queueing PROVE Spec => StopSilences
<1>1. ASSUME Typed, SafeInv, [Next]_vars, NEW id \in Ids, answers'[id] # answers[id],
             in_progress.method = "STOP", in_progress.only = {}
      PROVE  Silenced(id)
  <2>1. ~UNCHANGED vars
    BY <1>1 DEF vars, clientVars
  <2>2. CarefulInv
    BY <1>1, <2>1, Zenon DEF SafeInv, Next, ServerStep, ClientStep, PluginStep, MediaStep
  <2> QED
    BY <1>1, <2>2, SilencedStep
<1>2. Typed /\ SafeInv /\ [Next]_vars =>
        [\A id \in Ids :
            /\ answers'[id] # answers[id]
            /\ in_progress.method = "STOP"
            /\ in_progress.only = {}
            => \A other \in 1 .. id - 1 : speech'[other] \in {"none", "COMPLETE"}]_vars
  BY <1>1 DEF Silenced
<1> QED
  BY <1>2, CarefulHolds, PTL DEF Spec, StopSilences

-----------------------------------------------------------------------------
(***************************************************************************)
(* The machine of such a channel reports its deactivation only to a        *)
(* session that counts on the report (mrcp_server_session.c).              *)
(***************************************************************************)
THEOREM ReportIsCounted == ASSUME ~Queueing PROVE Spec => ReportIsAwaited
<1>1. ASSUME Typed, SafeInv, [Next]_vars, deactivations' # deactivations
      PROVE  session_state = "DEACTIVATING"
  <2>1. CarefulInv
    <3>1. ~UNCHANGED vars
      BY <1>1 DEF vars, serverVars
    <3> QED
      BY <1>1, <3>1, Zenon DEF SafeInv, Next, ServerStep, ClientStep, PluginStep, MediaStep
  <2>1a. TurnInv /\ HandedInv
    BY <2>1, Zenon DEF CarefulInv
  <2>2. ServerNext
    <3>1. ~(ClientStep \/ PluginStep \/ MediaStep)
      BY <1>1 DEF ClientStep, ClientNext, ClientRequest, ClientTerminate, ArriveRequest,
             ArriveTerminate, Arrive, PluginStep, MediaStep, serverVars
    <3>2. ~UNCHANGED vars
      BY <1>1 DEF vars, serverVars
    <3> QED
      BY <1>1, <3>1, <3>2 DEF Next, ServerStep
  <2>3. ASSUME NEW response, NEW stopped, Respond(response, stopped) PROVE ~sm_active
    BY <1>1, <2>3 DEF Respond, SendResponse
  <2>4. ~Crash
    BY <1>1 DEF Crash
  <2>5. ASSUME ~sm_active PROVE ~dispatching
    BY <2>1a, <2>5 DEF TurnInv
  <2>6. CASE Dispatch
    <3>1. ~(Forward \/ Deactivate \/ StartDeferred)
      BY <1>1 DEF Forward, Deactivate, DeactivateSession, StartDeferred
    <3>2. dispatching /\ \E state, stopped : AnswerAtOnce(state, stopped)
      BY <2>6, <3>1, Zenon DEF Dispatch, RequestSpeak, RequestStop, RequestPause, RequestResume,
         RequestBargeIn, RequestControl, RequestDefineLexicon, RequestParams, RequestIf, Dispatches
    <3> QED
      BY <2>3, <2>5, <3>2 DEF AnswerAtOnce
  <2>7. CASE \/ ResponseSpeak \/ ResponseStop \/ ResponseBargeIn \/ ResponsePause
             \/ ResponseResume \/ ResponseControl \/ ResponsePlain
    <3>1. Receives("response")
      BY <2>7, Zenon DEF ResponseSpeak, ResponseStop, ResponseBargeIn, ResponsePause,
         ResponseResume, ResponseControl, ResponsePlain, ResponseOnSpeaker, ReceivesAnswer
    <3>2. active_request # NULL
      BY <1>1, <2>1a, <3>1, AnswerTaken DEF Awaited
    <3>3. ASSUME ResponseSpeak, is_pending PROVE UNCHANGED deactivations
      <4>1. NothingWaits
        BY <2>1, Zenon DEF CarefulInv
      <4> QED
        BY <3>3, <4>1 DEF NothingWaits
    <3>4. \E stopped : Respond(Received, stopped)
      BY <1>1, <2>4, <2>7, <3>3, Zenon DEF ResponseSpeak, ResponseStop, ResponseBargeIn,
         ResponsePause, ResponseResume, ResponseControl, ResponseOnSpeaker, ResponsePlain,
         AnswerSpeak, FollowsNull, StopSpeaking
    <3> QED
      BY <2>1a, <2>3, <3>2, <3>4 DEF TurnInv
  <2>8. ~(EventSpeakComplete \/ EventUnexpected)
    BY <1>1 DEF EventSpeakComplete, EventUnexpected, serverVars
  <2> QED
    BY <1>1, <2>1, <2>2, <2>6, <2>7, <2>8, NothingUnexpected, Zenon DEF ServerNext, FromEngine
<1>2. Typed /\ SafeInv /\ [Next]_vars
        => [deactivations' # deactivations => session_state = "DEACTIVATING"]_vars
  BY <1>1
<1> QED
  BY <1>2, CarefulHolds, PTL DEF Spec, ReportIsAwaited
=============================================================================
