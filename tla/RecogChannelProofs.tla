------------------------- MODULE RecogChannelProofs -------------------------
(***************************************************************************)
(* Proofs about the recognizer channel, for any number of requests, any    *)
(* set of methods, either plugin and every choice of the Boolean           *)
(* constants.                                                              *)
(***************************************************************************)
EXTENDS RecogChannel, QueueLemmas

(***************************************************************************)
(* What recog_pending_requests_remove leaves is a queue of RECOGNIZEs; of  *)
(* an empty queue it is empty.                                             *)
(***************************************************************************)
LEMMA RemainderIsQueue ==
    ASSUME recog_queue \in Seq(Request), NEW request,
           NEW left \in Remainders(request)
    PROVE  /\ left \in Seq(Request)
           /\ recog_queue = <<>> => left = <<>>
           /\ Elements(left) \subseteq Elements(recog_queue)
<1>1. PICK kept \in SUBSET DOMAIN recog_queue : kept = Kept(request)
  BY DEF Kept
<1>2. PICK order \in Increasing(kept) : left = Rest(recog_queue, order)
  BY <1>1 DEF Remainders, Rest
<1>3. /\ left \in Seq(Request) /\ (kept = {} => left = <<>>)
      /\ Elements(left) \subseteq Elements(recog_queue)
  BY <1>1, <1>2, RestIsQueue
<1>4. recog_queue = <<>> => kept = {}
  BY <1>1
<1> QED
  BY <1>3, <1>4

LEMMA RemainderIds ==
    ASSUME recog_queue \in Seq(Request), NEW request,
           NEW left \in Remainders(request), DistinctIn(recog_queue, Request)
    PROVE  /\ DistinctIn(left, Request)
           /\ IdsOf(left, Request) \subseteq IdsOf(recog_queue, Request)
           /\ Removed(request) \subseteq IdsOf(recog_queue, Request)
           /\ Removed(request) \cap IdsOf(left, Request) = {}
<1>1. PICK kept \in SUBSET DOMAIN recog_queue : kept = Kept(request)
  BY DEF Kept
<1>2. PICK order \in Increasing(kept) : left = Rest(recog_queue, order)
  BY <1>1 DEF Remainders, Rest
<1> QED
  BY <1>1, <1>2, RestIds DEF Removed

-----------------------------------------------------------------------------
(* Types.                                                                  *)

LEMMA MessageTypes ==
    /\ TerminateRequest \in Request
    /\ \A request \in Request :
          /\ InternalStop(request) \in Request
          /\ \A state \in RequestStates : Response(request, state) \in EngineMessage
          /\ \A name \in EventNames : Event(name, request) \in EngineMessage
          /\ StartOfInput(request) \in EngineMessage
<1>1. TerminateRequest \in Request
  BY DEF TerminateRequest, Request, MethodNames, SynthMethods
<1>2. ASSUME NEW request \in Request PROVE InternalStop(request) \in Request
  BY DEF InternalStop, Request, MethodNames, SynthMethods
<1>3. ASSUME NEW request \in Request, NEW state \in RequestStates
      PROVE  Response(request, state) \in EngineMessage
  BY DEF Response, EngineMessage, Request
<1>4. ASSUME NEW request \in Request, NEW name \in EventNames
      PROVE  Event(name, request) \in EngineMessage
  BY DEF Event, EngineMessage, Request, RequestStates
<1>5. ASSUME NEW request \in Request PROVE StartOfInput(request) \in EngineMessage
  BY DEF StartOfInput, Event, EngineMessage, Request, RequestStates, EventNames
<1> QED
  BY <1>1, <1>2, <1>3, <1>4, <1>5

(***************************************************************************)
(* The engine's module and this one have the same messages.                *)
(***************************************************************************)
LEMMA SameMessages ==
    /\ Engine!Request = Request
    /\ \A request, state : Engine!Response(request, state) = Response(request, state)
    /\ \A name, request : Engine!Event(name, request) = Event(name, request)
    /\ \A request : Engine!StartOfInput(request) = StartOfInput(request)
  BY DEF Engine!Request, Request, Engine!Ids, Ids, Engine!MethodNames, MethodNames,
         Engine!SynthMethods, SynthMethods, Engine!RecogMethods, RecogMethods,
         Engine!Response, Response, Engine!Event, Event, Engine!StartOfInput, StartOfInput

\* the activity detector keeps to its states and counts no further than a timeout
LEMMA DetectorTypes ==
    /\ Engine!NewDetector \in Engine!Detector
    /\ \A d \in Engine!Detector, loud \in BOOLEAN : Engine!Processed(d, loud) \in Engine!Detector
<1> USE EngineAssumption DEF Engine!Detector, Engine!DetectorStates
<1>1. \A state \in Engine!DetectorStates : Engine!In(state) \in Engine!Detector
  BY DEF Engine!In
<1>2. ASSUME NEW d \in Engine!Detector,
             NEW timeout \in {SpeechTimeout, SilenceTimeout, NoInputTimeout}
      PROVE  Engine!Lasting(d, timeout) \in Engine!Detector
  BY DEF Engine!Lasting
<1>3. ASSUME NEW d \in Engine!Detector, NEW loud \in BOOLEAN
      PROVE  Engine!Processed(d, loud) \in Engine!Detector
  BY <1>1, <1>2 DEF Engine!Processed
<1> QED
  BY <1>1, <1>3 DEF Engine!NewDetector

ClientTypeOK == recognition \in [Ids -> {"none", "asked"} \cup RequestStates]

LEMMA ArriveTypes ==
    ASSUME SessionTypeOK, NEW request \in Request, Arrive(request),
           next_id' \in 1 .. MaxRequests + 1, terminated' \in BOOLEAN
    PROVE  SessionTypeOK'
<1>1. /\ in_progress \in Request \cup {NULL}
      /\ request_queue \in Seq(Request)
      /\ dispatching \in BOOLEAN
  BY Zenon DEF SessionTypeOK
<1>2. \/ /\ request_queue' = Append(request_queue, request)
         /\ UNCHANGED <<in_progress, dispatching>>
      \/ /\ in_progress' = request
         /\ dispatching' = TRUE
         /\ UNCHANGED request_queue
  BY Zenon DEF Arrive, Enqueue
<1>3. in_progress' \in Request \cup {NULL}
  BY Zenon, <1>1, <1>2
<1>4. request_queue' \in Seq(Request)
  BY <1>1, <1>2
<1>5. dispatching' \in BOOLEAN
  BY Zenon, <1>1, <1>2
<1>6. UNCHANGED <<session_state, deactivations, answers>>
  BY Zenon DEF Arrive, Enqueue
<1> QED
  BY Zenon, <1>3, <1>4, <1>5, <1>6 DEF SessionTypeOK

LEMMA RespondTypes ==
    ASSUME SessionTypeOK, ClientTypeOK, NEW response \in EngineMessage,
           NEW stopped, Respond(response, stopped),
           UNCHANGED <<next_id, terminated>>
    PROVE  SessionTypeOK' /\ ClientTypeOK' /\ active_request' = NULL
<1>1. response.state \in RequestStates
  BY DEF EngineMessage
<1>2. CASE sm_active
  <2>1. SendResponse(response) /\ TellClient(response, stopped)
    BY <1>2 DEF Respond
  <2>2. ClientTypeOK'
    BY <1>1, <2>1 DEF TellClient, ClientTypeOK, RequestStates
  <2>3. answers' \in [Ids -> Nat]
    <3>1. answers \in [Ids -> Nat]
      BY DEF SessionTypeOK
    <3>2. answers' = [answers EXCEPT ![response.id] = answers[response.id] + 1]
      BY <2>1 DEF SendResponse
    <3>3. ASSUME NEW id \in Ids PROVE answers'[id] \in Nat
      BY <3>1, <3>2
    <3> QED
      BY <3>1, <3>2, <3>3
  <2>4. /\ in_progress' \in Request \cup {NULL}
        /\ request_queue' \in Seq(Request)
        /\ dispatching' \in BOOLEAN
    BY <2>1 DEF SendResponse, PopRequest, SessionTypeOK
  <2> QED
    BY <2>1, <2>2, <2>3, <2>4 DEF SendResponse, SessionTypeOK, Respond
<1>3. CASE ~sm_active
  BY <1>3 DEF Respond, ReportDeactivation, SessionTypeOK, ClientTypeOK
<1> QED
  BY <1>2, <1>3

LEMMA TypeOKInit == Init => TypeOK
<1> SUFFICES ASSUME Init PROVE TypeOK
  OBVIOUS
<1> USE MessageAssumption, EngineAssumption
    DEF Init, MachineInit, SessionInit, QueueInit, Engine!XfyunInit, Engine!EngineInit,
        RequestStates
<1>1. SessionTypeOK
  <2>1. dispatching \in BOOLEAN /\ terminated \in BOOLEAN
    BY Zenon
  <2> QED
    BY <2>1 DEF SessionTypeOK, Ids
<1>2. MachineTypeOK
  <2>1. sm_active \in BOOLEAN /\ is_pending \in BOOLEAN
    BY Zenon
  <2> QED
    BY <1>1, <2>1 DEF MachineTypeOK
<1>3. Engine!EngineTypeOK /\ Engine!XfyunTypeOK
  <2>1. timers_started \in BOOLEAN /\ clearing \in BOOLEAN
    BY Zenon
  <2>2. detector \in Engine!Detector
    BY DetectorTypes
  <2> QED
    BY <2>1, <2>2 DEF Engine!EngineTypeOK, Engine!XfyunTypeOK, Engine!Steps
<1> QED
  BY <1>2, <1>3 DEF TypeOK

LEMMA NewRequestTypes ==
    ASSUME SessionTypeOK, NEW method \in Methods, NEW only \in Selections,
           NEW flag \in BOOLEAN, ClientRequest(method, only, flag)
    PROVE  NewRequest(method, only, flag) \in Request
<1>1. next_id \in Ids
  BY MessageAssumption DEF ClientRequest, ArriveRequest, Ids, SessionTypeOK
<1>2. only \in SUBSET Ids
  BY <1>1, MessageAssumption DEF Selections, Ids
<1> QED
  BY <1>1, <1>2, MessageAssumption DEF NewRequest, Request, Ids

LEMMA ClientTypes == TypeOK /\ ClientStep => TypeOK'
<1> SUFFICES ASSUME TypeOK, ClientStep PROVE TypeOK'
  OBVIOUS
<1> USE DEF TypeOK, MachineTypeOK
<1>0. Engine!EngineTypeOK' /\ Engine!XfyunTypeOK'
  BY DEF ClientStep, channelVars, sdkVars, Engine!EngineTypeOK, Engine!XfyunTypeOK
<1>1. CASE ClientTerminate
  <2>1. SessionTypeOK'
    BY <1>1, ArriveTypes, MessageTypes DEF ClientTerminate, ArriveTerminate, SessionTypeOK
  <2> QED
    BY <1>0, <1>1, <2>1 DEF ClientTerminate, machineVars, queueVars
<1>2. ASSUME NEW method \in Methods, NEW only \in Selections, NEW flag \in BOOLEAN,
             ClientRequest(method, only, flag)
      PROVE  TypeOK'
  <2>1. NewRequest(method, only, flag) \in Request
    BY <1>2, NewRequestTypes
  <2>2. SessionTypeOK'
    BY <1>2, <2>1, ArriveTypes, MessageAssumption
       DEF ClientRequest, ArriveRequest, SessionTypeOK
  <2>3. ClientTypeOK'
    BY <1>2 DEF ClientRequest, ClientTypeOK
  <2> QED
    BY <1>0, <1>2, <2>2, <2>3 DEF ClientRequest, machineVars, queueVars, ClientTypeOK
<1> QED
  BY <1>1, <1>2 DEF ClientStep, ClientNext

\* the pipe between the machine and the engine
PipeTypeOK == toEngine \in Seq(Request) /\ fromEngine \in Seq(EngineMessage)

\* where the task of the second plugin is: a request it works on is there, it
\* is a STOP whenever the task ends a session, and the demo plugin has no steps
EndSteps == {"check", "end", "reset", "ended"}
TaskInv ==
    /\ plugin = "demo" => task_step = "idle"
    /\ task_step # "idle" => taken # NULL
    /\ task_step = "failed" => SdkMayFail
    /\ task_step \in EndSteps => taken.method = "STOP"

LEMMA TaskStep == TypeOK /\ TaskInv /\ [Next]_vars => TaskInv'
<1> SUFFICES ASSUME TypeOK, TaskInv, [Next]_vars PROVE TaskInv'
  OBVIOUS
<1>1. CASE UNCHANGED <<plugin, taken, task_step>>
  BY <1>1 DEF TaskInv
<1>2. ASSUME UNCHANGED plugin, plugin = "demo" => task_step = "idle",
             task_step' = "idle"
      PROVE  TaskInv'
  BY <1>2 DEF TaskInv, EndSteps
<1>3. CASE PluginStep /\ plugin = "demo"
  <2>1. UNCHANGED <<plugin, task_step>> /\ task_step = "idle"
    BY <1>3 DEF PluginStep, sdkVars, TaskInv
  <2> QED
    BY <1>2, <2>1
<1>4. CASE UNCHANGED plugin /\ plugin # "demo" /\ Engine!XfyunPluginNext
  <2>1. CASE Engine!XfyunSessionBegins
    BY <1>4, <2>1 DEF Engine!XfyunSessionBegins, Engine!Begins, Engine!taskVars, TaskInv, EndSteps
  <2>2. CASE Engine!XfyunBeginFails
    BY <1>4, <2>2 DEF Engine!XfyunBeginFails, Engine!Begins, Engine!taskVars, TaskInv, EndSteps
  <2>3. CASE Engine!XfyunStopTaken
    <3>1. /\ toEngine \in Seq(Request) /\ toEngine # <<>> /\ taken' = Head(toEngine)
          /\ Head(toEngine).method = "STOP" /\ task_step' = "check"
      BY <2>3 DEF Engine!XfyunStopTaken, Engine!Takes, TypeOK, MachineTypeOK
    <3>2. taken' # NULL
      BY <3>1, NullAssumption
    <3> QED
      BY <1>4, <3>1, <3>2 DEF TaskInv, EndSteps
  <2>4. CASE Engine!XfyunTaskEndsSession
    <3>1. task_step \in EndSteps /\ task_step' \in EndSteps /\ taken' = taken
      BY <2>4 DEF Engine!XfyunTaskEndsSession, Engine!EndSession, Engine!taskVars, EndSteps
    <3> QED
      BY <1>4, <3>1 DEF TaskInv, EndSteps
  <2>5. CASE Engine!XfyunRecognizeStored \/ Engine!XfyunFailureAnswered \/ Engine!XfyunStopStored
    <3>1. task_step' = "idle"
      BY <2>5 DEF Engine!XfyunRecognizeStored, Engine!XfyunFailureAnswered, Engine!XfyunStopStored
    <3> QED
      BY <1>4, <3>1 DEF TaskInv, EndSteps
  <2>6. CASE Engine!RecognizeAccepted /\ UNCHANGED Engine!sdkVars
    <3>1. task_step = "idle" /\ task_step' = "idle"
      BY <2>6 DEF Engine!RecognizeAccepted, Engine!Takes, Engine!sdkVars, TaskInv
    <3> QED
      BY <1>2, <1>4, <3>1
  <2>7. CASE /\ Engine!RecognizeRefused \/ Engine!TimersStart \/ Engine!OtherAnswered
             /\ UNCHANGED Engine!sdkVars
    <3>1. UNCHANGED <<taken, task_step>>
      BY <2>7 DEF Engine!RecognizeRefused, Engine!TimersStart, Engine!OtherAnswered,
         Engine!taskVars, Engine!sdkVars
    <3> QED
      BY <1>1, <1>4, <3>1
  <2> QED
    BY <1>4, <2>1, <2>2, <2>3, <2>4, <2>5, <2>6, <2>7 DEF Engine!XfyunPluginNext
<1>5. CASE MediaStep
  <2>1. ASSUME NEW loud, \/ Engine!FrameHeard(loud) \/ Engine!RecognitionEnds(loud)
                         \/ Engine!XfyunRecognitionEnds(loud)
        PROVE  UNCHANGED taken
    BY <2>1 DEF Engine!FrameHeard, Engine!RecognitionEnds, Engine!XfyunRecognitionEnds,
       Engine!FrameWritten, Engine!taskVars
  <2>2. ASSUME \/ Engine!StopAnswered \/ Engine!StopCleared \/ Engine!RecognitionCleared
               \/ Engine!XfyunMediaEndsSession \/ Engine!XfyunEventCreated
        PROVE  UNCHANGED taken
    BY <2>2 DEF Engine!StopAnswered, Engine!StopCleared, Engine!RecognitionCleared,
       Engine!XfyunMediaEndsSession, Engine!XfyunEventCreated, Engine!taskVars
  <2>3. UNCHANGED taken
    BY <1>5, <2>1, <2>2 DEF MediaStep, Engine!MediaNext, Engine!XfyunMediaNext
  <2>4. ASSUME NEW loud, Engine!XfyunRecognitionEnds(loud) PROVE UNCHANGED task_step
    BY <2>4 DEF Engine!XfyunRecognitionEnds
  <2>5. UNCHANGED <<plugin, task_step>>
    BY <1>5, <2>4 DEF MediaStep, sdkVars, Engine!sdkVars, Engine!XfyunMediaNext,
       Engine!XfyunMediaEndsSession, Engine!XfyunEventCreated
  <2> QED
    BY <1>1, <2>3, <2>5
<1>6. CASE ServerStep \/ ClientStep \/ UNCHANGED vars
  BY <1>1, <1>6 DEF ServerStep, ClientStep, vars, channelVars, sdkVars
<1> QED
  BY <1>3, <1>4, <1>5, <1>6 DEF Next, PluginStep

LEMMA EngineTypes == TypeOK /\ TaskInv /\ (PluginStep \/ MediaStep) => TypeOK'
<1> SUFFICES ASSUME TypeOK, TaskInv, PluginStep \/ MediaStep PROVE TypeOK'
  OBVIOUS
<1>1. SessionTypeOK' /\ UNCHANGED serverVars /\ UNCHANGED clientVars
  BY DEF TypeOK, MachineTypeOK, SessionTypeOK, PluginStep, MediaStep,
         serverVars, sessionVars, clientVars
<1> SUFFICES PipeTypeOK' /\ Engine!EngineTypeOK' /\ Engine!XfyunTypeOK'
  BY <1>1 DEF TypeOK, MachineTypeOK, serverVars, machineVars, clientVars, PipeTypeOK
<1> USE MessageTypes, SameMessages
    DEF TypeOK, MachineTypeOK, PipeTypeOK, RequestStates, EventNames
<1>2. ASSUME NEW methods, Engine!Takes(methods)
      PROVE  /\ Head(toEngine) \in Request /\ toEngine' \in Seq(Request)
             /\ \A state \in RequestStates :
                   Engine!Answers(state) => fromEngine' \in Seq(EngineMessage)
  <2>1. toEngine \in Seq(Request) /\ toEngine # <<>> /\ toEngine' = Tail(toEngine)
    BY <1>2 DEF Engine!Takes
  <2>2. PICK request \in Request : request = Head(toEngine)
    BY <2>1
  <2>3. toEngine' \in Seq(Request)
    BY <2>1
  <2>4. ASSUME NEW state \in RequestStates, Engine!Answers(state)
        PROVE  fromEngine' \in Seq(EngineMessage)
    <3>1. fromEngine' = Append(fromEngine, Response(request, state))
      BY <2>2, <2>4 DEF Engine!Answers, Engine!SendToServer
    <3>2. Response(request, state) \in EngineMessage
      BY <2>4
    <3> QED
      BY <3>1, <3>2
  <2> QED
    BY <2>2, <2>3, <2>4
<1>3. ASSUME Engine!RecognizeAccepted
       PROVE  PipeTypeOK' /\ Engine!EngineTypeOK'
  <2>1. timers_started' \in BOOLEAN
    BY <1>2, <1>3 DEF Engine!RecognizeAccepted, Request
  <2> QED
    BY <1>2, <1>3, <2>1
       DEF Engine!RecognizeAccepted, Engine!mediaVars, Engine!EngineTypeOK
<1>4. ASSUME Engine!RecognizeStored
       PROVE  PipeTypeOK' /\ Engine!EngineTypeOK'
  BY <1>4 DEF Engine!RecognizeStored, Engine!mediaVars, Engine!EngineTypeOK
<1>5. ASSUME Engine!RecognizeRefused
       PROVE  PipeTypeOK' /\ Engine!EngineTypeOK'
  BY <1>2, <1>5
     DEF Engine!RecognizeRefused, Engine!taskVars, Engine!mediaVars, Engine!EngineTypeOK
<1>6. ASSUME Engine!StopStored
       PROVE  PipeTypeOK' /\ Engine!EngineTypeOK'
  BY <1>2, <1>6 DEF Engine!StopStored, Engine!taskVars, Engine!mediaVars, Engine!EngineTypeOK
<1>7. ASSUME Engine!TimersStart
       PROVE  PipeTypeOK' /\ Engine!EngineTypeOK'
  <2>1. timers_started' \in BOOLEAN
    BY <1>7, Zenon DEF Engine!TimersStart
  <2> QED
    BY <1>2, <1>7, <2>1 DEF Engine!TimersStart, Engine!mediaVars, Engine!EngineTypeOK
<1>8. ASSUME Engine!OtherAnswered
       PROVE  PipeTypeOK' /\ Engine!EngineTypeOK'
  BY <1>2, <1>8 DEF Engine!OtherAnswered, Engine!taskVars, Engine!mediaVars, Engine!EngineTypeOK
<1>9. ASSUME Engine!XfyunFailureAnswered
       PROVE  PipeTypeOK' /\ Engine!EngineTypeOK'
  <2>1. taken \in Request
    BY <1>9 DEF Engine!XfyunFailureAnswered, Engine!EngineTypeOK, TaskInv
  <2> QED
    BY <1>9, <2>1
       DEF Engine!XfyunFailureAnswered, Engine!SendToServer, Engine!mediaVars,
           Engine!EngineTypeOK
<1>10. ASSUME Engine!StopAnswered
       PROVE  PipeTypeOK' /\ Engine!EngineTypeOK'
  <2>1. stop_response \in Request /\ UNCHANGED toEngine
        /\ fromEngine' = Append(fromEngine, Engine!Response(stop_response, "COMPLETE"))
    BY <1>10 DEF Engine!StopAnswered, Engine!EngineTypeOK, Engine!SendToServer
  <2>2. clearing' \in BOOLEAN
    BY <1>10, Zenon DEF Engine!StopAnswered, Engine!EngineTypeOK
  <2> QED
    BY <1>10, <2>1, <2>2 DEF Engine!StopAnswered, Engine!taskVars, Engine!EngineTypeOK
<1>11. ASSUME Engine!StopCleared
       PROVE  PipeTypeOK' /\ Engine!EngineTypeOK'
  <2>1. clearing' \in BOOLEAN
    BY <1>11, Zenon DEF Engine!StopCleared
  <2> QED
    BY <1>11, <2>1 DEF Engine!StopCleared, Engine!taskVars, Engine!EngineTypeOK
<1>12. ASSUME NEW loud \in BOOLEAN, Engine!FrameWritten(loud)
       PROVE  /\ recog_request \in Request
              /\ detector' \in Engine!Detector /\ loud_frames' \in 0 .. MaxLoudFrames
              /\ UNCHANGED <<toEngine, stop_response, timers_started, taken, clearing>>
  <2>1. detector' \in Engine!Detector
    BY <1>12, DetectorTypes DEF Engine!FrameWritten, Engine!EngineTypeOK
  <2>2. loud_frames' \in 0 .. MaxLoudFrames
    BY <1>12, EngineAssumption DEF Engine!FrameWritten, Engine!EngineTypeOK
  <2>3. recog_request \in Request
    <3>1. recog_request # NULL
      BY <1>12, Zenon DEF Engine!FrameWritten
    <3>2. recog_request \in Request \cup {NULL}
      BY SameMessages DEF Engine!EngineTypeOK
    <3> QED
      BY <3>1, <3>2
  <2>4. UNCHANGED <<toEngine, stop_response, timers_started, taken, clearing>>
    BY <1>12 DEF Engine!FrameWritten, Engine!taskVars
  <2> QED
    BY <2>1, <2>2, <2>3, <2>4
<1>13. ASSUME NEW loud \in BOOLEAN, Engine!FrameHeard(loud)
       PROVE  PipeTypeOK' /\ Engine!EngineTypeOK'
  <2>1. Engine!FrameWritten(loud) /\ UNCHANGED <<recog_request, completing>>
    BY <1>13 DEF Engine!FrameHeard
  <2>2. fromEngine' \in Seq(EngineMessage)
    BY <1>12, <1>13, <2>1 DEF Engine!FrameHeard, Engine!SendToServer
  <2> QED
    BY <1>12, <2>1, <2>2 DEF Engine!EngineTypeOK
<1>14. ASSUME NEW loud \in BOOLEAN, Engine!RecognitionEnds(loud)
       PROVE  PipeTypeOK' /\ Engine!EngineTypeOK'
  BY <1>12, <1>14 DEF Engine!RecognitionEnds, Engine!EngineTypeOK
<1>15. ASSUME NEW loud \in BOOLEAN, Engine!XfyunRecognitionEnds(loud)
       PROVE  PipeTypeOK' /\ Engine!EngineTypeOK'
  BY <1>12, <1>15 DEF Engine!XfyunRecognitionEnds, Engine!EngineTypeOK
<1>16. ASSUME Engine!RecognitionCleared
       PROVE  PipeTypeOK' /\ Engine!EngineTypeOK'
  <2>1. completing \in Request
    BY <1>16 DEF Engine!RecognitionCleared, Engine!EngineTypeOK
  <2> QED
    BY <1>16, <2>1
       DEF Engine!RecognitionCleared, Engine!SendToServer, Engine!taskVars,
           Engine!EngineTypeOK
\* the steps of the task and of the media engine within a request or a write
<1>19. ASSUME \/ Engine!XfyunSessionBegins \/ Engine!XfyunBeginFails
              \/ Engine!XfyunTaskEndsSession \/ Engine!XfyunMediaEndsSession
       PROVE  PipeTypeOK' /\ Engine!EngineTypeOK'
  <2>1. UNCHANGED <<toEngine, fromEngine, recog_request, stop_response, timers_started,
                    taken, detector, clearing, completing, loud_frames>>
    BY <1>19 DEF Engine!XfyunSessionBegins, Engine!XfyunBeginFails,
       Engine!XfyunTaskEndsSession, Engine!XfyunMediaEndsSession, Engine!taskVars,
       Engine!mediaVars
  <2> QED
    BY <2>1 DEF Engine!EngineTypeOK
<1>20. ASSUME Engine!XfyunStopTaken
       PROVE  PipeTypeOK' /\ Engine!EngineTypeOK'
  BY <1>2, <1>20 DEF Engine!XfyunStopTaken, Engine!mediaVars, Engine!EngineTypeOK
<1>21. ASSUME Engine!XfyunStopStored
       PROVE  PipeTypeOK' /\ Engine!EngineTypeOK'
  BY <1>21 DEF Engine!XfyunStopStored, Engine!mediaVars, Engine!EngineTypeOK
<1>22. ASSUME Engine!XfyunEventCreated
       PROVE  PipeTypeOK' /\ Engine!EngineTypeOK'
  BY <1>22 DEF Engine!XfyunEventCreated, Engine!taskVars, Engine!EngineTypeOK
<1>17. PipeTypeOK' /\ Engine!EngineTypeOK'
  <2>1. CASE PluginStep
    BY <1>3, <1>4, <1>5, <1>6, <1>7, <1>8, <1>9, <1>19, <1>20, <1>21, <2>1, Zenon
       DEF PluginStep, Engine!PluginNext, Engine!XfyunPluginNext,
           Engine!XfyunRecognizeStored
  <2>2. CASE MediaStep
    BY <1>10, <1>11, <1>13, <1>14, <1>15, <1>16, <1>19, <1>22, <2>2, Zenon
       DEF MediaStep, Engine!MediaNext, Engine!XfyunMediaNext
  <2> QED
    BY <2>1, <2>2
<1>18. Engine!XfyunTypeOK'
  <2> USE DEF Engine!XfyunTypeOK, Engine!Steps
  <2>1. taken # NULL => taken.id \in Nat
    BY DEF Engine!EngineTypeOK, Request
  <2>2. ASSUME NEW step, NEW next, Engine!EndSession(step, next)
        PROVE  /\ session_id' \in Nat /\ sdk_sessions' \subseteq Nat
               /\ next \in Engine!Steps
    <3>1. next \in {"end", "reset", "ended"}
      BY <2>2 DEF Engine!EndSession
    <3>2. session_id' \in {0, session_id} /\ sdk_sessions' \subseteq sdk_sessions
      BY <2>2 DEF Engine!EndSession
    <3> QED
      BY <3>1, <3>2
  <2>3. CASE UNCHANGED sdkVars
    BY <2>3 DEF sdkVars
  <2>4. CASE Engine!XfyunTaskEndsSession
    BY <2>2, <2>4 DEF Engine!XfyunTaskEndsSession
  <2>5. CASE Engine!XfyunMediaEndsSession
    BY <2>2, <2>5 DEF Engine!XfyunMediaEndsSession
  <2>6. CASE Engine!XfyunSessionBegins
    BY <2>1, <2>6 DEF Engine!XfyunSessionBegins, Engine!Begins
  <2>7. CASE Engine!XfyunBeginFails \/ Engine!XfyunFailureAnswered
             \/ Engine!XfyunRecognizeStored \/ Engine!XfyunStopTaken
             \/ Engine!XfyunStopStored \/ Engine!XfyunEventCreated
    <3>1. session_id' \in {0, session_id} /\ UNCHANGED sdk_sessions
      BY <2>7 DEF Engine!XfyunBeginFails, Engine!XfyunFailureAnswered,
         Engine!XfyunRecognizeStored, Engine!XfyunStopTaken, Engine!XfyunStopStored,
         Engine!XfyunEventCreated
    <3>2. task_step' \in {task_step, "failed", "idle", "check"}
      BY <2>7 DEF Engine!XfyunBeginFails, Engine!XfyunFailureAnswered,
         Engine!XfyunRecognizeStored, Engine!XfyunStopTaken, Engine!XfyunStopStored,
         Engine!XfyunEventCreated
    <3>3. media_step' \in {media_step, "idle"}
      BY <2>7 DEF Engine!XfyunBeginFails, Engine!XfyunFailureAnswered,
         Engine!XfyunRecognizeStored, Engine!XfyunStopTaken, Engine!XfyunStopStored,
         Engine!XfyunEventCreated
    <3> QED
      BY <3>1, <3>2, <3>3
  <2>8. ASSUME NEW loud, Engine!XfyunRecognitionEnds(loud) PROVE Engine!XfyunTypeOK'
    BY <2>8 DEF Engine!XfyunRecognitionEnds
  <2>9. Engine!sdkVars = sdkVars
    BY DEF Engine!sdkVars, sdkVars
  <2>10. CASE PluginStep
    BY <2>3, <2>4, <2>6, <2>7, <2>10, Zenon
       DEF PluginStep, Engine!XfyunPluginNext, Engine!sdkVars, sdkVars
  <2>11. CASE MediaStep
    BY <2>3, <2>5, <2>7, <2>8, <2>11, Zenon
       DEF MediaStep, Engine!XfyunMediaNext, Engine!sdkVars, sdkVars
  <2> QED
    BY <2>10, <2>11
<1> QED
  BY <1>17, <1>18

(***************************************************************************)
(* The state of the machine and its pointer to the recognition.            *)
(***************************************************************************)
LEMMA RecogStateStep == RecogState /\ [Next]_vars => RecogState'
<1> SUFFICES ASSUME RecogState, [Next]_vars PROVE RecogState'
  OBVIOUS
<1>1. CASE Unmoved
  BY <1>1 DEF Unmoved, RecogState
<1>2. CASE ForgetRecognized
  BY <1>1, <1>2 DEF ForgetRecognized, RecogState
<1>3. CASE ResponseRecognize
  <2>1. active_request # NULL
    BY <1>3 DEF ResponseRecognize, ReceivesAnswer, Awaited
  <2> QED
    BY <1>1, <1>3, <2>1 DEF ResponseRecognize, RecogState
<1>4. CASE ResponseStop
  BY <1>4 DEF ResponseStop, RecogState
<1>5. CASE EventRecognitionComplete
  BY <1>5 DEF EventRecognitionComplete, CompletesRecog, OfRecog, RecogState
<1>6. \/ Unmoved \/ ForgetRecognized \/ ResponseRecognize \/ ResponseStop
      \/ EventRecognitionComplete
  BY DEF Unmoved, Next, ServerStep, ServerNext, Dispatch, FromEngine, ClientStep,
     ClientNext, ClientRequest, ClientTerminate, PluginStep, MediaStep,
     RequestRecognize, RequestStop, RequestDefineGrammar, RequestGetResult,
     RequestStartTimers, RequestParams, RequestIf, Deactivate, StartDeferred,
     ResponseUnexpected, ResponsePlain, EventStartOfInput, EventUnexpected,
     vars, serverVars, machineVars
<1> QED
  BY <1>1, <1>2, <1>3, <1>4, <1>5, <1>6

(***************************************************************************)
(* The session dispatches a request, never the null pointer.               *)
(***************************************************************************)
DispatchesRequest == dispatching => in_progress \in Request

Typed == TypeOK /\ DispatchesRequest /\ RecogState

LEMMA PopDispatches ==
    ASSUME request_queue \in Seq(Request), PopRequest
    PROVE  DispatchesRequest'
<1>1. CASE request_queue = <<>>
  <2>1. dispatching' = FALSE
    BY <1>1, Zenon DEF PopRequest
  <2> QED
    BY <2>1, Zenon DEF DispatchesRequest
<1>2. CASE request_queue # <<>>
  <2>1. in_progress' \in Request
    BY <1>2 DEF PopRequest
  <2> QED
    BY <2>1, Zenon DEF DispatchesRequest
<1> QED
  BY <1>1, <1>2

LEMMA RespondDispatches ==
    ASSUME SessionTypeOK, DispatchesRequest, NEW response, NEW stopped,
           Respond(response, stopped)
    PROVE  DispatchesRequest'
<1>1. CASE sm_active
  BY <1>1, PopDispatches, Zenon DEF Respond, SendResponse, SessionTypeOK
<1>2. CASE ~sm_active
  BY <1>2, Zenon DEF Respond, ReportDeactivation, DispatchesRequest
<1> QED
  BY <1>1, <1>2

LEMMA ForwardTypes ==
    ASSUME Typed, dispatching, Forward, UNCHANGED <<next_id, terminated>>
    PROVE  /\ SessionTypeOK' /\ ClientTypeOK' /\ DispatchesRequest'
           /\ active_request' \in Request
           /\ toEngine' \in Seq(Request)
<1>1. in_progress \in Request
  BY Zenon DEF Typed, DispatchesRequest
<1>2. dispatching' = FALSE
  BY Zenon DEF Forward
<1>3. dispatching' \in BOOLEAN /\ DispatchesRequest'
  BY <1>2, Zenon DEF DispatchesRequest
<1> QED
  BY <1>1, <1>3
     DEF Typed, TypeOK, MachineTypeOK, SessionTypeOK, ClientTypeOK, Forward, SendToEngine

LEMMA AnswerAtOnceTypes ==
    ASSUME Typed, dispatching, NEW state \in RequestStates, NEW stopped,
           AnswerAtOnce(state, stopped), UNCHANGED <<next_id, terminated>>
    PROVE  /\ SessionTypeOK' /\ ClientTypeOK' /\ DispatchesRequest'
           /\ active_request' = NULL
           /\ toEngine' \in Seq(Request)
<1>1. in_progress \in Request
  BY Zenon DEF Typed, DispatchesRequest
<1>2. SessionTypeOK /\ ClientTypeOK /\ DispatchesRequest /\ toEngine \in Seq(Request)
  BY DEF Typed, TypeOK, MachineTypeOK, ClientTypeOK
<1>3. Response(in_progress, state) \in EngineMessage
  BY <1>1, MessageTypes
<1> QED
  BY <1>2, <1>3, RespondTypes, RespondDispatches DEF AnswerAtOnce

LEMMA RequestTypes ==
    ASSUME Typed, UNCHANGED channelVars, RecogState',
           \/ RequestRecognize \/ RequestStop \/ RequestDefineGrammar
           \/ RequestGetResult \/ RequestStartTimers \/ RequestParams
    PROVE  Typed'
<1>1. /\ dispatching
      /\ RequestFrame
      /\ \/ Forward
         \/ \E stopped : \E state \in RequestStates : AnswerAtOnce(state, stopped)
  BY Zenon DEF RequestRecognize, RequestStop, RequestDefineGrammar, RequestGetResult,
     RequestStartTimers, RequestParams, RequestIf, Dispatches, RequestStates
<1>2. recog_queue' \in Seq(Request)
  <2>1. recog_queue \in Seq(Request) /\ in_progress \in Request
    BY <1>1 DEF Typed, TypeOK, MachineTypeOK, DispatchesRequest
  <2>2. \/ recog_queue' = recog_queue
        \/ recog_queue' = Append(recog_queue, in_progress)
        \/ recog_queue' \in Remainders(in_progress)
    BY Zenon DEF RequestRecognize, RequestStop, RequestDefineGrammar, RequestGetResult,
       RequestStartTimers, RequestParams, RequestIf
  <2> QED
    BY <2>1, <2>2, RemainderIsQueue
<1>3. /\ SessionTypeOK' /\ ClientTypeOK' /\ DispatchesRequest'
      /\ active_request' \in Request \cup {NULL}
      /\ toEngine' \in Seq(Request)
  BY <1>1, ForwardTypes, AnswerAtOnceTypes, Zenon DEF RequestFrame
<1>4. Engine!EngineTypeOK' /\ Engine!XfyunTypeOK'
  BY DEF Typed, TypeOK, Engine!EngineTypeOK, Engine!XfyunTypeOK, channelVars, sdkVars
<1>5. /\ sm_state' \in {"IDLE", "RECOGNIZING", "RECOGNIZED"}
      /\ recog' \in Request \cup {NULL}
  BY DEF RequestRecognize, RequestStop, RequestDefineGrammar, RequestGetResult,
     RequestStartTimers, RequestParams, RequestIf, Unmoved, ForgetRecognized,
     Typed, TypeOK, MachineTypeOK
<1> QED
  BY <1>1, <1>2, <1>3, <1>4, <1>5
     DEF Typed, TypeOK, MachineTypeOK, RequestFrame, ClientTypeOK

LEMMA DeactivateTypes ==
    ASSUME Typed, UNCHANGED channelVars, RecogState', Deactivate \/ StartDeferred
    PROVE  Typed'
<1> USE MessageTypes DEF Typed, TypeOK, MachineTypeOK, Unmoved
<1>1. Engine!EngineTypeOK' /\ Engine!XfyunTypeOK'
  BY DEF Engine!EngineTypeOK, Engine!XfyunTypeOK, channelVars, sdkVars
<1>2. CASE Deactivate
  <2>1. /\ SessionTypeOK' /\ DispatchesRequest'
    <3>1. dispatching' \in BOOLEAN /\ DispatchesRequest'
      BY <1>2, Zenon DEF Deactivate, DeactivateSession, DispatchesRequest
    <3> QED
      BY <1>2, <3>1 DEF Deactivate, DeactivateSession, SessionTypeOK
  <2>2. active_request' \in Request \cup {NULL} /\ toEngine' \in Seq(Request)
    <3>1. CASE sm_state # "RECOGNIZING"
      BY <1>2, <3>1 DEF Deactivate
    <3>2. CASE sm_state = "RECOGNIZING"
      <4>1. PICK request \in Request : request = InternalStop(recog)
        BY <3>2 DEF RecogState
      <4>2. active_request' = request /\ toEngine' = Append(toEngine, request)
        BY <1>2, <3>2, <4>1 DEF Deactivate, SendToEngine
      <4> QED
        BY <4>2
    <3> QED
      BY <3>1, <3>2
  <2>3. sm_active' \in BOOLEAN
    BY <1>2, Zenon DEF Deactivate
  <2> QED
    BY <1>1, <1>2, <2>1, <2>2, <2>3 DEF Deactivate
<1>3. CASE StartDeferred
  <2>1. SessionTypeOK' /\ DispatchesRequest'
    BY <1>3 DEF StartDeferred, sessionVars, clientVars, SessionTypeOK, DispatchesRequest
  <2>2. is_pending' \in BOOLEAN
    BY <1>3, Zenon DEF StartDeferred
  <2> QED
    BY <1>1, <1>3, <2>1, <2>2 DEF StartDeferred, SendToEngine, clientVars
<1> QED
  BY <1>2, <1>3

LEMMA ReceivesTypes ==
    ASSUME Typed, NEW kind, Receives(kind)
    PROVE  /\ Received \in EngineMessage
           /\ fromEngine' \in Seq(EngineMessage)
           /\ ~dispatching
  BY DEF Typed, TypeOK, MachineTypeOK, Receives, Received, Waiting

LEMMA SendEventTypes ==
    ASSUME ClientTypeOK, NEW message \in EngineMessage, SendEvent(message)
    PROVE  ClientTypeOK'
<1>1. message.state \in RequestStates
  BY DEF EngineMessage
<1>2. CASE sm_active
  <2>1. recognition' = [recognition EXCEPT ![message.id] = message.state]
    BY <1>2, Zenon DEF SendEvent
  <2> QED
    BY <1>1, <2>1 DEF ClientTypeOK
<1>3. CASE ~sm_active
  BY <1>3, Zenon DEF SendEvent, ClientTypeOK
<1> QED
  BY <1>2, <1>3

LEMMA EventTypes ==
    ASSUME Typed, UNCHANGED channelVars, RecogState',
           ResponseUnexpected \/ EventUnexpected \/ EventStartOfInput
    PROVE  Typed'
<1>1. PICK kind : Receives(kind)
  BY DEF ResponseUnexpected, EventUnexpected, EventStartOfInput
<1>2. Received \in EngineMessage /\ fromEngine' \in Seq(EngineMessage)
  BY <1>1, ReceivesTypes
<1>3. UNCHANGED <<serverVars, toEngine, next_id, terminated, answers>>
  BY DEF ResponseUnexpected, EventUnexpected, EventStartOfInput, clientVars
<1>4. ClientTypeOK
  BY DEF Typed, TypeOK, MachineTypeOK, ClientTypeOK
<1>5. ClientTypeOK'
  <2>1. CASE EventStartOfInput
    BY <1>2, <1>4, <2>1, SendEventTypes DEF EventStartOfInput
  <2>2. CASE ResponseUnexpected \/ EventUnexpected
    BY <1>4, <2>2 DEF ResponseUnexpected, EventUnexpected, clientVars, ClientTypeOK
  <2> QED
    BY <2>1, <2>2
<1>6. UNCHANGED <<sessionVars, deactivations, machineVars>>
  BY <1>3 DEF serverVars
<1>7. SessionTypeOK'
  BY <1>3, <1>6 DEF Typed, TypeOK, MachineTypeOK, SessionTypeOK, sessionVars
<1>8. MachineTypeOK'
  BY <1>2, <1>3, <1>5, <1>6, <1>7
     DEF Typed, TypeOK, MachineTypeOK, ClientTypeOK, machineVars
<1>9. Engine!EngineTypeOK' /\ Engine!XfyunTypeOK'
  BY DEF Typed, TypeOK, Engine!EngineTypeOK, Engine!XfyunTypeOK, channelVars, sdkVars
<1>10. DispatchesRequest'
  BY <1>3, <1>6 DEF Typed, DispatchesRequest, sessionVars, machineVars
<1> QED
  BY <1>8, <1>9, <1>10, Zenon DEF Typed, TypeOK

LEMMA ResponseTypes ==
    ASSUME Typed, UNCHANGED channelVars, RecogState',
           ResponseRecognize \/ ResponseStop \/ ResponsePlain
    PROVE  Typed'
<1>1. Receives("response") /\ Awaited /\ ResponseFrame
  BY Zenon DEF ResponseRecognize, ResponseStop, ResponsePlain, ReceivesAnswer
<1>2. Received \in EngineMessage /\ fromEngine' \in Seq(EngineMessage)
  BY <1>1, ReceivesTypes
<1>3. active_request \in Request
  BY <1>1 DEF Awaited, Typed, TypeOK, MachineTypeOK
<1>4. SessionTypeOK /\ ClientTypeOK /\ DispatchesRequest
  BY DEF Typed, TypeOK, MachineTypeOK, ClientTypeOK
<1>5. Engine!EngineTypeOK' /\ Engine!XfyunTypeOK'
  BY DEF Typed, TypeOK, Engine!EngineTypeOK, Engine!XfyunTypeOK, channelVars, sdkVars
<1>6. \/ \E stopped : Respond(Received, stopped)
      \/ UNCHANGED <<active_request, sessionVars, deactivations, answers, recognition>>
  BY Zenon DEF ResponseRecognize, ResponseStop, ResponsePlain, AnswerRecognize
<1>7. /\ SessionTypeOK' /\ ClientTypeOK' /\ DispatchesRequest'
      /\ active_request' \in Request \cup {NULL}
  <2>1. UNCHANGED <<next_id, terminated>>
    BY <1>1 DEF ResponseFrame
  <2>2. CASE \E stopped : Respond(Received, stopped)
    BY <1>2, <1>4, <2>1, <2>2, RespondTypes, RespondDispatches
  <2>3. CASE UNCHANGED <<active_request, sessionVars, deactivations, answers, recognition>>
    BY <1>3, <1>4, <2>1, <2>3
       DEF SessionTypeOK, DispatchesRequest, ClientTypeOK, sessionVars
  <2> QED
    BY <1>6, <2>2, <2>3
<1>8. /\ recog' \in Request \cup {NULL}
      /\ sm_state' \in {"IDLE", "RECOGNIZING", "RECOGNIZED"}
  BY <1>3 DEF ResponseRecognize, ResponseStop, ResponsePlain, Unmoved,
     Typed, TypeOK, MachineTypeOK
<1>9. recog_queue' \in Seq(Request) /\ deferred' \in Request \cup {NULL}
  <2>1. recog_queue \in Seq(Request) /\ deferred \in Request \cup {NULL}
    BY DEF Typed, TypeOK, MachineTypeOK
  <2>2. CASE ResponseRecognize \/ ResponsePlain
    BY <2>1, <2>2 DEF ResponseRecognize, ResponsePlain
  <2>3. CASE ResponseStop
    <3>1. PICK left \in Remainders(active_request) :
              \/ left = <<>> /\ recog_queue' = <<>> /\ UNCHANGED deferred
              \/ left # <<>> /\ recog_queue' = Tail(left) /\ deferred' = Head(left)
      BY <2>3, Zenon DEF ResponseStop
    <3>2. left \in Seq(Request)
      BY <2>1, RemainderIsQueue
    <3>3. CASE left = <<>>
      BY <2>1, <3>1, <3>3
    <3>4. CASE left # <<>>
      <4>1. Head(left) \in Request /\ Tail(left) \in Seq(Request)
        BY <3>2, <3>4
      <4> QED
        BY <3>1, <3>4, <4>1
    <3> QED
      BY <3>3, <3>4
  <2> QED
    BY <2>2, <2>3
<1>10. is_pending' \in BOOLEAN
  BY Zenon DEF ResponseRecognize, ResponseStop, ResponsePlain, AnswerRecognize,
     Typed, TypeOK, MachineTypeOK
<1> QED
  BY <1>1, <1>2, <1>5, <1>7, <1>8, <1>9, <1>10
     DEF ResponseFrame, Typed, TypeOK, MachineTypeOK, ClientTypeOK

LEMMA CompleteTypes ==
    ASSUME Typed, UNCHANGED channelVars, RecogState', EventRecognitionComplete
    PROVE  Typed'
<1> USE DEF Typed, TypeOK, MachineTypeOK
<1>1. Received \in EngineMessage /\ fromEngine' \in Seq(EngineMessage)
  BY ReceivesTypes DEF EventRecognitionComplete
<1>2. ClientTypeOK'
  BY <1>1, SendEventTypes DEF EventRecognitionComplete, ClientTypeOK
<1>3. /\ recog_queue' \in Seq(Request)
      /\ active_request' \in Request \cup {NULL}
      /\ toEngine' \in Seq(Request)
  <2>1. CASE recog_queue = <<>>
    BY <2>1 DEF EventRecognitionComplete, StartPending
  <2>2. CASE recog_queue # <<>>
    <3>1. Head(recog_queue) \in Request /\ Tail(recog_queue) \in Seq(Request)
      BY <2>2
    <3>2. /\ recog_queue' = Tail(recog_queue)
          /\ active_request' = Head(recog_queue)
          /\ toEngine' = Append(toEngine, Head(recog_queue))
      BY <2>2, Zenon DEF EventRecognitionComplete, StartPending, SendToEngine
    <3> QED
      BY <3>1, <3>2
  <2> QED
    BY <2>1, <2>2
<1>4. is_pending' \in BOOLEAN
  BY Zenon DEF EventRecognitionComplete, StartPending
<1>5. SessionTypeOK' /\ DispatchesRequest'
  BY DEF EventRecognitionComplete, SessionTypeOK, DispatchesRequest, sessionVars
<1>6. Engine!EngineTypeOK' /\ Engine!XfyunTypeOK'
  BY DEF Engine!EngineTypeOK, Engine!XfyunTypeOK, channelVars, sdkVars
<1> QED
  BY <1>1, <1>2, <1>3, <1>4, <1>5, <1>6 DEF EventRecognitionComplete, ClientTypeOK

LEMMA StutterTypes == Typed /\ UNCHANGED vars => Typed'
  BY DEF Typed, TypeOK, MachineTypeOK, SessionTypeOK, DispatchesRequest, RecogState,
     Engine!EngineTypeOK, Engine!XfyunTypeOK, vars, channelVars, sdkVars, serverVars,
     queueVars, sessionVars, machineVars, clientVars

LEMMA ClientDispatches == Typed /\ ClientStep => DispatchesRequest'
<1> SUFFICES ASSUME Typed, ClientStep PROVE DispatchesRequest'
  OBVIOUS
<1>1. ASSUME NEW request \in Request, Arrive(request) PROVE DispatchesRequest'
  <2>1. CASE in_progress = NULL
    <3>1. in_progress' = request
      BY <1>1, <2>1, Zenon DEF Arrive, Enqueue
    <3> QED
      BY <1>1, <3>1, Zenon DEF DispatchesRequest
  <2>2. CASE in_progress # NULL
    BY <1>1, <2>2, Zenon DEF Arrive, Enqueue, DispatchesRequest, Typed
  <2> QED
    BY <2>1, <2>2
<1>2. CASE ClientTerminate
  BY <1>1, <1>2, MessageTypes DEF ClientTerminate, ArriveTerminate
<1>3. ASSUME NEW method \in Methods, NEW only \in Selections, NEW flag \in BOOLEAN,
             ClientRequest(method, only, flag)
      PROVE  DispatchesRequest'
  <2>1. NewRequest(method, only, flag) \in Request
    BY <1>3, NewRequestTypes DEF Typed, TypeOK, MachineTypeOK
  <2> QED
    BY <1>1, <1>3, <2>1 DEF ClientRequest, ArriveRequest
<1> QED
  BY <1>2, <1>3 DEF ClientStep, ClientNext

LEMMA NextTypes == Typed /\ TaskInv /\ [Next]_vars => Typed'
<1> SUFFICES ASSUME Typed, TaskInv, [Next]_vars PROVE Typed'
  OBVIOUS
<1>0. RecogState'
  BY RecogStateStep DEF Typed
<1>1. CASE ServerStep
  <2>1. UNCHANGED channelVars /\ (Dispatch \/ FromEngine)
    BY <1>1 DEF ServerStep, ServerNext
  <2> QED
    BY <1>0, <2>1, RequestTypes, DeactivateTypes, EventTypes, ResponseTypes,
       CompleteTypes
       DEF Dispatch, FromEngine
<1>2. CASE ClientStep
  BY <1>0, <1>2, ClientTypes, ClientDispatches DEF Typed
<1>3. CASE PluginStep \/ MediaStep
  <2>1. DispatchesRequest'
    BY <1>3 DEF PluginStep, MediaStep, serverVars, sessionVars, Typed, DispatchesRequest
  <2> QED
    BY <1>0, <1>3, <2>1, EngineTypes DEF Typed
<1> QED
  BY <1>1, <1>2, <1>3, StutterTypes DEF Next

(***************************************************************************)
(* Type correctness: in every run of the channel, with either plugin, each *)
(* variable of the session, of the state machine, of the plugin and of the *)
(* recognition service's library keeps to its type, what the session       *)
(* dispatches is a request and never the null pointer, there is a          *)
(* recognition exactly when the machine is not idle, and the steps of the  *)
(* second plugin's task are those of the request it has taken.             *)
(***************************************************************************)
THEOREM ChannelIsTyped == Spec => [](TypeOK /\ DispatchesRequest /\ RecogState /\ TaskInv)
<1>1. Init => Typed /\ TaskInv
  <2>1. Init => DispatchesRequest
    BY Zenon DEF Init, MachineInit, SessionInit, QueueInit, DispatchesRequest
  <2>2. Init => RecogState
    BY DEF Init, MachineInit, RecogState
  <2>3. Init => TaskInv
    BY DEF Init, Engine!XfyunInit, TaskInv, EndSteps
  <2> QED
    BY <2>1, <2>2, <2>3, TypeOKInit DEF Typed
<1>2. Typed => TypeOK
  BY DEF Typed
<1> QED
  BY <1>1, <1>2, NextTypes, TaskStep, PTL DEF Spec, Typed

-----------------------------------------------------------------------------
(* The recognition that a STOP at the engine stops.                        *)

\* the request that the session waits for, until the engine has answered
StopWaits ==
    active_request # NULL /\ active_request.method = "STOP"
        => in_progress # NULL /\ ~dispatching

\* what waits for a recognition to end is another RECOGNIZE
PendingRecognizes ==
    /\ \A request \in Elements(recog_queue) : request.method = "RECOGNIZE"
    /\ deferred # NULL => deferred.method = "RECOGNIZE"

StopInv == StopHasRecognition /\ StopWaits /\ PendingRecognizes

LEMMA TypedQueues ==
    Typed => /\ request_queue \in Seq(Request)
             /\ recog_queue \in Seq(Request)
             /\ toEngine \in Seq(Request)
             /\ fromEngine \in Seq(EngineMessage)
  BY DEF Typed, TypeOK, MachineTypeOK, SessionTypeOK

LEMMA RequestStopInv ==
    ASSUME Typed, StopInv,
           \/ RequestRecognize \/ RequestStop \/ RequestDefineGrammar
           \/ RequestGetResult \/ RequestStartTimers \/ RequestParams
    PROVE  StopInv'
<1>1. dispatching /\ in_progress \in Request /\ UNCHANGED deferred
  BY Zenon DEF RequestRecognize, RequestStop, RequestDefineGrammar, RequestGetResult,
     RequestStartTimers, RequestParams, RequestIf, Dispatches, RequestFrame, Typed,
     DispatchesRequest
<1>2. PendingRecognizes'
  <2>1. \/ UNCHANGED recog_queue
        \/ recog_queue' \in Remainders(in_progress)
        \/ /\ recog_queue' = Append(recog_queue, in_progress)
           /\ in_progress.method = "RECOGNIZE"
    BY Zenon DEF RequestRecognize, RequestStop, RequestDefineGrammar, RequestGetResult,
       RequestStartTimers, RequestParams, RequestIf, Dispatches
  <2>2. \/ Elements(recog_queue') \subseteq Elements(recog_queue)
        \/ /\ Elements(recog_queue') = Elements(recog_queue) \cup {in_progress}
           /\ in_progress.method = "RECOGNIZE"
    BY <1>1, <2>1, TypedQueues, RemainderIsQueue, QueueElements
  <2> QED
    BY <1>1, <2>2 DEF StopInv, PendingRecognizes
<1>3. CASE /\ Forward
           /\ in_progress.method = "STOP" => sm_state = "RECOGNIZING" /\ Unmoved
  <2>1. /\ active_request' = in_progress /\ UNCHANGED in_progress
        /\ in_progress # NULL
    BY <1>1, <1>3, NullAssumption DEF Forward, SendToEngine
  <2>2. ~dispatching'
    BY <1>3, Zenon DEF Forward
  <2>3. StopHasRecognition'
    BY <1>3, <2>1 DEF StopHasRecognition, Unmoved, Typed, RecogState
  <2> QED
    BY <1>2, <2>1, <2>2, <2>3 DEF StopInv, StopWaits
<1>4. CASE active_request' = NULL
  BY <1>2, <1>4 DEF StopInv, StopHasRecognition, StopWaits
<1>5. \/ active_request' = NULL
      \/ Forward /\ (in_progress.method = "STOP"
                        => sm_state = "RECOGNIZING" /\ Unmoved)
  BY DEF RequestRecognize, RequestStop, RequestDefineGrammar, RequestGetResult,
     RequestStartTimers, RequestParams, RequestIf, Dispatches, StopsRecog,
     AnswerAtOnce, Respond
<1> QED
  BY <1>3, <1>4, <1>5

LEMMA DispatchStopInv ==
    ASSUME Typed, StopInv, Deactivate \/ StartDeferred
    PROVE  StopInv'
<1> USE DEF StopInv, StopHasRecognition, StopWaits, PendingRecognizes
<1>1. CASE Deactivate
  <2>1. PendingRecognizes'
    BY <1>1 DEF Deactivate
  <2>2. UNCHANGED <<sm_state, recog, in_progress>>
    BY <1>1 DEF Deactivate, DeactivateSession, Unmoved
  <2>3. dispatching /\ ~dispatching' /\ in_progress \in Request
    BY <1>1, Zenon DEF Deactivate, DeactivateSession, Dispatches, Typed, DispatchesRequest
  <2>4. CASE sm_state = "RECOGNIZING"
    BY <2>1, <2>2, <2>3, <2>4, NullAssumption DEF Typed, RecogState
  <2>5. CASE sm_state # "RECOGNIZING"
    <3>1. UNCHANGED active_request
      BY <1>1, <2>5 DEF Deactivate
    <3> QED
      BY <2>1, <2>2, <2>3, <2>5, <3>1
  <2> QED
    BY <2>4, <2>5
<1>2. CASE StartDeferred
  <2>1. active_request' = deferred /\ deferred.method = "RECOGNIZE" /\ deferred' = NULL
    BY <1>2 DEF StartDeferred, SendToEngine
  <2>2. UNCHANGED recog_queue
    BY <1>2 DEF StartDeferred
  <2> QED
    BY <2>1, <2>2
<1> QED
  BY <1>1, <1>2

LEMMA ResponseStopInv ==
    ASSUME Typed, StopInv, ResponseRecognize \/ ResponseStop \/ ResponsePlain
    PROVE  StopInv'
<1> USE DEF StopInv, StopHasRecognition, StopWaits
<1>1. PendingRecognizes'
  <2>1. CASE UNCHANGED <<recog_queue, deferred>>
    BY <2>1 DEF PendingRecognizes
  <2>2. CASE ResponseStop
    <3>1. PICK left \in Remainders(active_request) :
              \/ left = <<>> /\ recog_queue' = <<>> /\ UNCHANGED deferred
              \/ left # <<>> /\ recog_queue' = Tail(left) /\ deferred' = Head(left)
      BY <2>2, Zenon DEF ResponseStop
    <3>2. left \in Seq(Request) /\ Elements(left) \subseteq Elements(recog_queue)
      BY TypedQueues, RemainderIsQueue
    <3>3. CASE left = <<>>
      BY <3>1, <3>3, NoElements DEF PendingRecognizes
    <3>4. CASE left # <<>>
      <4>1. Head(left) \in Elements(left) /\ Elements(Tail(left)) \subseteq Elements(left)
        BY <3>2, <3>4, QueueElements
      <4> QED
        BY <3>1, <3>2, <3>4, <4>1 DEF PendingRecognizes
    <3> QED
      BY <3>3, <3>4
  <2> QED
    BY <2>1, <2>2 DEF ResponseRecognize, ResponsePlain
<1>2. CASE active_request' = NULL
  BY <1>1, <1>2
<1>3. CASE ResponseRecognize /\ active_request' # NULL
  <2>1. UNCHANGED <<active_request, sessionVars>>
    BY <1>3, Zenon DEF ResponseRecognize, AnswerRecognize, Respond
  <2>2. \/ UNCHANGED <<sm_state, recog>>
        \/ sm_state' = "RECOGNIZING" /\ recog' = active_request
    BY <1>3 DEF ResponseRecognize, Unmoved
  <2>3. StopWaits'
    BY <2>1 DEF sessionVars
  <2> QED
    BY <1>1, <1>3, <2>1, <2>2, <2>3
<1> QED
  BY <1>2, <1>3 DEF ResponseStop, ResponsePlain, Respond

LEMMA EventStopInv ==
    ASSUME Typed, StopInv, EventRecognitionComplete
    PROVE  StopInv'
<1> USE DEF StopInv, StopHasRecognition, StopWaits, PendingRecognizes
<1>1. UNCHANGED deferred /\ (active_request # NULL => active_request.method # "STOP")
  BY DEF EventRecognitionComplete, CompletesRecog
<1>2. CASE recog_queue = <<>>
  <2>1. UNCHANGED <<active_request, recog_queue>>
    BY <1>2 DEF EventRecognitionComplete, StartPending
  <2> QED
    BY <1>1, <2>1
<1>3. CASE recog_queue # <<>>
  <2>1. recog_queue' = Tail(recog_queue) /\ active_request' = Head(recog_queue)
    BY <1>3 DEF EventRecognitionComplete, StartPending, SendToEngine
  <2>2. /\ Head(recog_queue) \in Elements(recog_queue)
        /\ Elements(recog_queue') \subseteq Elements(recog_queue)
    BY <1>3, <2>1, TypedQueues, QueueElements
  <2> QED
    BY <1>1, <2>1, <2>2
<1> QED
  BY <1>2, <1>3

\* while a STOP is at the engine a new request waits in the session's queue
LEMMA ClientStopInv ==
    ASSUME Typed, StopInv, ClientStep
    PROVE  StopInv'
<1>1. UNCHANGED <<sm_state, active_request, recog, recog_queue, deferred>>
  BY DEF ClientStep, ClientNext, ClientRequest, ClientTerminate, machineVars
<1>2. \E request : Arrive(request)
  BY DEF ClientStep, ClientNext, ClientRequest, ArriveRequest, ClientTerminate,
     ArriveTerminate
<1>3. in_progress # NULL => UNCHANGED <<in_progress, dispatching>>
  BY <1>2, Zenon DEF Arrive, Enqueue
<1> QED
  BY <1>1, <1>3 DEF StopInv, StopHasRecognition, StopWaits, PendingRecognizes

LEMMA StopInvStep == Typed /\ StopInv /\ [Next]_vars => StopInv'
<1> SUFFICES ASSUME Typed, StopInv, [Next]_vars PROVE StopInv'
  OBVIOUS
<1>1. CASE UNCHANGED serverVars
  BY <1>1
     DEF StopInv, StopHasRecognition, StopWaits, PendingRecognizes, serverVars,
         sessionVars, machineVars
<1>2. CASE ServerStep
  BY <1>1, <1>2, RequestStopInv, DispatchStopInv, ResponseStopInv, EventStopInv
     DEF ServerStep, ServerNext, Dispatch, FromEngine, ResponseUnexpected,
         EventUnexpected, EventStartOfInput
<1> QED
  BY <1>1, <1>2, ClientStopInv DEF Next, PluginStep, MediaStep, vars

(***************************************************************************)
(* The handler of the answer to a STOP follows recog without a check       *)
(* (recog_response_stop): in every run, a refused RECOGNIZE included, the  *)
(* recognition that a STOP at the engine stops is there until its answer.  *)
(***************************************************************************)
THEOREM StopFindsRecognition == Spec => []StopHasRecognition
<1>1. Init => StopInv
  <2>1. Init => Elements(recog_queue) = {}
    BY NoElements DEF Init, MachineInit
  <2> QED
    BY <2>1 DEF Init, MachineInit, StopInv, StopHasRecognition, StopWaits,
       PendingRecognizes
<1>2. StopInv => StopHasRecognition
  BY DEF StopInv
<1> QED
  BY <1>1, <1>2, StopInvStep, ChannelIsTyped, PTL DEF Spec, Typed

-----------------------------------------------------------------------------
(* Pending RECOGNIZEs.                                                     *)

\* the engine begins a recognition or, when it lacks a codec, refuses it; the
\* state of an event goes with its name
TellsState(message) ==
    /\ message.kind = "response" /\ message.method = "RECOGNIZE"
          => \/ message.state = "IN-PROGRESS"
             \/ CodecMayBeLost /\ message.state = "COMPLETE"
    /\ message.kind = "event"
          => message.state = IF message.method = "START-OF-INPUT"
                             THEN "IN-PROGRESS" ELSE "COMPLETE"

AnswersBegin == \A message \in Elements(fromEngine) : TellsState(message)

\* what the media engine answers is a STOP
StopsAnswered == stop_response # NULL => stop_response.method = "STOP"

EngineInv == AnswersBegin /\ StopsAnswered

LEMMA EngineInvInit == Init => EngineInv
<1>1. Init => Elements(fromEngine) = {}
  BY NoElements DEF Init, MachineInit
<1> QED
  BY <1>1 DEF Init, Engine!XfyunInit, Engine!EngineInit, EngineInv, AnswersBegin,
     StopsAnswered

LEMMA SendingBegins ==
    ASSUME Typed, AnswersBegin, NEW message \in EngineMessage,
           fromEngine' = Append(fromEngine, message), TellsState(message)
    PROVE  AnswersBegin'
<1>1. Elements(fromEngine') = Elements(fromEngine) \cup {message}
  BY TypedQueues, QueueElements
<1> QED
  BY <1>1 DEF AnswersBegin

LEMMA EngineInvStep ==
    Typed /\ TaskInv /\ EngineInv /\ [Next]_vars => EngineInv'
<1> SUFFICES ASSUME Typed, TaskInv, EngineInv, [Next]_vars PROVE EngineInv'
  OBVIOUS
<1> USE SameMessages, MessageTypes DEF EngineInv
<1>1. ASSUME NEW request \in Request, NEW state \in RequestStates,
             fromEngine' = Append(fromEngine, Response(request, state)),
             request.method = "RECOGNIZE" =>
                 state = "IN-PROGRESS" \/ (CodecMayBeLost /\ state = "COMPLETE")
      PROVE  AnswersBegin'
  <2>1. PICK message \in EngineMessage : message = Response(request, state)
    OBVIOUS
  <2> QED
    BY <1>1, <2>1, SendingBegins DEF Response, TellsState
<1>2. ASSUME NEW request \in Request,
             \/ fromEngine' = Append(fromEngine, Event("RECOGNITION-COMPLETE", request))
             \/ fromEngine' = Append(fromEngine, StartOfInput(request))
      PROVE  AnswersBegin'
  <2>1. PICK message \in EngineMessage :
            /\ message \in {Event("RECOGNITION-COMPLETE", request), StartOfInput(request)}
            /\ fromEngine' = Append(fromEngine, message)
    BY <1>2 DEF EventNames
  <2>2. TellsState(message)
    BY <2>1 DEF Event, StartOfInput, TellsState
  <2> QED
    BY <2>1, <2>2, SendingBegins
<1>3. CASE UNCHANGED <<fromEngine, stop_response>>
  BY <1>3 DEF AnswersBegin, StopsAnswered
<1>4. CASE ServerStep \/ ClientStep
  <2>1. UNCHANGED stop_response
    BY <1>4 DEF ServerStep, ClientStep, channelVars
  <2>2. (fromEngine' = Tail(fromEngine) /\ fromEngine # <<>>) \/ UNCHANGED fromEngine
    BY <1>4
       DEF ServerStep, ServerNext, Dispatch, FromEngine, RequestRecognize, RequestStop,
           RequestDefineGrammar, RequestGetResult, RequestStartTimers, RequestParams,
           RequestIf, RequestFrame, Deactivate, StartDeferred, ResponseUnexpected,
           ResponseRecognize, ResponseStop, ResponsePlain, ReceivesAnswer,
           EventStartOfInput, EventRecognitionComplete, EventUnexpected, Receives,
           ClientStep, ClientNext, ClientRequest, ClientTerminate, queueVars
  <2>3. Elements(fromEngine') \subseteq Elements(fromEngine)
    BY <2>2, TypedQueues, QueueElements
  <2> QED
    BY <2>1, <2>3 DEF AnswersBegin, StopsAnswered
<1>5. ASSUME NEW methods, Engine!Takes(methods)
      PROVE  Head(toEngine) \in Request /\ Head(toEngine).method \in methods
  BY <1>5, TypedQueues DEF Engine!Takes
<1>6. {taken, recog_request, stop_response, completing} \subseteq Request \cup {NULL}
  BY DEF Typed, TypeOK, Engine!EngineTypeOK
<1>7. CASE Engine!RecognizeAccepted
  BY <1>1, <1>5, <1>7
     DEF Engine!RecognizeAccepted, Engine!Answers, Engine!SendToServer, RequestStates,
         StopsAnswered
<1>8. CASE Engine!StopStored
  BY <1>5, <1>8 DEF Engine!StopStored, AnswersBegin, StopsAnswered
<1>9. CASE Engine!TimersStart \/ Engine!OtherAnswered
  <2>1. PICK methods : Engine!Takes(methods) /\ "RECOGNIZE" \notin methods
    BY <1>9 DEF Engine!TimersStart, Engine!OtherAnswered
  <2> QED
    BY <1>1, <1>5, <1>9, <2>1
       DEF Engine!TimersStart, Engine!OtherAnswered, Engine!Answers,
           Engine!SendToServer, RequestStates, StopsAnswered
<1>10. CASE Engine!XfyunFailureAnswered
  <2>1. taken # NULL
    BY <1>10 DEF Engine!XfyunFailureAnswered, TaskInv
  <2>2. taken \in Request /\ UNCHANGED stop_response
    BY <1>6, <1>10, <2>1 DEF Engine!XfyunFailureAnswered
  <2> QED
    BY <1>1, <1>10, <2>2
       DEF Engine!XfyunFailureAnswered, Engine!SendToServer, RequestStates, StopsAnswered
<1>11. CASE Engine!StopAnswered
  <2>1. stop_response \in Request /\ stop_response.method = "STOP"
    BY <1>6, <1>11 DEF Engine!StopAnswered, StopsAnswered
  <2>2. fromEngine' = Append(fromEngine, Response(stop_response, "COMPLETE"))
    BY <1>11 DEF Engine!StopAnswered, Engine!SendToServer
  <2>3. AnswersBegin'
    BY <1>1, <2>1, <2>2 DEF RequestStates
  <2>4. StopsAnswered'
    BY <1>11, <2>1 DEF Engine!StopAnswered, StopsAnswered
  <2> QED
    BY <2>3, <2>4
<1>12. CASE Engine!StopCleared
  BY <1>12 DEF Engine!StopCleared, AnswersBegin, StopsAnswered
<1>13. ASSUME NEW loud \in BOOLEAN, Engine!FrameHeard(loud)
       PROVE  EngineInv'
  <2>1. recog_request \in Request /\ UNCHANGED stop_response
    BY <1>6, <1>13 DEF Engine!FrameHeard, Engine!FrameWritten
  <2>2. \/ UNCHANGED fromEngine
        \/ fromEngine' = Append(fromEngine, StartOfInput(recog_request))
    BY <1>13 DEF Engine!FrameHeard, Engine!SendToServer
  <2> QED
    BY <1>2, <1>3, <2>1, <2>2 DEF StopsAnswered
<1>14. CASE Engine!RecognitionCleared
  <2>1. completing \in Request /\ UNCHANGED stop_response
    BY <1>6, <1>14 DEF Engine!RecognitionCleared
  <2> QED
    BY <1>2, <1>14, <2>1 DEF Engine!RecognitionCleared, Engine!SendToServer, StopsAnswered
<1>15. CASE \/ Engine!RecognizeStored \/ Engine!XfyunSessionBegins \/ Engine!XfyunBeginFails
             \/ Engine!XfyunStopTaken \/ Engine!XfyunTaskEndsSession
             \/ Engine!XfyunMediaEndsSession \/ Engine!XfyunEventCreated
  BY <1>3, <1>15 DEF Engine!RecognizeStored, Engine!XfyunSessionBegins,
     Engine!XfyunBeginFails, Engine!XfyunStopTaken, Engine!XfyunTaskEndsSession,
     Engine!XfyunMediaEndsSession, Engine!XfyunEventCreated
<1>16. ASSUME NEW loud \in BOOLEAN,
              Engine!RecognitionEnds(loud) \/ Engine!XfyunRecognitionEnds(loud)
       PROVE  EngineInv'
  BY <1>3, <1>16 DEF Engine!RecognitionEnds, Engine!XfyunRecognitionEnds,
     Engine!FrameWritten
<1>17. CASE Engine!XfyunStopStored
  <2>1. taken.method = "STOP"
    BY <1>17 DEF Engine!XfyunStopStored, TaskInv, EndSteps
  <2> QED
    BY <1>17, <2>1 DEF Engine!XfyunStopStored, AnswersBegin, StopsAnswered
<1>18. CASE Engine!RecognizeRefused
  BY <1>1, <1>5, <1>18
     DEF Engine!RecognizeRefused, Engine!Answers, Engine!SendToServer, RequestStates,
         StopsAnswered
<1>19. CASE PluginStep
  BY <1>7, <1>8, <1>9, <1>10, <1>15, <1>17, <1>18, <1>19, Zenon
     DEF PluginStep, Engine!PluginNext, Engine!XfyunPluginNext,
         Engine!XfyunRecognizeStored
<1>20. CASE MediaStep
  BY <1>11, <1>12, <1>13, <1>14, <1>15, <1>16, <1>20, Zenon
     DEF MediaStep, Engine!MediaNext, Engine!XfyunMediaNext
<1>21. CASE UNCHANGED vars
  BY <1>3, <1>21 DEF vars, queueVars, channelVars
<1> QED
  BY <1>4, <1>19, <1>20, <1>21 DEF Next

LEMMA OrphanStep ==
    ASSUME ~CodecMayBeLost
    PROVE  Typed /\ EngineInv /\ NoOrphanedRecognize /\ [Next]_vars => NoOrphanedRecognize'
<1> SUFFICES ASSUME Typed, AnswersBegin, NoOrphanedRecognize, [Next]_vars
             PROVE  NoOrphanedRecognize'
  BY DEF EngineInv
<1>1. CASE UNCHANGED <<recog_queue, is_pending, deferred>> /\ UNCHANGED sm_state
  BY <1>1 DEF NoOrphanedRecognize
<1>2. CASE ForgetRecognized /\ UNCHANGED <<recog_queue, is_pending, deferred>>
  BY <1>2 DEF ForgetRecognized, Unmoved, NoOrphanedRecognize
<1>3. CASE RequestRecognize
  BY <1>3 DEF RequestRecognize, RequestFrame, Unmoved, NoOrphanedRecognize
<1>4. CASE RequestStop
  <2>1. UNCHANGED <<is_pending, deferred>>
    BY <1>4 DEF RequestStop, RequestFrame
  <2>2. recog_queue = <<>> => recog_queue' = <<>>
    BY <1>4, TypedQueues, RemainderIsQueue DEF RequestStop
  <2>3. sm_state = "RECOGNIZING" => sm_state' = "RECOGNIZING"
    BY <1>4 DEF RequestStop, Unmoved, ForgetRecognized
  <2> QED
    BY <2>1, <2>2, <2>3 DEF NoOrphanedRecognize
<1>5. CASE StartDeferred
  <2>1. is_pending' = TRUE
    BY <1>5, Zenon DEF StartDeferred
  <2> QED
    BY <2>1, Zenon DEF NoOrphanedRecognize
<1>6. CASE ResponseRecognize
  <2>1. Receives("response") /\ Received.method = "RECOGNIZE"
    BY <1>6 DEF ResponseRecognize, ReceivesAnswer
  <2>2. Received \in Elements(fromEngine)
    BY <2>1, TypedQueues, QueueElements DEF Receives, Received
  <2>3. Received.state = "IN-PROGRESS"
    BY <2>1, <2>2 DEF Receives, AnswersBegin, TellsState
  <2>4. sm_state' = "RECOGNIZING"
    BY <1>6, <2>3 DEF ResponseRecognize
  <2> QED
    BY <2>4 DEF NoOrphanedRecognize
<1>7. CASE ResponseStop
  <2>1. PICK left \in Remainders(active_request) :
            \/ left = <<>> /\ recog_queue' = <<>> /\ UNCHANGED deferred
            \/ left # <<>> /\ recog_queue' = Tail(left) /\ deferred' = Head(left)
    BY <1>7, Zenon DEF ResponseStop
  <2>2. left \in Seq(Request)
    BY TypedQueues, RemainderIsQueue
  <2>3. CASE left = <<>>
    BY <2>1, <2>3 DEF NoOrphanedRecognize
  <2>4. CASE left # <<>>
    <3>1. Head(left) \in Request
      BY <2>2, <2>4
    <3> QED
      BY <2>1, <2>4, <3>1, NullAssumption DEF NoOrphanedRecognize
  <2> QED
    BY <2>3, <2>4
<1>8. CASE EventRecognitionComplete
  <2>1. CASE recog_queue = <<>>
    BY <1>8, <2>1 DEF EventRecognitionComplete, StartPending, NoOrphanedRecognize
  <2>2. CASE recog_queue # <<>>
    <3>1. is_pending' = TRUE
      BY <1>8, <2>2, Zenon DEF EventRecognitionComplete, StartPending
    <3> QED
      BY <3>1, Zenon DEF NoOrphanedRecognize
  <2> QED
    BY <2>1, <2>2
<1>9. CASE UNCHANGED serverVars
  BY <1>1, <1>9 DEF serverVars, machineVars
<1>10. CASE ServerStep
  BY <1>1, <1>2, <1>3, <1>4, <1>5, <1>6, <1>7, <1>8, <1>9, <1>10
     DEF ServerStep, ServerNext, Dispatch, FromEngine, RequestDefineGrammar,
         RequestGetResult, RequestStartTimers, RequestParams, RequestIf, RequestFrame,
         Deactivate, Unmoved, ResponseUnexpected, ResponsePlain, EventStartOfInput,
         EventUnexpected
<1>11. CASE ClientStep
  BY <1>1, <1>11 DEF ClientStep, ClientNext, ClientRequest, ClientTerminate, machineVars
<1> QED
  BY <1>9, <1>10, <1>11 DEF Next, PluginStep, MediaStep, vars

(***************************************************************************)
(* What the handlers of recog_*_state_machine rely on: the pointer follows *)
(* the state, a STOP at the engine has its recognition, and as long as the *)
(* engine refuses no RECOGNIZE a pending one has a predecessor whose end   *)
(* will start it, or its turn has come.                                    *)
(***************************************************************************)
THEOREM HandlersFindRecognition ==
    ASSUME ~CodecMayBeLost
    PROVE  Spec => []RecognitionInv
<1>1. Init => NoOrphanedRecognize
  BY DEF Init, MachineInit, NoOrphanedRecognize
<1>2. Spec => []EngineInv
  BY EngineInvInit, EngineInvStep, ChannelIsTyped, PTL DEF Spec, Typed
<1>3. Typed /\ EngineInv /\ NoOrphanedRecognize /\ [Next]_vars => NoOrphanedRecognize'
  BY OrphanStep
<1>4. Spec => []NoOrphanedRecognize
  BY <1>1, <1>2, <1>3, ChannelIsTyped, PTL DEF Spec, Typed
<1>5. RecogState /\ StopHasRecognition /\ NoOrphanedRecognize => RecognitionInv
  BY DEF RecognitionInv
<1> QED
  BY <1>4, <1>5, ChannelIsTyped, StopFindsRecognition, PTL

-----------------------------------------------------------------------------
(***************************************************************************)
(* A recognizer channel implements RecogService, for any number of         *)
(* requests and every order in which the client, the server task and the   *)
(* two threads of either plugin move, whether or not the plugin can begin  *)
(* what it has taken.                                                      *)
(*                                                                         *)
(* Two things matter: where a request is and where the events of a         *)
(* recognition may still come from.  A request is not dispatched yet       *)
(* (fresh), pending in the machine (waiting) or at the engine, whose       *)
(* answer is in the pipe; no id is in two of these places.  An event comes *)
(* from a request that the plugin has, and after RECOGNITION-COMPLETE      *)
(* there is none that could send one.  All this is about the time before   *)
(* the session's end: afterwards the client is told nothing.               *)
(*                                                                         *)
(* A plugin whose service never fails answers a request once, so that no   *)
(* id is in the pipe twice.  One whose service may fail can answer twice:  *)
(* the machine tells the second answer from that to a request it started   *)
(* from its own queue only if that queue is never used, which is so for a  *)
(* client that does not pipeline (SoleInv).                                *)
(***************************************************************************)

Answers == {message \in EngineMessage : message.kind = "response"}

Events == {message \in EngineMessage : message.kind = "event"}

Ends == {message \in Events : message.method = "RECOGNITION-COMPLETE"}

Sent == 1 .. next_id - 1

FreshIds == IdsOf(request_queue, Request)
            \cup (IF dispatching THEN {in_progress.id} ELSE {})

WaitIds == IdsOf(recog_queue, Request)
           \cup (IF deferred # NULL THEN {deferred.id} ELSE {})

StopIds == IF stop_response # NULL /\ ~clearing THEN {stop_response.id} ELSE {}

\* the plugin's task may still answer the request that it has taken
TaskAnswers == taken # NULL /\ (SdkMayFail \/ taken.method = "STOP")

TaskIds == IF TaskAnswers THEN {taken.id} ELSE {}

PipeIds == IdsOf(toEngine, Request) \cup TaskIds \cup StopIds
           \cup IdsOf(fromEngine, Answers)

IdOf(request) == IF request # NULL THEN {request.id} ELSE {}

\* the ids of the requests that the plugin's task or its stream holds
HeldIds == IdOf(taken) \cup IdOf(recog_request) \cup IdOf(completing)

\* the ids for which an event may still be sent
SourceIds == IdsOf(toEngine, Request) \cup HeldIds

\* the ids of which the client may still hear from the media engine
EngineIds == SourceIds \cup IdsOf(fromEngine, Events)

BusyIds == PipeIds \cup EngineIds

\* the client has heard nothing of the request
Fresh(request) ==
    IF request.method = "TERMINATE" THEN request.id = 0 /\ terminated
    ELSE /\ request.id \in Sent
         /\ answers[request.id] = 0
         /\ recognition[request.id] = IF request.method = "RECOGNIZE"
                                      THEN "asked" ELSE "none"

Waits(request) ==
    /\ request.id \in Sent
    /\ request.method = "RECOGNIZE"
    /\ recognition[request.id] = "PENDING"

\* a RECOGNIZE is told from other requests by what the client knows of its
\* id, and no other request has the id of the one that the machine waits for
Marked(message) ==
    /\ message.id \in Sent
    /\ (message.method = "RECOGNIZE") <=> (recognition[message.id] # "none")
    /\ active_request # NULL /\ active_request.id = message.id
          => active_request.method = message.method

FutureInv ==
    \A id \in Ids : id >= next_id => answers[id] = 0 /\ recognition[id] = "none"

FreshInv ==
    /\ \A request \in Elements(request_queue) : Fresh(request)
    /\ dispatching => Fresh(in_progress)
    /\ DistinctIn(request_queue, Request)
    /\ dispatching => in_progress.id \notin IdsOf(request_queue, Request)

WaitInv ==
    /\ \A request \in Elements(recog_queue) : Waits(request)
    /\ deferred # NULL => Waits(deferred)
    /\ DistinctIn(recog_queue, Request)
    /\ deferred # NULL => deferred.id \notin IdsOf(recog_queue, Request)

MarkInv ==
    /\ \A request \in Elements(toEngine) : Marked(request)
    /\ TaskAnswers => Marked(taken)
    /\ stop_response # NULL /\ ~clearing => Marked(stop_response)
    /\ \A message \in Elements(fromEngine) \cap Answers : Marked(message)

\* no id is in the pipe twice
OnceInv ==
    /\ DistinctIn(fromEngine, Answers)
    /\ IdsOf(toEngine, Request) \cap IdsOf(fromEngine, Answers) = {}
    /\ (TaskIds \cup StopIds) \cap IdsOf(toEngine, Request) = {}
    /\ (TaskIds \cup StopIds) \cap IdsOf(fromEngine, Answers) = {}
    /\ TaskIds \cap StopIds = {}

DistinctInv == DistinctIn(toEngine, Request) /\ (~SdkMayFail => OnceInv)

ApartInv ==
    /\ BusyIds \cap FreshIds = {} /\ BusyIds \cap WaitIds = {}
    /\ BusyIds \subseteq Sent

\* the session waits for the answer, or the client has it already
Owed(id) ==
    \/ /\ in_progress # NULL /\ in_progress.id = id /\ ~dispatching
       /\ answers[id] = 0
       /\ recognition[id] \in {"none", "asked"}
    \/ is_pending /\ recognition[id] = "PENDING"

ActiveInv ==
    active_request # NULL /\ active_request.id \in PipeIds =>
        /\ Owed(active_request.id)
        /\ recognition[active_request.id] # "none" => sm_state # "RECOGNIZING"

\* the client knows of a recognition in progress, unless the answer to it was
\* taken for that to a pending one: the session then waits for it for ever
Known(id) ==
    \/ recognition[id] \in {"PENDING", "IN-PROGRESS"}
    \/ /\ in_progress # NULL /\ in_progress.id = id /\ ~dispatching
       /\ recognition[id] = "asked"

RecogInv ==
    /\ recog # NULL => recog.id \in Sent /\ recog.id \notin FreshIds \cup WaitIds
    /\ sm_state = "RECOGNIZING" => Known(recog.id)
    /\ sm_state = "RECOGNIZED" => recog.id \notin EngineIds
    /\ \A id \in Ids : recognition[id] = "IN-PROGRESS"
          => sm_state = "RECOGNIZING" /\ recog.id = id

\* what the plugin holds was taken from its queue, one after the other
HeldInv ==
    /\ HeldIds \cap IdsOf(toEngine, Request) = {}
    /\ IdOf(taken) \cap (IdOf(recog_request) \cup IdOf(completing)) = {}

\* after RECOGNITION-COMPLETE of a recognition there is no event of it
ClosedIn(queue) ==
    \A i, j \in 1 .. Len(queue) :
        i < j /\ queue[i] \in Ends /\ queue[j] \in Events => queue[i].id # queue[j].id

ClosedInv ==
    /\ ClosedIn(fromEngine)
    /\ \A message \in Elements(fromEngine) \cap Ends : message.id \notin SourceIds

PlacesInv ==
    /\ FreshInv /\ WaitInv /\ MarkInv /\ DistinctInv /\ ApartInv
    /\ ActiveInv /\ RecogInv /\ HeldInv /\ ClosedInv

ServiceInv == FutureInv /\ (sm_active => PlacesInv)

\* an interrupted handler has ended the recognition before it starts the next
DeferredInv == deferred # NULL => sm_state # "RECOGNIZING"

\* a client that does not pipeline has one RECOGNIZE at a time, which never waits
SoleInv ==
    ~Pipelining /\ sm_active =>
        /\ recog_queue = <<>> /\ ~is_pending /\ deferred = NULL
        /\ \A i, j \in Ids : Unfinished(i) /\ Unfinished(j) => i = j

-----------------------------------------------------------------------------
(* The engine: it passes ids on and makes up none.                         *)

PipeKept == PipeIds' \subseteq PipeIds /\ MarkInv' /\ DistinctInv'

EventsKept == EngineIds' \subseteq EngineIds /\ HeldInv' /\ ClosedInv'

LEMMA EngineTyped ==
    Typed => /\ toEngine \in Seq(Request) /\ fromEngine \in Seq(EngineMessage)
             /\ {stop_response, taken, recog_request, completing}
                    \subseteq Request \cup {NULL}
             /\ Elements(toEngine) \subseteq Request
  BY SameMessages DEF Typed, TypeOK, MachineTypeOK, Engine!EngineTypeOK, Elements

LEMMA ResponseIsAnswer ==
    ASSUME NEW request \in Request, NEW state \in RequestStates
    PROVE  /\ Response(request, state) \in EngineMessage /\ Response(request, state) \in Answers
           /\ Response(request, state) \notin Events
           /\ Response(request, state).id = request.id
           /\ Marked(request) => Marked(Response(request, state))
  BY MessageTypes DEF Response, Answers, Events, Marked

LEMMA EventIsEvent ==
    ASSUME NEW request \in Request
    PROVE  /\ Event("RECOGNITION-COMPLETE", request) \in Events \ Answers
           /\ Event("RECOGNITION-COMPLETE", request).id = request.id
           /\ StartOfInput(request) \in Events \ (Answers \cup Ends)
           /\ StartOfInput(request).id = request.id
<1>1. /\ Event("RECOGNITION-COMPLETE", request) \in EngineMessage
      /\ StartOfInput(request) \in EngineMessage
  BY MessageTypes DEF EventNames
<1>2. /\ Event("RECOGNITION-COMPLETE", request).kind = "event"
      /\ Event("RECOGNITION-COMPLETE", request).id = request.id
  BY DEF Event
<1>3. /\ StartOfInput(request).kind = "event" /\ StartOfInput(request).id = request.id
      /\ StartOfInput(request).method = "START-OF-INPUT"
  BY DEF StartOfInput, Event
<1> QED
  BY <1>1, <1>2, <1>3 DEF Events, Answers, Ends

\* the marks are about what the client and the machine know
LEMMA MarkedStays ==
    ASSUME UNCHANGED <<recognition, next_id, active_request>>, NEW message, Marked(message)
    PROVE  Marked(message)'
  BY DEF Marked, Sent

\* a request is taken and answered
LEMMA AnsweredKeepsPipe ==
    ASSUME Typed, MarkInv, DistinctInv, UNCHANGED <<recognition, next_id, active_request>>,
           NEW state \in RequestStates,
           toEngine # <<>>, toEngine' = Tail(toEngine),
           taken' \in {NULL, Head(toEngine)}, Head(toEngine).method # "STOP",
           fromEngine' = Append(fromEngine, Response(Head(toEngine), state)),
           UNCHANGED <<stop_response, clearing>>
    PROVE  PipeKept
<1> DEFINE request == Head(toEngine)
           answer == Response(request, state)
<1>1. /\ request \in Request /\ request \in Elements(toEngine)
      /\ Elements(toEngine') \subseteq Elements(toEngine)
  BY EngineTyped, QueueElements
<1>2. /\ answer \in EngineMessage /\ answer \in Answers
      /\ answer.id = request.id
      /\ Marked(answer) /\ Marked(request)
  BY <1>1, ResponseIsAnswer DEF MarkInv
<1>3. Elements(fromEngine') = Elements(fromEngine) \cup {answer}
  BY <1>2, EngineTyped, QueueElements
<1>4. /\ IdsOf(toEngine', Request) \subseteq IdsOf(toEngine, Request)
      /\ request.id \in IdsOf(toEngine, Request)
      /\ DistinctIn(toEngine', Request)
      /\ request.id \notin IdsOf(toEngine', Request)
  BY <1>1, EngineTyped, TailIds DEF DistinctInv
<1>5. IdsOf(fromEngine', Answers) = IdsOf(fromEngine, Answers) \cup {request.id}
  <2>1. PICK message \in EngineMessage : message = answer /\ message \in Answers
    BY <1>2
  <2>2. IdsOf(Append(fromEngine, message), Answers)
          = IdsOf(fromEngine, Answers) \cup (IF message \in Answers THEN {message.id} ELSE {})
    <3>1. fromEngine \in Seq(EngineMessage)
      BY EngineTyped
    <3> QED
      BY <3>1, AppendIds
  <2> QED
    BY <1>2, <2>1, <2>2
<1>6. /\ StopIds' = StopIds
      /\ TaskIds' \subseteq {request.id} /\ (~SdkMayFail => TaskIds' = {})
  BY DEF StopIds, TaskIds, TaskAnswers
<1>7. ~SdkMayFail => OnceInv'
  <2> SUFFICES ASSUME ~SdkMayFail PROVE OnceInv'
    OBVIOUS
  <2>1. OnceInv
    BY DEF DistinctInv
  <2>2. request.id \notin IdsOf(fromEngine, Answers) /\ request.id \notin StopIds
    BY <1>4, <2>1 DEF OnceInv
  <2>3. DistinctIn(fromEngine', Answers)
    BY <1>2, <2>1, <2>2, EngineTyped, AppendIds DEF OnceInv
  <2> QED
    BY <1>4, <1>5, <1>6, <2>1, <2>2, <2>3 DEF OnceInv
<1>8. MarkInv'
  <2>1. \A other \in Elements(toEngine') : Marked(other)'
    BY <1>1, MarkedStays DEF MarkInv
  <2>2. \A other \in Elements(fromEngine') \cap Answers : Marked(other)'
    BY <1>2, <1>3, MarkedStays DEF MarkInv
  <2>3. TaskAnswers' => Marked(taken)'
    <3>1. PICK other : other = request /\ Marked(other)'
      BY <1>2, MarkedStays
    <3> QED
      BY <3>1 DEF TaskAnswers
  <2>4. stop_response' # NULL /\ ~clearing' => Marked(stop_response)'
    <3>1. PICK other : other = stop_response /\ other = stop_response'
      OBVIOUS
    <3> QED
      BY <3>1, MarkedStays DEF MarkInv
  <2> QED
    BY <2>1, <2>2, <2>3, <2>4 DEF MarkInv
<1>9. DistinctInv'
  BY <1>4, <1>7 DEF DistinctInv
<1> QED
  BY <1>4, <1>5, <1>6, <1>8, <1>9 DEF PipeKept, PipeIds

\* a request is taken and left to the task or to the media engine to answer
LEMMA TakenKeepsPipe ==
    ASSUME Typed, MarkInv, DistinctInv, UNCHANGED <<recognition, next_id, active_request>>,
           toEngine # <<>>, toEngine' = Tail(toEngine), taken = NULL,
           \/ stop_response' = Head(toEngine) /\ taken' = NULL
           \/ taken' = Head(toEngine) /\ UNCHANGED stop_response,
           UNCHANGED <<fromEngine, clearing>>
    PROVE  PipeKept
<1> DEFINE request == Head(toEngine)
<1>1. /\ request \in Request /\ request \in Elements(toEngine)
      /\ Elements(toEngine') \subseteq Elements(toEngine)
  BY EngineTyped, QueueElements
<1>2. /\ IdsOf(toEngine', Request) \subseteq IdsOf(toEngine, Request)
      /\ request.id \in IdsOf(toEngine, Request)
      /\ DistinctIn(toEngine', Request)
      /\ request.id \notin IdsOf(toEngine', Request)
  BY <1>1, EngineTyped, TailIds DEF DistinctInv
<1>3. \/ StopIds' \subseteq {request.id} /\ TaskIds' = {}
      \/ StopIds' = StopIds /\ TaskIds' \subseteq {request.id}
  BY DEF StopIds, TaskIds, TaskAnswers
<1>4. MarkInv'
  <2>1. \A other \in Elements(toEngine') : Marked(other)'
    BY <1>1, MarkedStays DEF MarkInv
  <2>2. \A other \in Elements(fromEngine') \cap Answers : Marked(other)'
    BY MarkedStays DEF MarkInv
  <2>3. PICK other : other = request /\ Marked(other)'
    BY <1>1, MarkedStays DEF MarkInv
  <2>4. PICK stored : stored = stop_response
    OBVIOUS
  <2>5. stored # NULL /\ ~clearing => Marked(stored)'
    BY <2>4, MarkedStays DEF MarkInv
  <2>6. TaskAnswers' => Marked(taken)'
    BY <2>3 DEF TaskAnswers
  <2>7. stop_response' # NULL /\ ~clearing' => Marked(stop_response)'
    BY <2>3, <2>4, <2>5
  <2> QED
    BY <2>1, <2>2, <2>6, <2>7 DEF MarkInv
<1>5. ~SdkMayFail => OnceInv'
  BY <1>2, <1>3 DEF DistinctInv, OnceInv
<1> QED
  BY <1>2, <1>3, <1>4, <1>5 DEF PipeKept, PipeIds, DistinctInv

\* the task leaves to the media engine what it has taken
LEMMA StoredKeepsPipe ==
    ASSUME Typed, MarkInv, DistinctInv, UNCHANGED <<recognition, next_id, active_request>>,
           UNCHANGED <<toEngine, fromEngine, clearing>>,
           taken # NULL, taken.method = "STOP", stop_response' = taken, taken' = NULL
    PROVE  PipeKept
<1>1. TaskIds = {taken.id} /\ TaskAnswers /\ TaskIds' = {} /\ StopIds' \subseteq TaskIds
  BY DEF TaskIds, TaskAnswers, StopIds
<1>2. MarkInv'
  <2>1. \A other \in Elements(toEngine') : Marked(other)'
    BY MarkedStays DEF MarkInv
  <2>2. \A other \in Elements(fromEngine') \cap Answers : Marked(other)'
    BY MarkedStays DEF MarkInv
  <2>3. PICK other : other = taken /\ Marked(other)'
    BY <1>1, MarkedStays DEF MarkInv
  <2>4. Marked(stop_response)' /\ ~TaskAnswers'
    BY <2>3 DEF TaskAnswers
  <2> QED
    BY <2>1, <2>2, <2>4 DEF MarkInv
<1>3. ~SdkMayFail => OnceInv'
  BY <1>1 DEF DistinctInv, OnceInv
<1> QED
  BY <1>1, <1>2, <1>3 DEF PipeKept, PipeIds, DistinctInv

\* the failure to begin is answered like the beginning was
LEMMA FailureKeepsPipe ==
    ASSUME Typed, MarkInv, DistinctInv, UNCHANGED <<recognition, next_id, active_request>>,
           UNCHANGED <<toEngine, stop_response, clearing>>, SdkMayFail,
           taken # NULL, taken' = NULL,
           fromEngine' = Append(fromEngine, Response(taken, "IN-PROGRESS"))
    PROVE  PipeKept
<1> DEFINE answer == Response(taken, "IN-PROGRESS")
<1>1. /\ taken \in Request /\ TaskAnswers /\ TaskIds = {taken.id}
      /\ TaskIds' = {} /\ ~TaskAnswers' /\ StopIds' = StopIds
  BY EngineTyped DEF TaskIds, TaskAnswers, StopIds
<1>2. /\ answer \in EngineMessage /\ answer \in Answers
      /\ answer.id = taken.id
      /\ Marked(answer)
  BY <1>1, ResponseIsAnswer DEF MarkInv, RequestStates
<1>3. Elements(fromEngine') = Elements(fromEngine) \cup {answer}
  BY <1>2, EngineTyped, QueueElements
<1>4. IdsOf(fromEngine', Answers) = IdsOf(fromEngine, Answers) \cup {taken.id}
  <2>1. PICK message \in EngineMessage : message = answer /\ message \in Answers
    BY <1>2
  <2>2. IdsOf(Append(fromEngine, message), Answers)
          = IdsOf(fromEngine, Answers) \cup (IF message \in Answers THEN {message.id} ELSE {})
    <3>1. fromEngine \in Seq(EngineMessage)
      BY EngineTyped
    <3> QED
      BY <3>1, AppendIds
  <2> QED
    BY <1>2, <2>1, <2>2
<1>5. MarkInv'
  <2>1. \A other \in Elements(toEngine') : Marked(other)'
    BY MarkedStays DEF MarkInv
  <2>2. \A other \in Elements(fromEngine') \cap Answers : Marked(other)'
    BY <1>2, <1>3, MarkedStays DEF MarkInv
  <2>3. PICK stored : stored = stop_response /\ stored = stop_response'
    OBVIOUS
  <2>4. stored # NULL /\ ~clearing => Marked(stored)'
    BY <2>3, MarkedStays DEF MarkInv
  <2> QED
    BY <1>1, <2>1, <2>2, <2>3, <2>4 DEF MarkInv
<1>6. DistinctInv'
  BY DEF DistinctInv
<1> QED
  BY <1>1, <1>4, <1>5, <1>6 DEF PipeKept, PipeIds

\* a STOP that was stored is answered
LEMMA StopAnsweredKeepsPipe ==
    ASSUME Typed, MarkInv, DistinctInv, UNCHANGED <<recognition, next_id, active_request>>,
           stop_response # NULL, ~clearing, clearing' = TRUE,
           fromEngine' = Append(fromEngine, Response(stop_response, "COMPLETE")),
           UNCHANGED <<toEngine, taken>>
    PROVE  PipeKept
<1> DEFINE answer == Response(stop_response, "COMPLETE")
<1>1. /\ stop_response \in Request /\ StopIds = {stop_response.id} /\ StopIds' = {}
      /\ TaskIds' = TaskIds
  BY EngineTyped DEF StopIds, TaskIds, TaskAnswers
<1>2. /\ answer \in EngineMessage /\ answer \in Answers
      /\ answer.id = stop_response.id
      /\ Marked(answer)
  BY <1>1, ResponseIsAnswer DEF MarkInv, RequestStates
<1>3. Elements(fromEngine') = Elements(fromEngine) \cup {answer}
  BY <1>2, EngineTyped, QueueElements
<1>4. IdsOf(fromEngine', Answers) = IdsOf(fromEngine, Answers) \cup {stop_response.id}
  <2>1. PICK message \in EngineMessage : message = answer /\ message \in Answers
    BY <1>2
  <2>2. IdsOf(Append(fromEngine, message), Answers)
          = IdsOf(fromEngine, Answers) \cup (IF message \in Answers THEN {message.id} ELSE {})
    <3>1. fromEngine \in Seq(EngineMessage)
      BY EngineTyped
    <3> QED
      BY <3>1, AppendIds
  <2> QED
    BY <1>2, <2>1, <2>2
<1>5. ~SdkMayFail => OnceInv'
  <2> SUFFICES ASSUME ~SdkMayFail PROVE OnceInv'
    OBVIOUS
  <2>1. OnceInv
    BY DEF DistinctInv
  <2>2. stop_response.id \notin IdsOf(fromEngine, Answers)
    BY <1>1, <2>1 DEF OnceInv
  <2>3. DistinctIn(fromEngine', Answers)
    BY <1>2, <2>1, <2>2, EngineTyped, AppendIds DEF OnceInv
  <2>4. stop_response.id \notin TaskIds
    BY <1>1, <2>1 DEF OnceInv
  <2> QED
    BY <1>1, <1>4, <2>1, <2>2, <2>3, <2>4 DEF OnceInv
<1>6. MarkInv'
  <2>1. \A other \in Elements(toEngine') : Marked(other)'
    BY MarkedStays DEF MarkInv
  <2>2. \A other \in Elements(fromEngine') \cap Answers : Marked(other)'
    BY <1>2, <1>3, MarkedStays DEF MarkInv
  <2>3. PICK other : other = taken /\ other = taken'
    OBVIOUS
  <2>4. TaskAnswers => Marked(other)'
    BY <2>3, MarkedStays DEF MarkInv
  <2> QED
    BY <2>1, <2>2, <2>3, <2>4 DEF MarkInv, TaskAnswers
<1> QED
  BY <1>1, <1>4, <1>5, <1>6 DEF PipeKept, PipeIds, DistinctInv

\* what is stored is forgotten, an event may be sent, or nothing
LEMMA OthersKeepPipe ==
    ASSUME Typed, MarkInv, DistinctInv, UNCHANGED <<recognition, next_id, active_request>>,
           UNCHANGED toEngine, taken' \in {NULL, taken},
           \/ UNCHANGED fromEngine
           \/ \E event \in Events \ Answers : fromEngine' = Append(fromEngine, event),
           \/ UNCHANGED <<stop_response, clearing>>
           \/ stop_response' = NULL
    PROVE  PipeKept
<1>1. /\ IdsOf(fromEngine', Answers) = IdsOf(fromEngine, Answers)
      /\ DistinctIn(fromEngine, Answers) => DistinctIn(fromEngine', Answers)
      /\ Elements(fromEngine') \cap Answers = Elements(fromEngine) \cap Answers
  <2>1. CASE UNCHANGED fromEngine
    BY <2>1
  <2>2. ASSUME NEW event \in Events \ Answers, fromEngine' = Append(fromEngine, event)
        PROVE  /\ IdsOf(fromEngine', Answers) = IdsOf(fromEngine, Answers)
               /\ DistinctIn(fromEngine, Answers) => DistinctIn(fromEngine', Answers)
               /\ Elements(fromEngine') \cap Answers = Elements(fromEngine) \cap Answers
    <3>1. event \in EngineMessage /\ event \notin Answers
      BY DEF Events
    <3>2. Elements(fromEngine') = Elements(fromEngine) \cup {event}
      BY <2>2, <3>1, EngineTyped, QueueElements
    <3>3. /\ IdsOf(Append(fromEngine, event), Answers) = IdsOf(fromEngine, Answers) \cup {}
          /\ DistinctIn(fromEngine, Answers) => DistinctIn(Append(fromEngine, event), Answers)
      BY <3>1, EngineTyped, AppendIds
    <3> QED
      BY <2>2, <3>1, <3>2, <3>3
  <2> QED
    BY <2>1, <2>2
<1>2. StopIds' \subseteq StopIds /\ TaskIds' \subseteq TaskIds
  BY DEF StopIds, TaskIds, TaskAnswers
<1>3. MarkInv'
  <2>1. \A other \in Elements(toEngine') : Marked(other)'
    BY MarkedStays DEF MarkInv
  <2>2. \A other \in Elements(fromEngine') \cap Answers : Marked(other)'
    BY <1>1, MarkedStays DEF MarkInv
  <2>3. PICK held : held = taken
    OBVIOUS
  <2>4. TaskAnswers => Marked(held)'
    BY <2>3, MarkedStays DEF MarkInv
  <2>5. TaskAnswers' => Marked(taken)'
    BY <2>3, <2>4 DEF TaskAnswers
  <2>6. PICK stored : stored = stop_response
    OBVIOUS
  <2>7. stored # NULL /\ ~clearing => Marked(stored)'
    BY <2>6, MarkedStays DEF MarkInv
  <2>8. stop_response' # NULL /\ ~clearing' => Marked(stop_response)'
    BY <2>6, <2>7
  <2> QED
    BY <2>1, <2>2, <2>5, <2>8 DEF MarkInv
<1>4. DistinctInv'
  BY <1>1, <1>2 DEF DistinctInv, OnceInv
<1> QED
  BY <1>1, <1>2, <1>3, <1>4 DEF PipeKept, PipeIds

\* a message joins the queue: an event of a request that the plugin has
LEMMA MessageSent ==
    ASSUME Typed, ClosedInv, SourceIds' \subseteq SourceIds, NEW message \in EngineMessage,
           fromEngine' = Append(fromEngine, message),
           message \in Events => message.id \in SourceIds,
           message \in Ends => message.id \notin SourceIds'
    PROVE  ClosedInv' /\ EngineIds' \subseteq EngineIds
<1>1. fromEngine \in Seq(EngineMessage)
  BY EngineTyped
<1>2. Elements(fromEngine') = Elements(fromEngine) \cup {message}
  BY <1>1, QueueElements
<1>3. \A other \in Elements(fromEngine') \cap Ends : other.id \notin SourceIds'
  BY <1>2 DEF ClosedInv
<1>4. ClosedIn(fromEngine')
  <2>1. /\ Len(fromEngine') = Len(fromEngine) + 1 /\ Len(fromEngine) \in Nat
        /\ \A i \in 1 .. Len(fromEngine) : fromEngine'[i] = fromEngine[i]
        /\ fromEngine'[Len(fromEngine) + 1] = message
    BY <1>1
  <2>2. \A i \in 1 .. Len(fromEngine) : fromEngine[i] \in Elements(fromEngine)
    BY DEF Elements
  <2>3. ASSUME NEW i \in 1 .. Len(fromEngine'), NEW j \in 1 .. Len(fromEngine'),
               i < j, fromEngine'[i] \in Ends, fromEngine'[j] \in Events
        PROVE  fromEngine'[i].id # fromEngine'[j].id
    <3>1. i \in 1 .. Len(fromEngine) /\ fromEngine'[i] = fromEngine[i]
      BY <2>1, <2>3
    <3>2. CASE j \in 1 .. Len(fromEngine)
      <4>1. fromEngine'[j] = fromEngine[j]
        BY <2>1, <3>2
      <4> QED
        BY <2>3, <3>1, <3>2, <4>1, Zenon DEF ClosedInv, ClosedIn
    <3>3. CASE j = Len(fromEngine) + 1
      BY <2>1, <2>2, <2>3, <3>1, <3>3 DEF ClosedInv
    <3> QED
      BY <2>1, <3>2, <3>3
  <2> QED
    BY <2>3, Zenon DEF ClosedIn
<1>5. IdsOf(fromEngine', Events)
        = IdsOf(fromEngine, Events) \cup (IF message \in Events THEN {message.id} ELSE {})
  <2>1. IdsOf(Append(fromEngine, message), Events)
          = IdsOf(fromEngine, Events) \cup (IF message \in Events THEN {message.id} ELSE {})
    BY <1>1, AppendIds
  <2> QED
    BY <2>1
<1>6. EngineIds' \subseteq EngineIds
  BY <1>5 DEF EngineIds
<1> QED
  BY <1>3, <1>4, <1>6 DEF ClosedInv

\* the plugin takes a request: it may keep it, it may answer it
LEMMA TakenKeepsEvents ==
    ASSUME Typed, HeldInv, ClosedInv, DistinctInv, taken = NULL,
           toEngine # <<>>, toEngine' = Tail(toEngine),
           taken' = NULL \/ taken' = Head(toEngine),
           UNCHANGED <<recog_request, completing>>,
           \/ UNCHANGED fromEngine
           \/ \E state \in RequestStates :
                 fromEngine' = Append(fromEngine, Response(Head(toEngine), state))
    PROVE  EventsKept
<1> DEFINE request == Head(toEngine)
<1>1. request \in Request /\ request # NULL
  BY EngineTyped, NullAssumption
<1>2. /\ IdsOf(toEngine', Request) \subseteq IdsOf(toEngine, Request)
      /\ request.id \in IdsOf(toEngine, Request)
      /\ request.id \notin IdsOf(toEngine', Request)
  BY <1>1, EngineTyped, TailIds DEF DistinctInv
<1>3. /\ IdOf(taken') \subseteq {request.id} /\ IdOf(taken) = {}
      /\ IdOf(recog_request)' = IdOf(recog_request) /\ IdOf(completing)' = IdOf(completing)
  BY <1>1 DEF IdOf
<1>4. HeldInv' /\ SourceIds' \subseteq SourceIds
  BY <1>2, <1>3 DEF HeldInv, HeldIds, SourceIds
<1>5. ClosedInv' /\ EngineIds' \subseteq EngineIds
  <2>1. CASE UNCHANGED fromEngine
    BY <1>4, <2>1 DEF ClosedInv, EngineIds
  <2>2. ASSUME NEW state \in RequestStates,
               fromEngine' = Append(fromEngine, Response(request, state))
        PROVE  ClosedInv' /\ EngineIds' \subseteq EngineIds
    <3>1. PICK message \in EngineMessage : message = Response(request, state) /\ message \notin Events
      BY <1>1, ResponseIsAnswer
    <3> QED
      BY <1>4, <2>2, <3>1, MessageSent DEF Ends
  <2> QED
    BY <2>1, <2>2
<1> QED
  BY <1>4, <1>5 DEF EventsKept

\* what the plugin holds moves on or is forgotten, and a message may leave
LEMMA HeldKeepsEvents ==
    ASSUME Typed, HeldInv, ClosedInv, UNCHANGED toEngine,
           IdOf(taken') \subseteq IdOf(taken),
           IdOf(recog_request') \cup IdOf(completing') \subseteq HeldIds,
           IdOf(taken') \cap (IdOf(recog_request') \cup IdOf(completing')) = {},
           \/ UNCHANGED fromEngine
           \/ \E message \in EngineMessage :
                 /\ fromEngine' = Append(fromEngine, message)
                 /\ message \in Events => message.id \in HeldIds
                 /\ message \in Ends => message.id \in HeldIds \ HeldIds'
    PROVE  EventsKept
<1>1. HeldInv' /\ SourceIds' \subseteq SourceIds /\ HeldIds' \subseteq HeldIds
  BY DEF HeldInv, HeldIds, SourceIds
<1>2. ClosedInv' /\ EngineIds' \subseteq EngineIds
  <2>1. CASE UNCHANGED fromEngine
    BY <1>1, <2>1 DEF ClosedInv, EngineIds
  <2>2. ASSUME NEW message \in EngineMessage, fromEngine' = Append(fromEngine, message),
               message \in Events => message.id \in HeldIds,
               message \in Ends => message.id \in HeldIds \ HeldIds'
        PROVE  ClosedInv' /\ EngineIds' \subseteq EngineIds
    <3>1. message \in Events => message.id \in SourceIds
      BY <2>2 DEF SourceIds
    <3>2. message \in Ends => message.id \notin SourceIds'
      BY <2>2 DEF SourceIds, HeldInv
    <3> QED
      BY <1>1, <2>2, <3>1, <3>2, MessageSent
  <2> QED
    BY <2>1, <2>2
<1> QED
  BY <1>1, <1>2 DEF EventsKept

LEMMA EngineKeeps ==
    ASSUME Typed, TaskInv, MarkInv, DistinctInv, HeldInv, ClosedInv,
           PluginStep \/ MediaStep
    PROVE  PipeKept /\ EventsKept
<1> USE SameMessages, EngineTyped DEF RequestStates
<1>1. UNCHANGED <<recognition, next_id, active_request>>
  BY DEF PluginStep, MediaStep, serverVars, machineVars, clientVars
<1>2. ASSUME NEW methods, Engine!Takes(methods), "STOP" \notin methods,
             NEW state \in RequestStates,
             fromEngine' = Append(fromEngine, Response(Head(toEngine), state)),
             UNCHANGED <<stop_response, clearing, recog_request, completing>>,
             taken' \in {NULL, Head(toEngine)}
      PROVE  PipeKept /\ EventsKept
  <2>1. PipeKept
    BY <1>1, <1>2, AnsweredKeepsPipe DEF Engine!Takes
  <2>2. /\ taken = NULL /\ toEngine # <<>> /\ toEngine' = Tail(toEngine)
        /\ UNCHANGED <<recog_request, completing>>
    BY <1>2 DEF Engine!Takes
  <2>3. \E s \in RequestStates : fromEngine' = Append(fromEngine, Response(Head(toEngine), s))
    BY <1>2
  <2>4. EventsKept
    BY <1>2, <2>2, <2>3, TakenKeepsEvents
  <2> QED
    BY <2>1, <2>4
<1>3. ASSUME Engine!RecognizeAccepted PROVE PipeKept /\ EventsKept
  <2>1. /\ Engine!Takes({"RECOGNIZE"}) /\ taken' = Head(toEngine)
        /\ fromEngine' = Append(fromEngine, Response(Head(toEngine), "IN-PROGRESS"))
    BY <1>3 DEF Engine!RecognizeAccepted, Engine!Answers, Engine!SendToServer
  <2>2. UNCHANGED <<stop_response, clearing, recog_request, completing>>
    BY <1>3 DEF Engine!RecognizeAccepted, Engine!mediaVars
  <2> QED
    BY <1>2, <2>1, <2>2
<1>4. ASSUME Engine!RecognizeStored PROVE PipeKept /\ EventsKept
  <2>1. /\ UNCHANGED <<toEngine, fromEngine, stop_response, clearing, completing>>
        /\ recog_request' = taken /\ taken' = NULL
    BY <1>4 DEF Engine!RecognizeStored, Engine!mediaVars
  <2>2. PipeKept
    BY <1>1, <2>1, OthersKeepPipe
  <2>3. EventsKept
    BY <2>1, HeldKeepsEvents DEF IdOf, HeldIds, HeldInv
  <2> QED
    BY <2>2, <2>3
<1>5. ASSUME Engine!RecognizeRefused \/ Engine!TimersStart \/ Engine!OtherAnswered
      PROVE  PipeKept /\ EventsKept
  <2>1. PICK methods : Engine!Takes(methods) /\ "STOP" \notin methods
    BY <1>5 DEF Engine!RecognizeRefused, Engine!TimersStart, Engine!OtherAnswered
  <2>2. /\ taken' = taken
        /\ fromEngine' = Append(fromEngine, Response(Head(toEngine), "COMPLETE"))
        /\ UNCHANGED <<stop_response, clearing, recog_request, completing>>
    BY <1>5 DEF Engine!RecognizeRefused, Engine!TimersStart, Engine!OtherAnswered,
       Engine!Answers, Engine!SendToServer, Engine!taskVars, Engine!mediaVars
  <2>3. taken = NULL
    BY <2>1 DEF Engine!Takes
  <2> QED
    BY <1>2, <2>1, <2>2, <2>3
<1>6. ASSUME Engine!StopStored \/ Engine!XfyunStopTaken PROVE PipeKept /\ EventsKept
  <2>1. /\ toEngine # <<>> /\ toEngine' = Tail(toEngine) /\ taken = NULL
        /\ UNCHANGED <<fromEngine, recog_request, completing, clearing>>
    BY <1>6 DEF Engine!StopStored, Engine!XfyunStopTaken, Engine!Takes,
       Engine!taskVars, Engine!mediaVars
  <2>2. \/ stop_response' = Head(toEngine) /\ taken' = NULL
        \/ taken' = Head(toEngine) /\ UNCHANGED stop_response
    BY <1>6 DEF Engine!StopStored, Engine!XfyunStopTaken, Engine!Takes, Engine!taskVars
  <2>3. PipeKept
    BY <1>1, <2>1, <2>2, TakenKeepsPipe
  <2>4. EventsKept
    BY <2>1, <2>2, TakenKeepsEvents
  <2> QED
    BY <2>3, <2>4
<1>7. ASSUME Engine!StopAnswered PROVE PipeKept /\ EventsKept
  <2>1. /\ stop_response # NULL /\ ~clearing
        /\ UNCHANGED <<toEngine, taken, recog_request, completing>>
        /\ fromEngine' = Append(fromEngine, Response(stop_response, "COMPLETE"))
    BY <1>7 DEF Engine!StopAnswered, Engine!WriteStarts, Engine!SendToServer, Engine!taskVars
  <2>2. clearing' = TRUE
    BY <1>7, Zenon DEF Engine!StopAnswered
  <2>3. PipeKept
    BY <1>1, <2>1, <2>2, StopAnsweredKeepsPipe
  <2>4. PICK message \in EngineMessage :
            message = Response(stop_response, "COMPLETE") /\ message \notin Events
    BY <2>1, ResponseIsAnswer
  <2>5. message \notin Ends /\ fromEngine' = Append(fromEngine, message)
    BY <2>1, <2>4 DEF Ends
  <2>6. EventsKept
    BY <2>1, <2>4, <2>5, HeldKeepsEvents DEF IdOf, HeldIds, HeldInv
  <2> QED
    BY <2>3, <2>6
<1>8. ASSUME Engine!StopCleared PROVE PipeKept /\ EventsKept
  <2>1. /\ UNCHANGED <<toEngine, fromEngine, taken, completing>>
        /\ stop_response' = NULL /\ recog_request' = NULL
    BY <1>8 DEF Engine!StopCleared, Engine!taskVars
  <2>2. PipeKept
    BY <1>1, <2>1, OthersKeepPipe
  <2>3. EventsKept
    BY <2>1, HeldKeepsEvents DEF IdOf, HeldIds, HeldInv
  <2> QED
    BY <2>2, <2>3
\* a write hears a frame, and announces speech or goes on to the end
<1>9. ASSUME NEW loud \in BOOLEAN, Engine!FrameHeard(loud)
      PROVE  PipeKept /\ EventsKept
  <2>1. /\ UNCHANGED <<toEngine, taken, stop_response, clearing, recog_request, completing>>
        /\ recog_request \in Request /\ recog_request # NULL
    BY <1>9 DEF Engine!FrameHeard, Engine!FrameWritten, Engine!taskVars
  <2>2. CASE UNCHANGED fromEngine
    <3>1. PipeKept
      BY <1>1, <2>1, <2>2, OthersKeepPipe
    <3>2. EventsKept
      BY <2>1, <2>2, HeldKeepsEvents DEF HeldIds, HeldInv
    <3> QED
      BY <3>1, <3>2
  <2>3. CASE fromEngine' = Append(fromEngine, StartOfInput(recog_request))
    <3>1. PICK event : event = StartOfInput(recog_request)
      OBVIOUS
    <3>2. /\ event \in Events \ Answers /\ event \in EngineMessage
          /\ event \notin Ends /\ event.id = recog_request.id
      BY <2>1, <3>1, EventIsEvent DEF Events
    <3>3. fromEngine' = Append(fromEngine, event) /\ event.id \in HeldIds
      BY <2>1, <2>3, <3>1, <3>2 DEF HeldIds, IdOf
    <3>4. PipeKept
      BY <1>1, <2>1, <3>2, <3>3, OthersKeepPipe
    <3>5. EventsKept
      BY <2>1, <3>2, <3>3, HeldKeepsEvents DEF HeldIds, HeldInv
    <3> QED
      BY <3>4, <3>5
  <2> QED
    BY <1>9, <2>2, <2>3 DEF Engine!FrameHeard, Engine!SendToServer
<1>10. ASSUME UNCHANGED <<toEngine, fromEngine, taken, stop_response, clearing, recog_request>>,
              completing' \in {completing, recog_request}
       PROVE  PipeKept /\ EventsKept
  <2>1. PipeKept
    BY <1>1, <1>10, OthersKeepPipe
  <2>2. EventsKept
    BY <1>10, HeldKeepsEvents DEF HeldIds, HeldInv
  <2> QED
    BY <2>1, <2>2
<1>11. ASSUME NEW loud \in BOOLEAN,
              Engine!RecognitionEnds(loud) \/ Engine!XfyunRecognitionEnds(loud)
       PROVE  PipeKept /\ EventsKept
  <2>1. /\ UNCHANGED <<toEngine, fromEngine, taken, stop_response, clearing, recog_request>>
        /\ completing' \in {completing, recog_request}
    BY <1>11 DEF Engine!RecognitionEnds, Engine!XfyunRecognitionEnds, Engine!FrameWritten,
       Engine!taskVars
  <2> QED
    BY <1>10, <2>1
<1>12. ASSUME Engine!RecognitionCleared PROVE PipeKept /\ EventsKept
  <2>1. /\ UNCHANGED <<toEngine, taken, stop_response, clearing>>
        /\ completing \in Request /\ completing # NULL
        /\ completing' = NULL /\ recog_request' = NULL
        /\ fromEngine' = Append(fromEngine, Event("RECOGNITION-COMPLETE", completing))
    BY <1>12 DEF Engine!RecognitionCleared, Engine!SendToServer, Engine!taskVars
  <2>2. PICK event : event = Event("RECOGNITION-COMPLETE", completing)
    OBVIOUS
  <2>3. /\ event \in Events \ Answers /\ event \in EngineMessage
        /\ event.id = completing.id
    BY <2>1, <2>2, EventIsEvent DEF Events
  <2>4. fromEngine' = Append(fromEngine, event)
    BY <2>1, <2>2
  <2>5. PipeKept
    BY <1>1, <2>1, <2>3, <2>4, OthersKeepPipe
  <2>6. /\ event.id \in HeldIds /\ event.id \notin IdOf(taken)
        /\ IdOf(NULL) = {} /\ HeldIds' = IdOf(taken)
    BY <2>1, <2>3 DEF HeldIds, HeldInv, IdOf
  <2>7. EventsKept
    BY <2>1, <2>3, <2>4, <2>6, HeldKeepsEvents DEF HeldIds, HeldInv
  <2> QED
    BY <2>5, <2>7
\* the steps of the second plugin
<1>13. ASSUME \/ Engine!XfyunSessionBegins \/ Engine!XfyunBeginFails
              \/ Engine!XfyunTaskEndsSession \/ Engine!XfyunMediaEndsSession
       PROVE  PipeKept /\ EventsKept
  <2>1. UNCHANGED <<toEngine, fromEngine, taken, stop_response, clearing, recog_request,
                    completing>>
    BY <1>13 DEF Engine!XfyunSessionBegins, Engine!XfyunBeginFails, Engine!taskVars,
       Engine!XfyunTaskEndsSession, Engine!XfyunMediaEndsSession, Engine!mediaVars
  <2> QED
    BY <1>10, <2>1
<1>14. ASSUME Engine!XfyunEventCreated PROVE PipeKept /\ EventsKept
  <2>1. /\ UNCHANGED <<toEngine, fromEngine, taken, stop_response, clearing, recog_request>>
        /\ completing' = recog_request
    BY <1>14 DEF Engine!XfyunEventCreated, Engine!taskVars
  <2> QED
    BY <1>10, <2>1
<1>15. ASSUME Engine!XfyunStopStored PROVE PipeKept /\ EventsKept
  <2>1. /\ taken # NULL /\ taken.method = "STOP"
        /\ stop_response' = taken /\ taken' = NULL
        /\ UNCHANGED <<toEngine, fromEngine, clearing, recog_request, completing>>
    BY <1>15 DEF Engine!XfyunStopStored, Engine!mediaVars, TaskInv, EndSteps
  <2>2. PipeKept
    BY <1>1, <2>1, StoredKeepsPipe
  <2>3. EventsKept
    BY <2>1, HeldKeepsEvents DEF IdOf, HeldIds, HeldInv
  <2> QED
    BY <2>2, <2>3
<1>16. ASSUME Engine!XfyunFailureAnswered PROVE PipeKept /\ EventsKept
  <2>1. /\ SdkMayFail /\ taken # NULL /\ taken' = NULL
        /\ fromEngine' = Append(fromEngine, Response(taken, "IN-PROGRESS"))
        /\ UNCHANGED <<toEngine, stop_response, clearing, recog_request, completing>>
    BY <1>16 DEF Engine!XfyunFailureAnswered, Engine!SendToServer, Engine!mediaVars, TaskInv
  <2>2. PipeKept
    BY <1>1, <2>1, FailureKeepsPipe
  <2>3. PICK message \in EngineMessage :
            message = Response(taken, "IN-PROGRESS") /\ message \notin Events
    BY <2>1, ResponseIsAnswer
  <2>4. message \notin Ends /\ fromEngine' = Append(fromEngine, message)
    BY <2>1, <2>3 DEF Ends
  <2>5. EventsKept
    BY <2>1, <2>3, <2>4, HeldKeepsEvents DEF IdOf, HeldIds, HeldInv
  <2> QED
    BY <2>2, <2>5
<1>17. ASSUME Engine!PluginNext PROVE PipeKept /\ EventsKept
  BY <1>3, <1>4, <1>5, <1>6, <1>17, Zenon DEF Engine!PluginNext
<1>18. ASSUME Engine!XfyunPluginNext PROVE PipeKept /\ EventsKept
  <2>1. ASSUME Engine!XfyunRecognizeStored PROVE PipeKept /\ EventsKept
    BY <1>4, <2>1, Zenon DEF Engine!XfyunRecognizeStored
  <2> QED
    BY <1>3, <1>5, <1>6, <1>13, <1>15, <1>16, <1>18, <2>1, Zenon DEF Engine!XfyunPluginNext
<1>19. ASSUME Engine!MediaNext PROVE PipeKept /\ EventsKept
  BY <1>7, <1>8, <1>9, <1>11, <1>12, <1>19, Zenon DEF Engine!MediaNext
<1>20. ASSUME Engine!XfyunMediaNext PROVE PipeKept /\ EventsKept
  BY <1>7, <1>8, <1>9, <1>11, <1>12, <1>13, <1>14, <1>20, Zenon DEF Engine!XfyunMediaNext
<1> QED
  BY <1>17, <1>18, <1>19, <1>20, Zenon DEF PluginStep, MediaStep

LEMMA EngineService ==
    ASSUME Typed, TaskInv, ServiceInv, PluginStep \/ MediaStep
    PROVE  ServiceInv' /\ UNCHANGED <<answers, recognition>>
<1>1. UNCHANGED <<in_progress, request_queue, dispatching, sm_active, sm_state,
                  active_request, recog, recog_queue, is_pending, deferred,
                  next_id, terminated, answers, recognition>>
  BY DEF PluginStep, MediaStep, serverVars, sessionVars, machineVars, clientVars
<1>2. FutureInv'
  BY <1>1 DEF ServiceInv, FutureInv
<1>3. ASSUME sm_active PROVE PlacesInv'
  <2>1. PlacesInv
    BY <1>3 DEF ServiceInv
  <2>2. PipeKept /\ EventsKept
    BY <2>1, EngineKeeps DEF PlacesInv
  <2>3. FreshInv' /\ FreshIds' = FreshIds
    BY <1>1, <2>1 DEF PlacesInv, FreshInv, FreshIds, Fresh, Sent
  <2>4. WaitInv' /\ WaitIds' = WaitIds
    BY <1>1, <2>1 DEF PlacesInv, WaitInv, WaitIds, Waits, Sent
  <2>5. ApartInv'
    <3>1. BusyIds' \subseteq BusyIds /\ Sent' = Sent
      BY <1>1, <2>2 DEF PipeKept, EventsKept, BusyIds, Sent
    <3> QED
      BY <2>1, <2>3, <2>4, <3>1 DEF PlacesInv, ApartInv
  <2>6. ActiveInv'
    BY <1>1, <2>1, <2>2 DEF PlacesInv, ActiveInv, Owed, PipeKept
  <2>7. RecogInv'
    BY <1>1, <2>1, <2>2, <2>3, <2>4 DEF PlacesInv, RecogInv, Known, Sent, EventsKept
  <2> QED
    BY <2>2, <2>3, <2>4, <2>5, <2>6, <2>7 DEF PlacesInv, PipeKept, EventsKept
<1> QED
  BY <1>1, <1>2, <1>3 DEF ServiceInv

-----------------------------------------------------------------------------
(* The client.                                                             *)

LEMMA SentFacts ==
    Typed => /\ next_id \in Nat \ {0} /\ Sent \subseteq Ids
             /\ next_id' = next_id => Sent' = Sent
             /\ next_id' = next_id + 1 => Sent' = Sent \cup {next_id}
<1> SUFFICES ASSUME Typed
             PROVE  /\ next_id \in Nat \ {0} /\ Sent \subseteq Ids
                    /\ next_id' = next_id => Sent' = Sent
                    /\ next_id' = next_id + 1 => Sent' = Sent \cup {next_id}
  OBVIOUS
<1>1. next_id \in 1 .. MaxRequests + 1
  BY DEF Typed, TypeOK, MachineTypeOK, SessionTypeOK
<1> QED
  BY <1>1, MessageAssumption DEF Sent, Ids

\* where the ids of the places come from
LEMMA PlacesAreSent ==
    ASSUME Typed, PlacesInv
    PROVE  /\ FreshIds \subseteq Sent \cup {0}
           /\ WaitIds \subseteq Sent
           /\ BusyIds \subseteq Sent
<1>1. FreshIds \subseteq Sent \cup {0}
  BY DEF PlacesInv, FreshInv, FreshIds, Fresh, IdsOf
<1>2. WaitIds \subseteq Sent
  BY DEF PlacesInv, WaitInv, WaitIds, Waits, IdsOf
<1>3. BusyIds \subseteq Sent
  BY DEF PlacesInv, ApartInv
<1> QED
  BY <1>1, <1>2, <1>3

\* a new request joins the fresh ones
LEMMA ArriveFresh ==
    ASSUME Typed, FreshInv, NEW request \in Request, Enqueue(request), ~dispatching,
           Fresh(request)', request.id \notin IdsOf(request_queue, Request),
           \A r \in Elements(request_queue) : Fresh(r)'
    PROVE  FreshInv' /\ FreshIds' \subseteq FreshIds \cup {request.id}
<1>1. request_queue \in Seq(Request)
  BY TypedQueues
<1>2. CASE /\ request_queue' = Append(request_queue, request)
           /\ UNCHANGED <<in_progress, dispatching>>
  <2>1. Elements(request_queue') = Elements(request_queue) \cup {request}
    BY <1>1, <1>2, QueueElements
  <2>2. /\ IdsOf(request_queue', Request) = IdsOf(request_queue, Request) \cup {request.id}
        /\ DistinctIn(request_queue', Request)
    BY <1>1, <1>2, AppendIds DEF FreshInv
  <2> QED
    BY <1>2, <2>1, <2>2 DEF FreshInv, FreshIds
<1>3. CASE /\ in_progress' = request /\ dispatching' = TRUE /\ UNCHANGED request_queue
  BY <1>3 DEF FreshInv, FreshIds
<1> QED
  BY <1>2, <1>3, Zenon DEF Enqueue

LEMMA ClientService ==
    ASSUME Typed, ServiceInv, ClientStep
    PROVE  ServiceInv' /\ [Service!ServiceNext]_<<answers, recognition>>
<1>1. UNCHANGED <<machineVars, queueVars, channelVars>>
  BY DEF ClientStep, ClientNext, ClientRequest, ClientTerminate
<1>2. UNCHANGED <<active_request, recog, recog_queue, is_pending, deferred, sm_active,
                  sm_state, toEngine, fromEngine, stop_response, clearing, taken,
                  recog_request, completing>>
  BY <1>1 DEF machineVars, queueVars, channelVars
<1>3. UNCHANGED answers
  BY DEF ClientStep, ClientNext, ClientRequest, ClientTerminate, ArriveRequest,
         ArriveTerminate, Arrive
<1>4. PICK request \in Request :
          /\ Enqueue(request) /\ ~dispatching
          /\ \/ /\ request = TerminateRequest
                /\ ~terminated /\ terminated' = TRUE
                /\ next_id' = next_id /\ recognition' = recognition
             \/ /\ request.id = next_id /\ request.method # "TERMINATE"
                /\ next_id \in Ids
                /\ terminated' = terminated /\ next_id' = next_id + 1
                /\ recognition' = IF request.method = "RECOGNIZE"
                             THEN [recognition EXCEPT ![next_id] = "asked"] ELSE recognition
  <2>1. CASE ClientTerminate
    BY <2>1, MessageTypes DEF ClientTerminate, ArriveTerminate, Arrive, Waiting
  <2>2. ASSUME NEW method \in Methods, NEW only \in Selections, NEW flag \in BOOLEAN,
               ClientRequest(method, only, flag)
        PROVE  /\ NewRequest(method, only, flag) \in Request
               /\ Enqueue(NewRequest(method, only, flag)) /\ ~dispatching
               /\ NewRequest(method, only, flag).id = next_id
               /\ NewRequest(method, only, flag).method = method
               /\ method # "TERMINATE"
               /\ next_id \in Ids
               /\ terminated' = terminated /\ next_id' = next_id + 1
               /\ recognition' = IF method = "RECOGNIZE"
                            THEN [recognition EXCEPT ![next_id] = "asked"] ELSE recognition
    <3>1. NewRequest(method, only, flag) \in Request
      <4>1. method \in MethodNames
        BY MessageAssumption
      <4>2. next_id \in Nat /\ only \in SUBSET Ids
        BY <2>2, SentFacts, MessageAssumption DEF Selections, ClientRequest, ArriveRequest, Ids
      <4> QED
        BY <4>1, <4>2 DEF NewRequest, Request
    <3>2. method # "TERMINATE"
      BY MessageAssumption, Zenon
    <3>3. next_id \in Ids
      BY <2>2, SentFacts, MessageAssumption DEF ClientRequest, ArriveRequest, Ids
    <3> QED
      BY <2>2, <3>1, <3>2, <3>3
         DEF ClientRequest, ArriveRequest, Arrive, NewRequest, Waiting
  <2> QED
    BY <2>1, <2>2 DEF ClientStep, ClientNext
<1>5. /\ next_id \in Nat \ {0} /\ Sent \subseteq Ids /\ Sent \subseteq Sent'
      /\ request.method # "TERMINATE" => Sent' = Sent \cup {next_id}
      /\ next_id \notin Sent
  BY <1>4, SentFacts DEF Sent, TerminateRequest
<1>6. /\ recognition \in [Ids -> {"none", "asked"} \cup RequestStates]
      /\ \A id \in Ids : id # next_id => recognition'[id] = recognition[id]
      /\ \A id \in Sent : recognition'[id] = recognition[id] /\ answers'[id] = answers[id]
  BY <1>3, <1>4, <1>5 DEF Typed, TypeOK, MachineTypeOK
<1>7. FutureInv'
  <2>1. ASSUME NEW id \in Ids, id >= next_id'
        PROVE  answers'[id] = 0 /\ recognition'[id] = "none"
    <3>1. next_id' \in {next_id, next_id + 1} /\ id \in Nat
      BY <1>4, MessageAssumption DEF Ids
    <3>2. id >= next_id
      BY <1>5, <2>1, <3>1
    <3>3. id = next_id => request = TerminateRequest
      BY <1>4, <1>5, <2>1, <3>1
    <3>4. recognition'[id] = recognition[id]
      BY <1>4, <1>6, <3>3 DEF TerminateRequest
    <3> QED
      BY <1>3, <3>2, <3>4 DEF ServiceInv, FutureInv
  <2> QED
    BY <2>1 DEF FutureInv
<1>8. ASSUME sm_active PROVE PlacesInv'
  <2>1. PlacesInv
    BY <1>8 DEF ServiceInv
  <2>2. \A r : Fresh(r) => Fresh(r)'
    BY <1>4, <1>5, <1>6 DEF Fresh
  <2>3. Fresh(request)'
    <3>1. CASE request = TerminateRequest
      BY <1>4, <3>1, MessageTypes DEF Fresh, TerminateRequest
    <3>2. CASE request # TerminateRequest
      <4>1. answers[next_id] = 0 /\ recognition[next_id] = "none"
        BY <1>4, <1>5, <3>2 DEF ServiceInv, FutureInv
      <4>2. recognition'[next_id] = IF request.method = "RECOGNIZE" THEN "asked" ELSE "none"
        BY <1>4, <1>6, <3>2, <4>1
      <4> QED
        BY <1>3, <1>4, <1>5, <3>2, <4>1, <4>2 DEF Fresh
    <3> QED
      BY <3>1, <3>2
  <2>4. request.id \notin IdsOf(request_queue, Request)
    <3>1. CASE request = TerminateRequest
      <4>1. \A r \in Elements(request_queue) : r.id # 0
        BY <1>4, <1>5, <2>1, <3>1, MessageTypes
           DEF PlacesInv, FreshInv, Fresh, TerminateRequest, Sent
      <4> QED
        BY <3>1, <4>1 DEF IdsOf, TerminateRequest
    <3>2. CASE request # TerminateRequest
      <4>1. IdsOf(request_queue, Request) \subseteq Sent \cup {0}
        BY <2>1, PlacesAreSent DEF FreshIds
      <4> QED
        BY <1>4, <1>5, <3>2, <4>1
    <3> QED
      BY <3>1, <3>2
  <2>5. FreshInv' /\ FreshIds' \subseteq FreshIds \cup {request.id}
    BY <1>4, <2>1, <2>2, <2>3, <2>4, ArriveFresh DEF PlacesInv, FreshInv
  <2>6. request.id \notin Sent
    BY <1>4, <1>5 DEF TerminateRequest, Sent
  <2>7. WaitInv' /\ WaitIds' = WaitIds
    BY <1>2, <1>5, <1>6, <2>1 DEF PlacesInv, WaitInv, WaitIds, Waits
  <2>8. /\ MarkInv' /\ DistinctInv' /\ HeldInv' /\ ClosedInv'
        /\ PipeIds' = PipeIds /\ EngineIds' = EngineIds
    <3>1. PipeIds' = PipeIds /\ DistinctInv'
      BY <1>2, <2>1
         DEF PlacesInv, PipeIds, StopIds, TaskIds, TaskAnswers, DistinctInv, OnceInv
    <3>2. MarkInv'
      BY <1>2, <1>5, <1>6, <2>1 DEF PlacesInv, MarkInv, Marked, TaskAnswers
    <3>3. HeldIds' = HeldIds /\ SourceIds' = SourceIds /\ EngineIds' = EngineIds
      BY <1>2 DEF EngineIds, SourceIds, HeldIds, IdOf
    <3>4. HeldInv' /\ ClosedInv'
      BY <1>2, <2>1, <3>3 DEF PlacesInv, HeldInv, IdOf, ClosedInv
    <3> QED
      BY <3>1, <3>2, <3>3, <3>4
  <2>9. ApartInv'
    BY <1>5, <2>1, <2>5, <2>6, <2>7, <2>8, PlacesAreSent DEF PlacesInv, ApartInv, BusyIds
  <2>10. ActiveInv'
    <3>1. ASSUME active_request # NULL, active_request.id \in PipeIds
          PROVE  /\ Owed(active_request.id)'
                 /\ recognition'[active_request.id] # "none" => sm_state # "RECOGNIZING"
      <4>1. active_request.id \in Sent
        BY <2>1, <3>1, PlacesAreSent DEF BusyIds
      <4>2. /\ Owed(active_request.id)
            /\ recognition[active_request.id] # "none" => sm_state # "RECOGNIZING"
        BY <2>1, <3>1 DEF PlacesInv, ActiveInv
      <4>3. in_progress # NULL => UNCHANGED <<in_progress, dispatching>>
        BY <1>4, Zenon DEF Enqueue
      <4> QED
        BY <1>2, <1>6, <4>1, <4>2, <4>3 DEF Owed
    <3> QED
      BY <1>2, <2>8, <3>1 DEF ActiveInv
  <2>11. RecogInv'
    <3>1. \A id \in Ids : recognition'[id] = "IN-PROGRESS" => recognition[id] = "IN-PROGRESS"
      BY <1>4, <1>6
    <3>2. recog # NULL => /\ recog.id \in Sent' /\ recog.id \notin FreshIds' \cup WaitIds'
                          /\ recognition'[recog.id] = recognition[recog.id]
      BY <1>5, <1>6, <2>1, <2>5, <2>6, <2>7 DEF PlacesInv, RecogInv
    <3>3. sm_state # "IDLE" => recog # NULL
      BY DEF Typed, RecogState
    <3>4. sm_state = "RECOGNIZING" => Known(recog.id)'
      <4>1. in_progress # NULL => UNCHANGED <<in_progress, dispatching>>
        BY <1>4, Zenon DEF Enqueue
      <4>2. sm_state = "RECOGNIZING" => Known(recog.id)
        BY <2>1 DEF PlacesInv, RecogInv
      <4> QED
        BY <1>2, <3>2, <3>3, <4>1, <4>2 DEF Known
    <3> QED
      BY <1>2, <2>1, <2>8, <3>1, <3>2, <3>3, <3>4 DEF PlacesInv, RecogInv
  <2> QED
    BY <2>5, <2>7, <2>8, <2>9, <2>10, <2>11 DEF PlacesInv
<1>9. [Service!ServiceNext]_<<answers, recognition>>
  <2>1. CASE recognition' = recognition
    BY <1>3, <2>1
  <2>2. CASE recognition' # recognition
    <3>1. /\ next_id \in Ids
          /\ recognition' = [recognition EXCEPT ![next_id] = "asked"]
          /\ answers[next_id] = 0 /\ recognition[next_id] = "none"
      BY <1>4, <1>5, <2>2 DEF ServiceInv, FutureInv
    <3>2. Service!Ask(next_id)
      BY <1>3, <3>1 DEF Service!Ask
    <3> QED
      BY <3>1, <3>2 DEF Service!ServiceNext
  <2> QED
    BY <2>1, <2>2
<1> QED
  BY <1>2, <1>7, <1>8, <1>9 DEF ServiceInv

-----------------------------------------------------------------------------
(* The server task, after the machine was deactivated.                     *)

LEMMA InactiveService ==
    ASSUME Typed, ServiceInv, ~sm_active, ServerStep
    PROVE  ServiceInv' /\ UNCHANGED <<answers, recognition>>
<1>1. ASSUME NEW response, NEW stopped, Respond(response, stopped)
      PROVE  UNCHANGED <<answers, recognition>>
  BY <1>1 DEF Respond, ReportDeactivation
<1>2. /\ next_id' = next_id
      /\ ~sm_active'
      /\ UNCHANGED <<answers, recognition>>
  <2>1. CASE Dispatch
    <3>1. UNCHANGED next_id /\ ~sm_active'
      BY <2>1 DEF Dispatch, RequestRecognize, RequestStop, RequestDefineGrammar,
         RequestGetResult, RequestStartTimers, RequestParams, RequestIf,
         RequestFrame, Deactivate, StartDeferred, clientVars
    <3>2. UNCHANGED <<answers, recognition>>
      BY <1>1, <2>1 DEF Dispatch, RequestRecognize, RequestStop, RequestDefineGrammar,
         RequestGetResult, RequestStartTimers, RequestParams, RequestIf,
         Forward, AnswerAtOnce, Deactivate, DeactivateSession, StartDeferred, clientVars
    <3> QED
      BY <3>1, <3>2
  <2>2. CASE FromEngine
    <3>1. UNCHANGED next_id /\ ~sm_active'
      BY <2>2 DEF FromEngine, ResponseUnexpected, ResponseRecognize, ResponseStop,
         ResponsePlain, ResponseFrame, EventStartOfInput, EventRecognitionComplete,
         EventUnexpected, serverVars, machineVars, clientVars
    <3>2. UNCHANGED <<answers, recognition>>
      BY <1>1, <2>2 DEF FromEngine, ResponseUnexpected, ResponseRecognize, ResponseStop,
         ResponsePlain, AnswerRecognize, SendEvent, EventStartOfInput,
         EventRecognitionComplete, EventUnexpected, clientVars
    <3> QED
      BY <3>1, <3>2
  <2> QED
    BY <2>1, <2>2 DEF ServerStep, ServerNext
<1>3. FutureInv'
  BY <1>2 DEF ServiceInv, FutureInv
<1> QED
  BY <1>2, <1>3 DEF ServiceInv

-----------------------------------------------------------------------------
(* The server task before that: what its steps share.                      *)

\* which ids are RECOGNIZEs is not forgotten, nor whose answer is awaited
KeepsMarks ==
    /\ next_id' = next_id
    /\ \A id \in Sent : (recognition'[id] = "none") <=> (recognition[id] = "none")
    /\ active_request' # NULL
          => active_request' = active_request \/ active_request'.id \notin PipeIds

FromShrinks ==
    /\ Elements(fromEngine') \subseteq Elements(fromEngine)
    /\ IdsOf(fromEngine', Answers) \subseteq IdsOf(fromEngine, Answers)
    /\ IdsOf(fromEngine', Events) \subseteq IdsOf(fromEngine, Events)
    /\ ~SdkMayFail => DistinctIn(fromEngine', Answers)
    /\ ClosedIn(fromEngine')

\* the pipe and the plugin, when requests of the given ids were sent
Sends(added) ==
    /\ MarkInv' /\ DistinctInv' /\ HeldInv' /\ ClosedInv'
    /\ PipeIds' \subseteq PipeIds \cup added
    /\ SourceIds' \subseteq SourceIds \cup added
    /\ EngineIds' \subseteq EngineIds \cup added

LEMMA MarksKept ==
    ASSUME Typed, KeepsMarks, NEW message, Marked(message), message.id \in PipeIds
    PROVE  Marked(message)'
<1>1. message.id \in Sent /\ Sent' = Sent
  BY SentFacts DEF KeepsMarks, Marked
<1>2. (message.method = "RECOGNIZE") <=> (recognition'[message.id] # "none")
  BY <1>1 DEF KeepsMarks, Marked
<1>3. active_request' # NULL /\ active_request'.id = message.id
        => active_request'.method = message.method
  BY DEF KeepsMarks, Marked
<1> QED
  BY <1>1, <1>2, <1>3 DEF Marked

\* the marks of what is in the pipe
LEMMA PipeMarksKept ==
    ASSUME Typed, MarkInv, KeepsMarks, UNCHANGED <<stop_response, taken>>
    PROVE  /\ \A request \in Elements(toEngine) : Marked(request)'
           /\ TaskAnswers => Marked(taken)'
           /\ stop_response # NULL /\ ~clearing => Marked(stop_response)'
           /\ \A message \in Elements(fromEngine) \cap Answers : Marked(message)'
<1>1. ASSUME NEW request \in Elements(toEngine) PROVE Marked(request)'
  <2>1. request.id \in PipeIds
    BY EngineTyped DEF PipeIds, IdsOf
  <2> QED
    BY <2>1, MarksKept DEF MarkInv
<1>2. ASSUME stop_response # NULL, ~clearing PROVE Marked(stop_response)'
  <2>1. stop_response.id \in PipeIds /\ Marked(stop_response)
    BY <1>2 DEF PipeIds, StopIds, MarkInv
  <2>2. PICK request : request = stop_response /\ request = stop_response'
    OBVIOUS
  <2>3. Marked(request)'
    BY <2>1, <2>2, MarksKept
  <2> QED
    BY <2>2, <2>3
<1>3. ASSUME NEW message \in Elements(fromEngine) \cap Answers PROVE Marked(message)'
  <2>1. message.id \in PipeIds
    BY DEF PipeIds, IdsOf
  <2> QED
    BY <2>1, MarksKept DEF MarkInv
<1>4. ASSUME TaskAnswers PROVE Marked(taken)'
  <2>1. taken.id \in PipeIds /\ Marked(taken)
    BY <1>4 DEF PipeIds, TaskIds, MarkInv
  <2>2. PICK request : request = taken /\ request = taken'
    OBVIOUS
  <2>3. Marked(request)'
    BY <2>1, <2>2, MarksKept
  <2> QED
    BY <2>2, <2>3
<1> QED
  BY <1>1, <1>2, <1>3, <1>4

\* a message is taken from the queue
LEMMA ReceivesShrinks ==
    ASSUME Typed, DistinctInv, ClosedInv, NEW kind, Receives(kind)
    PROVE  /\ FromShrinks
           /\ Received \in Elements(fromEngine) /\ Received \in EngineMessage
           /\ Received.kind = kind
           /\ kind = "response" =>
                 /\ Received \in Answers
                 /\ Received.id \in IdsOf(fromEngine, Answers)
                 /\ ~SdkMayFail => Received.id \notin IdsOf(fromEngine', Answers)
           /\ kind = "event" =>
                 /\ Received \in Events
                 /\ Received.id \in IdsOf(fromEngine, Events)
           /\ Received \in Ends =>
                 /\ Received.id \notin SourceIds
                 /\ Received.id \notin IdsOf(fromEngine', Events)
<1>1. /\ fromEngine \in Seq(EngineMessage) /\ fromEngine # <<>>
      /\ fromEngine' = Tail(fromEngine) /\ Received = Head(fromEngine)
      /\ Received \in EngineMessage /\ Received.kind = kind
      /\ Received \in Elements(fromEngine)
      /\ Elements(fromEngine') \subseteq Elements(fromEngine)
  BY TypedQueues, ReceivesTypes, QueueElements DEF Receives, Received
<1>2. /\ Len(fromEngine) \in Nat \ {0} /\ Len(fromEngine') = Len(fromEngine) - 1
      /\ Received = fromEngine[1]
      /\ \A i \in 1 .. Len(fromEngine') :
            fromEngine'[i] = fromEngine[i + 1] /\ i + 1 \in 2 .. Len(fromEngine)
  BY <1>1
<1>3. ClosedIn(fromEngine')
  <2>1. ASSUME NEW i \in 1 .. Len(fromEngine'), NEW j \in 1 .. Len(fromEngine'), i < j,
               fromEngine'[i] \in Ends, fromEngine'[j] \in Events
        PROVE  fromEngine'[i].id # fromEngine'[j].id
    <3>1. /\ i + 1 \in 1 .. Len(fromEngine) /\ j + 1 \in 1 .. Len(fromEngine)
          /\ i + 1 < j + 1
          /\ fromEngine'[i] = fromEngine[i + 1] /\ fromEngine'[j] = fromEngine[j + 1]
      BY <1>2, <2>1
    <3>2. PICK m, n \in 1 .. Len(fromEngine) :
              m < n /\ fromEngine'[i] = fromEngine[m] /\ fromEngine'[j] = fromEngine[n]
      BY <3>1
    <3> QED
      BY <2>1, <3>2, Zenon DEF ClosedInv, ClosedIn
  <2> QED
    BY <2>1, Zenon DEF ClosedIn
<1>4. FromShrinks
  BY <1>1, <1>3, TailIds DEF FromShrinks, DistinctInv, OnceInv
<1>5. ASSUME kind = "response"
      PROVE  /\ Received \in Answers
             /\ Received.id \in IdsOf(fromEngine, Answers)
             /\ ~SdkMayFail => Received.id \notin IdsOf(fromEngine', Answers)
  <2>1. Received \in Answers
    BY <1>1, <1>5 DEF Answers
  <2> QED
    BY <1>1, <2>1, TailIds DEF DistinctInv, OnceInv
<1>6. ASSUME kind = "event"
      PROVE  Received \in Events /\ Received.id \in IdsOf(fromEngine, Events)
  <2>1. Received \in Events
    BY <1>1, <1>6 DEF Events
  <2> QED
    BY <1>1, <2>1, TailIds
<1>7. ASSUME Received \in Ends
      PROVE  Received.id \notin SourceIds /\ Received.id \notin IdsOf(fromEngine', Events)
  <2>1. Received.id \notin SourceIds
    BY <1>1, <1>7 DEF ClosedInv
  <2>2. ASSUME NEW message \in Elements(fromEngine'), message \in Events
        PROVE  message.id # Received.id
    <3>1. PICK i \in 1 .. Len(fromEngine') : message = fromEngine'[i]
      BY <2>2 DEF Elements
    <3>2. /\ 1 \in 1 .. Len(fromEngine) /\ i + 1 \in 1 .. Len(fromEngine)
          /\ 1 < i + 1 /\ message = fromEngine[i + 1]
      BY <1>2, <3>1
    <3>3. PICK m, n \in 1 .. Len(fromEngine) :
              m < n /\ Received = fromEngine[m] /\ message = fromEngine[n]
      BY <1>2, <3>2
    <3> QED
      BY <1>7, <2>2, <3>3, Zenon DEF ClosedInv, ClosedIn
  <2> QED
    BY <2>1, <2>2 DEF IdsOf
<1> QED
  BY <1>1, <1>4, <1>5, <1>6, <1>7

\* no message is taken
LEMMA NothingTaken ==
    ASSUME PlacesInv, UNCHANGED fromEngine
    PROVE  FromShrinks /\ MarkInv /\ DistinctInv /\ HeldInv /\ ClosedInv
  BY DEF FromShrinks, PlacesInv, DistinctInv, OnceInv, ClosedInv

\* no request is sent to the engine
LEMMA NothingSent ==
    ASSUME Typed, MarkInv, DistinctInv, HeldInv, ClosedInv, KeepsMarks, FromShrinks,
           UNCHANGED <<toEngine, channelVars>>
    PROVE  Sends({})
<1> USE DEF channelVars
<1>1. /\ StopIds' = StopIds /\ HeldIds' = HeldIds /\ SourceIds' = SourceIds
      /\ TaskIds' = TaskIds
  BY DEF StopIds, HeldIds, SourceIds, IdOf, TaskIds, TaskAnswers
<1>2. /\ PipeIds' \subseteq PipeIds /\ EngineIds' \subseteq EngineIds /\ DistinctInv'
  BY <1>1 DEF FromShrinks, PipeIds, EngineIds, DistinctInv, OnceInv
<1>3. MarkInv'
  BY PipeMarksKept DEF FromShrinks, MarkInv, TaskAnswers
<1>4. HeldInv'
  BY DEF HeldInv, HeldIds, IdOf
<1>5. ClosedInv'
  BY <1>1 DEF FromShrinks, ClosedInv
<1> QED
  BY <1>1, <1>2, <1>3, <1>4, <1>5 DEF Sends

LEMMA RequestSent ==
    ASSUME Typed, MarkInv, DistinctInv, HeldInv, ClosedInv, KeepsMarks, FromShrinks,
           UNCHANGED channelVars, NEW request \in Request, Marked(request)',
           request.id \notin BusyIds, toEngine' = Append(toEngine, request)
    PROVE  Sends({request.id})
<1> USE DEF channelVars
<1>1. StopIds' = StopIds /\ HeldIds' = HeldIds /\ TaskIds' = TaskIds
  BY DEF StopIds, HeldIds, IdOf, TaskIds, TaskAnswers
<1>2. Elements(toEngine') = Elements(toEngine) \cup {request}
  BY TypedQueues, QueueElements
<1>3. /\ IdsOf(toEngine', Request) = IdsOf(toEngine, Request) \cup {request.id}
      /\ DistinctIn(toEngine', Request)
  <2>1. request.id \notin IdsOf(toEngine, Request) /\ DistinctIn(toEngine, Request)
    BY DEF BusyIds, PipeIds, DistinctInv
  <2> QED
    BY <2>1, TypedQueues, AppendIds
<1>4. MarkInv'
  BY <1>2, PipeMarksKept DEF FromShrinks, MarkInv, TaskAnswers
<1>5. DistinctInv'
  <2>1. ASSUME ~SdkMayFail PROVE OnceInv'
    <3>1. /\ OnceInv /\ DistinctIn(fromEngine', Answers)
          /\ IdsOf(fromEngine', Answers) \subseteq IdsOf(fromEngine, Answers)
      BY <2>1 DEF FromShrinks, DistinctInv
    <3>2. /\ request.id \notin TaskIds \cup StopIds
          /\ request.id \notin IdsOf(fromEngine, Answers)
      BY DEF BusyIds, PipeIds
    <3> QED
      BY <1>1, <1>3, <3>1, <3>2 DEF OnceInv
  <2> QED
    BY <1>3, <2>1 DEF DistinctInv
<1>6. /\ PipeIds' \subseteq PipeIds \cup {request.id}
      /\ SourceIds' = SourceIds \cup {request.id}
      /\ EngineIds' \subseteq EngineIds \cup {request.id}
  BY <1>1, <1>3 DEF FromShrinks, PipeIds, SourceIds, EngineIds
<1>7. HeldInv'
  BY <1>1, <1>3 DEF HeldInv, HeldIds, SourceIds, EngineIds, BusyIds, IdOf
<1>8. ClosedInv'
  <2>1. ASSUME NEW message \in Elements(fromEngine') \cap Ends
        PROVE  message.id \notin SourceIds'
    <3>1. message \in Elements(fromEngine) \cap Ends /\ message \in Events
      BY <2>1 DEF FromShrinks, Ends
    <3>2. message.id \in EngineIds /\ message.id \notin SourceIds
      BY <3>1 DEF ClosedInv, EngineIds, IdsOf
    <3> QED
      BY <1>6, <3>2 DEF BusyIds
  <2> QED
    BY <2>1 DEF FromShrinks, ClosedInv
<1> QED
  BY <1>4, <1>5, <1>6, <1>7, <1>8 DEF Sends

\* the answer that is taken from the pipe was there once
LEMMA AnswerLeavesPipe ==
    ASSUME Typed, ~SdkMayFail, DistinctInv, ClosedInv, Receives("response"),
           UNCHANGED <<toEngine, channelVars>>
    PROVE  Received.id \in PipeIds \ PipeIds'
<1>1. /\ Received.id \in IdsOf(fromEngine, Answers)
      /\ Received.id \notin IdsOf(fromEngine', Answers)
  BY ReceivesShrinks
<1>2. StopIds' = StopIds /\ TaskIds' = TaskIds
  BY DEF StopIds, TaskIds, TaskAnswers, channelVars
<1>3. /\ Received.id \notin TaskIds \cup StopIds
      /\ Received.id \notin IdsOf(toEngine, Request)
  BY <1>1 DEF DistinctInv, OnceInv
<1> QED
  BY <1>1, <1>2, <1>3 DEF PipeIds

\* a request moves between the places, and not to one of another request
LEMMA StayApart ==
    ASSUME ApartInv, NEW added, Sends(added), added \subseteq Sent, Sent' = Sent,
           FreshIds' \subseteq FreshIds \ added,
           WaitIds' \subseteq (WaitIds \cup FreshIds) \ added
    PROVE  ApartInv'
  BY DEF ApartInv, Sends, BusyIds
Hears(told) ==
    \A id \in Ids \ told : answers'[id] = answers[id] /\ recognition'[id] = recognition[id]

LEMMA FreshStays ==
    ASSUME Typed, NEW told, Hears(told), UNCHANGED <<next_id, terminated>>,
           NEW request, Fresh(request), request.id \notin told
    PROVE  Fresh(request)'
<1>1. Sent' = Sent /\ Sent \subseteq Ids
  BY SentFacts
<1> QED
  BY <1>1 DEF Fresh, Hears

LEMMA WaitStays ==
    ASSUME Typed, NEW told, Hears(told), next_id' = next_id,
           NEW request, Waits(request), request.id \notin told
    PROVE  Waits(request)'
<1>1. Sent' = Sent /\ Sent \subseteq Ids
  BY SentFacts
<1> QED
  BY <1>1 DEF Waits, Hears

\* the answer pops the next request; it was not told about
LEMMA PopFresh ==
    ASSUME Typed, FreshInv, PopRequest, UNCHANGED <<next_id, terminated>>,
           NEW told, Hears(told), told \cap IdsOf(request_queue, Request) = {}
    PROVE  FreshInv' /\ FreshIds' \subseteq IdsOf(request_queue, Request)
<1>1. request_queue \in Seq(Request) /\ Elements(request_queue) \subseteq Request
  BY TypedQueues DEF Elements
<1>2. \A request \in Elements(request_queue) : Fresh(request)'
  BY <1>1, FreshStays DEF FreshInv, IdsOf
<1>3. CASE request_queue = <<>>
  <2>1. dispatching' = FALSE /\ request_queue' = request_queue
    BY <1>3, Zenon DEF PopRequest
  <2> QED
    BY <1>2, <2>1 DEF FreshInv, FreshIds
<1>4. CASE request_queue # <<>>
  <2>1. /\ dispatching' = TRUE
        /\ in_progress' = Head(request_queue) /\ request_queue' = Tail(request_queue)
    BY <1>4, Zenon DEF PopRequest
  <2>2. /\ Head(request_queue) \in Elements(request_queue)
        /\ Elements(request_queue') \subseteq Elements(request_queue)
    BY <1>1, <1>4, <2>1, QueueElements
  <2>3. /\ IdsOf(request_queue', Request) \subseteq IdsOf(request_queue, Request)
        /\ Head(request_queue).id \in IdsOf(request_queue, Request)
        /\ DistinctIn(request_queue', Request)
        /\ Head(request_queue).id \notin IdsOf(request_queue', Request)
    BY <1>1, <1>4, <2>1, <2>2, TailIds DEF FreshInv
  <2> QED
    BY <1>2, <2>1, <2>2, <2>3 DEF FreshInv, FreshIds
<1> QED
  BY <1>3, <1>4

\* what an answer does for the client
LEMMA RespondTold ==
    ASSUME Typed, sm_active, NEW response \in EngineMessage, NEW stopped,
           Respond(response, stopped), UNCHANGED <<next_id, terminated>>,
           response.id \in Sent, \A id \in stopped : recognition[id] # "none",
           response.method = "RECOGNIZE" => recognition[response.id] # "none"
    PROVE  /\ PopRequest /\ active_request' = NULL
           /\ answers' = [answers EXCEPT ![response.id] = answers[response.id] + 1]
           /\ \A id \in Ids :
                 recognition'[id] = IF id \in stopped THEN "COMPLETE"
                               ELSE IF id = response.id /\ response.method = "RECOGNIZE"
                                    THEN response.state ELSE recognition[id]
           /\ recognition' \in [Ids -> {"none", "asked"} \cup RequestStates]
           /\ Hears(stopped \cup {response.id})
           /\ KeepsMarks
<1>1. SendResponse(response) /\ TellClient(response, stopped) /\ active_request' = NULL
  BY Zenon DEF Respond
<1>2. /\ PopRequest
      /\ answers' = [answers EXCEPT ![response.id] = answers[response.id] + 1]
  BY <1>1 DEF SendResponse
<1>3. /\ \A id \in Ids :
            recognition'[id] = IF id \in stopped THEN "COMPLETE"
                          ELSE IF id = response.id /\ response.method = "RECOGNIZE"
                               THEN response.state ELSE recognition[id]
  BY <1>1 DEF TellClient
<1>4. answers \in [Ids -> Nat] /\ response.state \in RequestStates
  BY DEF Typed, TypeOK, MachineTypeOK, SessionTypeOK, EngineMessage
<1>5. Hears(stopped \cup {response.id})
  BY <1>2, <1>3, <1>4 DEF Hears
<1>6. \A id \in Sent : (recognition'[id] = "none") <=> (recognition[id] = "none")
  BY <1>3, <1>4, SentFacts DEF RequestStates
<1>7. recognition' \in [Ids -> {"none", "asked"} \cup RequestStates]
  BY RespondTypes DEF Typed, TypeOK, MachineTypeOK, ClientTypeOK
<1> QED
  BY <1>1, <1>2, <1>3, <1>5, <1>6, <1>7, NullAssumption DEF KeepsMarks

\* whatever becomes of a request that is not in progress, the recognition stays
LEMMA RecogStays ==
    ASSUME Typed, PlacesInv, NEW added, Sends(added), added \subseteq FreshIds \cup WaitIds,
           Unmoved \/ ForgetRecognized, next_id' = next_id,
           sm_state = "RECOGNIZING" => recognition[recog.id] \in {"PENDING", "IN-PROGRESS"},
           FreshIds' \subseteq FreshIds, WaitIds' \subseteq WaitIds \cup FreshIds,
           \A id \in Ids : \/ recognition'[id] = recognition[id]
                           \/ id \in FreshIds \cup WaitIds /\ recognition'[id] # "IN-PROGRESS"
    PROVE  RecogInv'
<1>1. Sent' = Sent /\ Sent \subseteq Ids
  BY SentFacts
<1>2. RecogInv
  BY DEF PlacesInv
<1>3. \A id \in Ids : recognition'[id] = "IN-PROGRESS" => recognition[id] = "IN-PROGRESS"
  OBVIOUS
<1>4. CASE Unmoved
  <2>1. recog # NULL => /\ recog.id \in Sent /\ recog.id \notin FreshIds \cup WaitIds
                        /\ recognition'[recog.id] = recognition[recog.id]
    BY <1>1, <1>2 DEF RecogInv
  <2>2. sm_state # "IDLE" => recog # NULL
    BY DEF Typed, RecogState
  <2>3. EngineIds' \subseteq EngineIds \cup added
    BY DEF Sends
  <2> QED
    BY <1>1, <1>2, <1>3, <1>4, <2>1, <2>2, <2>3 DEF RecogInv, Known, Unmoved
<1>5. CASE sm_state = "RECOGNIZED" /\ sm_state' = "IDLE" /\ recog' = NULL
  BY <1>2, <1>3, <1>5 DEF RecogInv
<1> QED
  BY <1>4, <1>5 DEF ForgetRecognized

-----------------------------------------------------------------------------
(* Requests that are sent to the engine.                                   *)

Forwards ==
    /\ dispatching /\ Forward /\ RequestFrame /\ UNCHANGED <<recog_queue, channelVars>>
    /\ in_progress.method # "TERMINATE"
    /\ in_progress.method = "RECOGNIZE" => sm_state # "RECOGNIZING" /\ Unmoved
    /\ Unmoved \/ ForgetRecognized

LEMMA ForwardService ==
    ASSUME Typed, PlacesInv, Forwards
    PROVE  PlacesInv' /\ UNCHANGED <<answers, recognition, next_id>>
<1>1. /\ toEngine' = Append(toEngine, in_progress) /\ active_request' = in_progress
      /\ ~dispatching'
      /\ UNCHANGED <<in_progress, request_queue, answers, recognition, recog_queue, sm_active,
                     is_pending, deferred, fromEngine, next_id, terminated, channelVars>>
  BY DEF Forwards, Forward, SendToEngine, RequestFrame
<1>2. /\ in_progress \in Request /\ in_progress # NULL
      /\ Fresh(in_progress) /\ in_progress.id \in FreshIds
  BY NullAssumption DEF Forwards, Typed, DispatchesRequest, PlacesInv, FreshInv, FreshIds
<1>3. /\ in_progress.id \in Sent /\ answers[in_progress.id] = 0
      /\ recognition[in_progress.id] = IF in_progress.method = "RECOGNIZE" THEN "asked" ELSE "none"
  BY <1>2 DEF Forwards, Fresh
<1>4. in_progress.id \notin BusyIds
  BY <1>2 DEF PlacesInv, ApartInv
<1>5. /\ MarkInv /\ DistinctInv /\ HeldInv /\ ClosedInv
      /\ KeepsMarks /\ FromShrinks /\ Sent' = Sent
  <2>1. FromShrinks /\ MarkInv /\ DistinctInv /\ HeldInv /\ ClosedInv
    BY <1>1, NothingTaken
  <2> QED
    BY <1>1, <1>4, <2>1, SentFacts DEF KeepsMarks, BusyIds
<1>6. PICK request \in Request :
          /\ request = in_progress /\ request = active_request' /\ request = in_progress'
          /\ toEngine' = Append(toEngine, request)
  BY <1>1, <1>2
<1>7. Sends({request.id})
  <2>1. Marked(request)'
    BY <1>1, <1>3, <1>5, <1>6 DEF Marked
  <2> QED
    BY <1>1, <1>4, <1>5, <1>6, <2>1, RequestSent
<1>8. FreshInv' /\ FreshIds' \subseteq FreshIds \ {request.id}
  <2>1. \A other : Fresh(other) => Fresh(other)'
    BY <1>1, <1>5 DEF Fresh
  <2>2. FreshInv'
    BY <1>1, <2>1 DEF PlacesInv, FreshInv
  <2>3. FreshIds' = IdsOf(request_queue, Request)
    BY <1>1 DEF FreshIds
  <2>4. in_progress.id \notin IdsOf(request_queue, Request)
    BY DEF Forwards, PlacesInv, FreshInv
  <2> QED
    BY <1>6, <2>2, <2>3, <2>4 DEF FreshIds
<1>9. WaitInv' /\ WaitIds' = WaitIds /\ request.id \notin WaitIds
  <2>1. WaitInv' /\ WaitIds' = WaitIds
    BY <1>1, <1>5 DEF PlacesInv, WaitInv, WaitIds, Waits
  <2>2. \A id \in WaitIds : recognition[id] = "PENDING"
    BY DEF PlacesInv, WaitInv, WaitIds, Waits, IdsOf
  <2> QED
    BY <1>3, <1>6, <2>1, <2>2
<1>10. ApartInv'
  <2>1. PICK added : added = {request.id}
    OBVIOUS
  <2>2. /\ ApartInv /\ Sends(added) /\ added \subseteq Sent
        /\ FreshIds' \subseteq FreshIds \ added
        /\ WaitIds' \subseteq (WaitIds \cup FreshIds) \ added
    BY <1>3, <1>6, <1>7, <1>8, <1>9, <2>1 DEF PlacesInv
  <2> QED
    BY <1>5, <2>2, StayApart
<1>11. ActiveInv'
  <2>1. Owed(request.id)'
    BY <1>1, <1>2, <1>3, <1>6 DEF Owed
  <2>2. recognition[request.id] # "none" => sm_state' # "RECOGNIZING"
    BY <1>3, <1>6 DEF Forwards, Unmoved
  <2> QED
    BY <1>1, <1>6, <2>1, <2>2 DEF ActiveInv
<1>12. RecogInv'
  <2>1. PICK added : added = {request.id}
    OBVIOUS
  <2>2. Sends(added) /\ added \subseteq FreshIds \cup WaitIds
    BY <1>2, <1>6, <1>7, <2>1
  <2>3. (Unmoved \/ ForgetRecognized) /\ next_id' = next_id
    BY <1>1 DEF Forwards
  <2>4. FreshIds' \subseteq FreshIds /\ WaitIds' \subseteq WaitIds \cup FreshIds
    BY <1>8, <1>9
  <2>5. \A id \in Ids : \/ recognition'[id] = recognition[id]
                        \/ id \in FreshIds \cup WaitIds /\ recognition'[id] # "IN-PROGRESS"
    BY <1>1
  <2>6. sm_state = "RECOGNIZING" => recognition[recog.id] \in {"PENDING", "IN-PROGRESS"}
    BY DEF Forwards, PlacesInv, RecogInv, Known
  <2> QED
    BY <2>2, <2>3, <2>4, <2>5, <2>6, RecogStays
<1> QED
  BY <1>1, <1>7, <1>8, <1>9, <1>10, <1>11, <1>12 DEF PlacesInv, Sends

-----------------------------------------------------------------------------
(* Requests that the machine answers itself.                               *)

LEMMA FreshNotWaiting ==
    ASSUME Typed, PlacesInv
    PROVE  FreshIds \cap WaitIds = {}
<1>1. \A id \in WaitIds : id \in Sent /\ recognition[id] = "PENDING"
  BY DEF PlacesInv, WaitInv, WaitIds, Waits, IdsOf
<1>2. \A id \in FreshIds : id \in Sent => recognition[id] # "PENDING"
  <2>1. \A request : Fresh(request) /\ request.id \in Sent => recognition[request.id] # "PENDING"
    BY DEF Fresh, Sent
  <2> QED
    BY <2>1 DEF PlacesInv, FreshInv, FreshIds, IdsOf
<1> QED
  BY <1>1, <1>2

AnswersAtOnce(state, stopped) ==
    /\ dispatching /\ in_progress.method # "TERMINATE"
    /\ in_progress.method = "RECOGNIZE" => state = "PENDING"
    /\ AnswerAtOnce(state, stopped)
    /\ stopped \subseteq IdsOf(recog_queue, Request)
    /\ Unmoved \/ ForgetRecognized
    /\ RequestFrame /\ UNCHANGED channelVars

LEMMA AtOnceService ==
    ASSUME Typed, PlacesInv, sm_active, NEW state \in {"PENDING", "COMPLETE"},
           NEW stopped, AnswersAtOnce(state, stopped)
    PROVE  /\ in_progress \in Request /\ in_progress.id \in Sent \ stopped
           /\ recognition[in_progress.id] = IF in_progress.method = "RECOGNIZE" THEN "asked" ELSE "none"
           /\ in_progress.id \notin WaitIds
           /\ answers[in_progress.id] = 0
           /\ answers' = [answers EXCEPT ![in_progress.id] = 1]
           /\ stopped \subseteq Ids /\ \A id \in stopped : recognition[id] = "PENDING"
           /\ \A id \in Ids :
                 recognition'[id] = IF id \in stopped THEN "COMPLETE"
                               ELSE IF id = in_progress.id /\ in_progress.method = "RECOGNIZE"
                                    THEN state ELSE recognition[id]
           /\ recognition' \in [Ids -> {"none", "asked"} \cup RequestStates]
           /\ Hears(stopped \cup {in_progress.id}) /\ next_id' = next_id
           /\ WaitInv' /\ WaitIds' \subseteq WaitIds \cup {in_progress.id} => PlacesInv'
<1> DEFINE response == Response(in_progress, state)
           told == stopped \cup {in_progress.id}
<1>1. /\ Respond(response, stopped)
      /\ UNCHANGED <<toEngine, sm_active, is_pending, deferred, fromEngine, next_id,
                     terminated, channelVars>>
  BY DEF AnswersAtOnce, AnswerAtOnce, RequestFrame
<1>2. /\ in_progress \in Request
      /\ Fresh(in_progress) /\ in_progress.id \in FreshIds
      /\ in_progress.id \notin IdsOf(request_queue, Request)
  BY DEF AnswersAtOnce, Typed, DispatchesRequest, PlacesInv, FreshInv, FreshIds
<1>3. /\ in_progress.id \in Sent /\ answers[in_progress.id] = 0
      /\ recognition[in_progress.id] = IF in_progress.method = "RECOGNIZE" THEN "asked" ELSE "none"
  BY <1>2 DEF AnswersAtOnce, Fresh
<1>4. in_progress.id \notin WaitIds /\ in_progress.id \notin BusyIds
  BY <1>2, FreshNotWaiting DEF PlacesInv, ApartInv
<1>5. stopped \subseteq WaitIds
  BY DEF AnswersAtOnce, WaitIds
<1>6. Sent \subseteq Ids /\ \A id \in stopped : id \in Sent /\ recognition[id] = "PENDING"
  BY <1>5, SentFacts DEF PlacesInv, WaitInv, WaitIds, Waits, IdsOf
<1>7. /\ response \in EngineMessage /\ response.id = in_progress.id
      /\ response.method = in_progress.method /\ response.state = state
  BY <1>2, MessageTypes DEF Response, RequestStates
<1>8. /\ PopRequest /\ active_request' = NULL
      /\ answers' = [answers EXCEPT ![in_progress.id] = answers[in_progress.id] + 1]
      /\ \A id \in Ids :
            recognition'[id] = IF id \in stopped THEN "COMPLETE"
                          ELSE IF id = in_progress.id /\ in_progress.method = "RECOGNIZE"
                               THEN state ELSE recognition[id]
      /\ recognition' \in [Ids -> {"none", "asked"} \cup RequestStates]
      /\ Hears(told)
      /\ KeepsMarks
  <2>1. \A id \in stopped : recognition[id] # "none"
    BY <1>6
  <2>2. response.method = "RECOGNIZE" => recognition[response.id] # "none"
    BY <1>3, <1>7
  <2>3. response.id \in Sent
    BY <1>3, <1>7
  <2>4. UNCHANGED <<next_id, terminated>>
    BY <1>1
  <2>5. /\ PopRequest /\ active_request' = NULL
        /\ answers' = [answers EXCEPT ![response.id] = answers[response.id] + 1]
        /\ \A id \in Ids :
              recognition'[id] = IF id \in stopped THEN "COMPLETE"
                            ELSE IF id = response.id /\ response.method = "RECOGNIZE"
                                 THEN response.state ELSE recognition[id]
        /\ recognition' \in [Ids -> {"none", "asked"} \cup RequestStates]
        /\ Hears(stopped \cup {response.id})
        /\ KeepsMarks
    BY <1>1, <1>7, <2>1, <2>2, <2>3, <2>4, RespondTold
  <2> QED
    BY <1>7, <2>5
<1>9. FreshInv' /\ FreshIds' \subseteq IdsOf(request_queue, Request)
  <2>1. told \cap IdsOf(request_queue, Request) = {}
    BY <1>2, <1>5, FreshNotWaiting DEF FreshIds
  <2> QED
    BY <1>1, <1>8, <2>1, PopFresh DEF PlacesInv
<1>10. Sends({})
  <2>1. FromShrinks /\ MarkInv /\ DistinctInv /\ HeldInv /\ ClosedInv
    BY <1>1, NothingTaken
  <2> QED
    BY <1>1, <1>8, <2>1, NothingSent
<1>11. PICK nothing : nothing = {} /\ Sends(nothing)
  BY <1>10
<1>12. ASSUME WaitInv', WaitIds' \subseteq WaitIds \cup {in_progress.id}
       PROVE  PlacesInv'
  <2>1. FreshIds' \subseteq FreshIds /\ WaitIds' \subseteq WaitIds \cup FreshIds
    BY <1>2, <1>9, <1>12 DEF FreshIds
  <2>2. ApartInv'
    <3>1. ApartInv /\ nothing \subseteq Sent /\ Sent' = Sent
      BY <1>1, <1>11, SentFacts DEF PlacesInv
    <3>2. /\ FreshIds' \subseteq FreshIds \ nothing
          /\ WaitIds' \subseteq (WaitIds \cup FreshIds) \ nothing
      BY <1>11, <2>1
    <3> QED
      BY <1>11, <3>1, <3>2, StayApart
  <2>3. RecogInv'
    <3>1. /\ Unmoved \/ ForgetRecognized
          /\ next_id' = next_id /\ nothing \subseteq FreshIds \cup WaitIds
      BY <1>1, <1>11 DEF AnswersAtOnce
    <3>2. \A id \in Ids : \/ recognition'[id] = recognition[id]
                          \/ id \in FreshIds \cup WaitIds /\ recognition'[id] # "IN-PROGRESS"
      BY <1>2, <1>5, <1>8
    <3>3. sm_state = "RECOGNIZING" => recognition[recog.id] \in {"PENDING", "IN-PROGRESS"}
      BY DEF AnswersAtOnce, PlacesInv, RecogInv, Known
    <3> QED
      BY <1>11, <2>1, <3>1, <3>2, <3>3, RecogStays
  <2>4. ActiveInv'
    BY <1>8 DEF ActiveInv
  <2> QED
    BY <1>9, <1>10, <1>12, <2>2, <2>3, <2>4 DEF PlacesInv, Sends
<1> QED
  BY <1>1, <1>2, <1>3, <1>4, <1>6, <1>8, <1>12

\* a step of the server keeps the invariant and is one of the service
Serves == ServiceInv' /\ [Service!ServiceNext]_<<answers, recognition>>

\* what the client has not asked for is not told about
LEMMA FutureStays ==
    ASSUME Typed, FutureInv, NEW told, told \subseteq Sent, Hears(told), next_id' = next_id
    PROVE  FutureInv'
<1>1. \A id \in Ids : id >= next_id => id \notin told
  BY SentFacts, MessageAssumption DEF Sent, Ids
<1> QED
  BY <1>1 DEF FutureInv, Hears

LEMMA PendingService ==
    ASSUME Typed, ServiceInv, sm_active, UNCHANGED channelVars, RequestRecognize,
           sm_state = "RECOGNIZING"
    PROVE  Serves
<1>1. PlacesInv
  BY DEF ServiceInv
<1>2. /\ AnswersAtOnce("PENDING", {}) /\ in_progress.method = "RECOGNIZE"
      /\ recog_queue' = Append(recog_queue, in_progress)
      /\ deferred' = deferred /\ sm_active' = sm_active
  BY DEF RequestRecognize, Dispatches, AnswersAtOnce, RequestFrame
<1>3. /\ in_progress \in Request /\ in_progress.id \in Sent
      /\ recognition[in_progress.id] = "asked" /\ answers[in_progress.id] = 0
      /\ in_progress.id \notin WaitIds
      /\ answers' = [answers EXCEPT ![in_progress.id] = 1]
      /\ \A id \in Ids :
            recognition'[id] = IF id = in_progress.id THEN "PENDING" ELSE recognition[id]
      /\ recognition' \in [Ids -> {"none", "asked"} \cup RequestStates]
      /\ Hears({in_progress.id}) /\ next_id' = next_id
      /\ WaitInv' /\ WaitIds' \subseteq WaitIds \cup {in_progress.id} => PlacesInv'
  <2>0. PICK nobody : nobody = {}
    OBVIOUS
  <2>1. /\ in_progress \in Request /\ in_progress.id \in Sent \ nobody
        /\ recognition[in_progress.id]
             = IF in_progress.method = "RECOGNIZE" THEN "asked" ELSE "none"
        /\ in_progress.id \notin WaitIds
        /\ answers[in_progress.id] = 0
        /\ answers' = [answers EXCEPT ![in_progress.id] = 1]
        /\ \A id \in Ids :
              recognition'[id] = IF id \in nobody THEN "COMPLETE"
                            ELSE IF id = in_progress.id /\ in_progress.method = "RECOGNIZE"
                                 THEN "PENDING" ELSE recognition[id]
        /\ recognition' \in [Ids -> {"none", "asked"} \cup RequestStates]
        /\ Hears(nobody \cup {in_progress.id}) /\ next_id' = next_id
        /\ WaitInv' /\ WaitIds' \subseteq WaitIds \cup {in_progress.id} => PlacesInv'
    <3>1. sm_active /\ "PENDING" \in {"PENDING", "COMPLETE"}
      OBVIOUS
    <3>2. AnswersAtOnce("PENDING", nobody)
      BY <1>2, <2>0
    <3> QED
      BY <1>1, <3>1, <3>2, AtOnceService, Zenon
  <2>2. nobody \cup {in_progress.id} = {in_progress.id}
    BY <2>0
  <2> QED
    BY <1>2, <2>0, <2>1, <2>2
<1>4. in_progress.id \in Ids /\ Sent' = Sent /\ Sent \subseteq Ids
  BY <1>3, SentFacts
<1>5. /\ IdsOf(recog_queue', Request) = IdsOf(recog_queue, Request) \cup {in_progress.id}
      /\ DistinctIn(recog_queue', Request)
      /\ Elements(recog_queue') = Elements(recog_queue) \cup {in_progress}
      /\ Elements(recog_queue) \subseteq Request
  <2>1. recog_queue \in Seq(Request) /\ Elements(recog_queue) \subseteq Request
    BY TypedQueues DEF Elements
  <2>2. DistinctIn(recog_queue, Request) /\ in_progress.id \notin IdsOf(recog_queue, Request)
    BY <1>1, <1>3 DEF PlacesInv, WaitInv, WaitIds
  <2> QED
    BY <1>2, <1>3, <2>1, <2>2, AppendIds, QueueElements
<1>6. WaitInv' /\ WaitIds' \subseteq WaitIds \cup {in_progress.id}
  <2>1. PICK request : request = in_progress
    OBVIOUS
  <2>2. PICK pending : pending = deferred
    OBVIOUS
  <2>3. Waits(request)'
    BY <1>2, <1>3, <1>4, <2>1 DEF Waits
  <2>4. ASSUME NEW other, Waits(other), other.id # in_progress.id
        PROVE  Waits(other)'
    BY <1>3, <2>4, WaitStays
  <2>5. \A other \in Elements(recog_queue) : Waits(other)'
    BY <1>1, <1>3, <1>5, <2>4 DEF PlacesInv, WaitInv, WaitIds, IdsOf
  <2>6. pending # NULL => /\ Waits(pending) /\ pending.id # in_progress.id
                          /\ pending.id \notin IdsOf(recog_queue, Request)
    BY <1>1, <1>3, <2>2 DEF PlacesInv, WaitInv, WaitIds
  <2>7. pending # NULL => Waits(pending)'
    BY <2>4, <2>6
  <2>8. \A other \in Elements(recog_queue') : Waits(other)'
    BY <1>5, <2>1, <2>3, <2>5
  <2>9. pending = deferred'
    BY <1>2, <2>2
  <2>10. WaitInv'
    BY <1>5, <2>6, <2>7, <2>8, <2>9 DEF WaitInv
  <2>11. WaitIds' \subseteq WaitIds \cup {in_progress.id}
    BY <1>2, <1>5 DEF WaitIds
  <2> QED
    BY <2>10, <2>11
<1>7. FutureInv'
  BY <1>3, FutureStays DEF ServiceInv
<1>8. Service!AnswerRecognize(in_progress.id)
  <2>1. recognition' = [recognition EXCEPT ![in_progress.id] = "PENDING"]
    BY <1>3, <1>4 DEF Typed, TypeOK, MachineTypeOK
  <2>2. Service!Behind(in_progress.id)
    <3>1. dispatching /\ in_progress.id \in FreshIds
      BY DEF RequestRecognize, Dispatches, FreshIds
    <3>2. recog # NULL
      BY DEF Typed, RecogState
    <3>3. /\ recog.id \in Ids /\ recog.id # in_progress.id
          /\ recognition[recog.id] \in {"PENDING", "IN-PROGRESS"}
      BY <1>1, <1>4, <3>1, <3>2 DEF PlacesInv, RecogInv, Known
    <3> QED
      BY <3>3 DEF Service!Behind
  <2> QED
    BY <1>3, <2>1, <2>2 DEF Service!AnswerRecognize, Service!Answer
<1> QED
  BY <1>2, <1>3, <1>4, <1>6, <1>7, <1>8 DEF Serves, ServiceInv, Service!ServiceNext

LEMMA StopAtOnceService ==
    ASSUME Typed, ServiceInv, sm_active, UNCHANGED channelVars,
           in_progress.method # "RECOGNIZE",
           NEW stopped, AnswersAtOnce("COMPLETE", stopped),
           \/ stopped = {} /\ recog_queue' = recog_queue
           \/ stopped = Removed(in_progress) /\ recog_queue' \in Remainders(in_progress)
    PROVE  Serves
<1>1. PlacesInv
  BY DEF ServiceInv
<1>2. deferred' = deferred /\ sm_active' = sm_active
  BY DEF AnswersAtOnce, RequestFrame
<1>3. /\ in_progress \in Request /\ in_progress.id \in Sent \ stopped
      /\ recognition[in_progress.id] = "none" /\ answers[in_progress.id] = 0
      /\ in_progress.id \notin WaitIds
      /\ answers' = [answers EXCEPT ![in_progress.id] = 1]
      /\ stopped \subseteq Ids /\ \A id \in stopped : recognition[id] = "PENDING"
      /\ \A id \in Ids :
            recognition'[id] = IF id \in stopped THEN "COMPLETE" ELSE recognition[id]
      /\ recognition' \in [Ids -> {"none", "asked"} \cup RequestStates]
      /\ Hears(stopped \cup {in_progress.id}) /\ next_id' = next_id
      /\ WaitInv' /\ WaitIds' \subseteq WaitIds \cup {in_progress.id} => PlacesInv'
  BY <1>1, AtOnceService
<1>4. in_progress.id \in Ids /\ Sent' = Sent /\ Sent \subseteq Ids
  BY <1>3, SentFacts
<1>5. recog_queue \in Seq(Request) /\ Elements(recog_queue) \subseteq Request
  BY TypedQueues DEF Elements
<1>6. /\ Elements(recog_queue') \subseteq Elements(recog_queue)
      /\ DistinctIn(recog_queue', Request)
      /\ IdsOf(recog_queue', Request) \subseteq IdsOf(recog_queue, Request)
      /\ stopped \cap IdsOf(recog_queue', Request) = {}
      /\ stopped \subseteq IdsOf(recog_queue, Request)
  <2>1. DistinctIn(recog_queue, Request)
    BY <1>1 DEF PlacesInv, WaitInv
  <2>2. CASE stopped = {} /\ recog_queue' = recog_queue
    BY <2>1, <2>2
  <2>3. CASE stopped = Removed(in_progress) /\ recog_queue' \in Remainders(in_progress)
    <3>1. Elements(recog_queue') \subseteq Elements(recog_queue)
      BY <1>5, <2>3, RemainderIsQueue
    <3> QED
      BY <1>5, <2>1, <2>3, <3>1, RemainderIds
  <2> QED
    BY <2>2, <2>3
<1>7. WaitInv' /\ WaitIds' \subseteq WaitIds
  <2>1. ASSUME NEW request, Waits(request),
               request.id \notin stopped, request.id # in_progress.id
        PROVE  Waits(request)'
    BY <1>3, <2>1, WaitStays
  <2>2. ASSUME NEW request \in Elements(recog_queue')
        PROVE  Waits(request)'
    <3>1. request.id \in IdsOf(recog_queue', Request)
      BY <1>5, <1>6 DEF IdsOf
    <3>2. request.id \notin stopped /\ request.id # in_progress.id
      BY <1>3, <1>6, <3>1 DEF WaitIds
    <3> QED
      BY <1>1, <1>6, <2>1, <3>2 DEF PlacesInv, WaitInv
  <2>3. PICK pending : pending = deferred /\ pending = deferred'
    BY <1>2
  <2>4. pending # NULL => /\ Waits(pending) /\ pending.id \in WaitIds
                          /\ pending.id \notin IdsOf(recog_queue, Request)
    BY <1>1, <2>3 DEF PlacesInv, WaitInv, WaitIds
  <2>5. pending # NULL => Waits(pending)'
    BY <1>3, <1>6, <2>1, <2>4
  <2> QED
    BY <1>2, <1>6, <2>2, <2>3, <2>4, <2>5 DEF WaitInv, WaitIds
<1>8. FutureInv'
  <2>1. stopped \cup {in_progress.id} \subseteq Sent
    BY <1>1, <1>3, <1>6 DEF PlacesInv, WaitInv, Waits, IdsOf
  <2> QED
    BY <1>3, <2>1, FutureStays DEF ServiceInv
<1>9. Service!AnswerOther(in_progress.id, stopped)
  <2>1. recognition' = [other \in Ids |->
                     IF other \in stopped THEN "COMPLETE" ELSE recognition[other]]
    BY <1>3
  <2> QED
    BY <1>3, <2>1 DEF Service!AnswerOther, Service!Answer
<1> QED
  BY <1>2, <1>3, <1>4, <1>7, <1>8, <1>9 DEF Serves, ServiceInv, Service!ServiceNext

LEMMA DeferredStep == Typed /\ DeferredInv /\ [Next]_vars => DeferredInv'
<1> SUFFICES ASSUME DeferredInv, [Next]_vars PROVE DeferredInv'
  OBVIOUS
<1> USE DEF DeferredInv
<1>1. CASE UNCHANGED vars
  BY <1>1 DEF vars, serverVars, machineVars
<1>2. CASE ClientStep \/ PluginStep \/ MediaStep
  BY <1>2 DEF ClientStep, ClientNext, ClientRequest, ClientTerminate, PluginStep,
     MediaStep, serverVars, machineVars
<1>3. CASE Dispatch
  <2>1. deferred' # NULL => deferred' = deferred
    BY <1>3 DEF Dispatch, RequestRecognize, RequestStop, RequestDefineGrammar,
       RequestGetResult, RequestStartTimers, RequestParams, RequestIf, RequestFrame,
       Deactivate, StartDeferred
  <2>2. sm_state' \in {sm_state, "IDLE"}
    BY <1>3 DEF Dispatch, RequestRecognize, RequestStop, RequestDefineGrammar,
       RequestGetResult, RequestStartTimers, RequestParams, RequestIf, Deactivate,
       StartDeferred, Unmoved, ForgetRecognized
  <2> QED
    BY <2>1, <2>2
<1>4. CASE FromEngine
  <2>1. deferred = NULL
    BY <1>4 DEF FromEngine, ResponseUnexpected, ResponseRecognize, ResponseStop,
       ResponsePlain, EventStartOfInput, EventRecognitionComplete, EventUnexpected,
       ReceivesAnswer, Receives, Waiting
  <2>2. deferred' = deferred \/ sm_state' = "IDLE"
    BY <1>4 DEF FromEngine, ResponseUnexpected, ResponseRecognize, ResponseStop,
       ResponsePlain, EventStartOfInput, EventRecognitionComplete, EventUnexpected,
       serverVars, machineVars
  <2> QED
    BY <2>1, <2>2
<1> QED
  BY <1>1, <1>2, <1>3, <1>4 DEF Next, ServerStep, ServerNext

LEMMA DeferredService ==
    ASSUME Typed, ServiceInv, DeferredInv, sm_active, UNCHANGED channelVars, StartDeferred
    PROVE  Serves
<1>1. PlacesInv
  BY DEF ServiceInv
<1>2. PICK request : request = deferred
  OBVIOUS
<1>3. /\ ~dispatching /\ request # NULL
      /\ is_pending' = TRUE /\ active_request' = request /\ deferred' = NULL
      /\ toEngine' = Append(toEngine, request)
      /\ UNCHANGED <<in_progress, request_queue, dispatching, answers, recognition, recog_queue,
                     sm_active, fromEngine, next_id, terminated>>
  BY <1>2, Zenon DEF StartDeferred, SendToEngine, sessionVars, clientVars
<1>4. sm_state # "RECOGNIZING" /\ Unmoved
  BY <1>2, <1>3 DEF DeferredInv, StartDeferred
<1>5. /\ request \in Request /\ Waits(request) /\ request.id \in WaitIds
      /\ request.id \notin IdsOf(recog_queue, Request)
  BY <1>1, <1>2, <1>3
     DEF Typed, TypeOK, MachineTypeOK, PlacesInv, WaitInv, WaitIds
<1>6. request.id \notin BusyIds /\ request.id \notin FreshIds
  BY <1>1, <1>5, FreshNotWaiting DEF PlacesInv, ApartInv
<1>7. PICK added : added = {request.id}
  OBVIOUS
<1>8. Sends(added)
  <2>1. KeepsMarks
    BY <1>3, <1>6 DEF KeepsMarks, BusyIds
  <2>2. Marked(request)'
    BY <1>3, <1>5 DEF Marked, Waits, Sent
  <2>3. FromShrinks /\ MarkInv /\ DistinctInv /\ HeldInv /\ ClosedInv
    BY <1>1, <1>3, NothingTaken
  <2>4. Sends({request.id})
    BY <1>3, <1>5, <1>6, <2>1, <2>2, <2>3, RequestSent
  <2> QED
    BY <1>7, <2>4
<1>9. FreshInv' /\ FreshIds' = FreshIds
  BY <1>1, <1>3 DEF PlacesInv, FreshInv, FreshIds, Fresh, Sent
<1>10. WaitInv' /\ WaitIds' = WaitIds \ {request.id}
  BY <1>1, <1>2, <1>3, <1>5 DEF PlacesInv, WaitInv, WaitIds, Waits, Sent
<1>11. ApartInv'
  <2>1. ApartInv /\ added \subseteq Sent /\ Sent' = Sent
    BY <1>1, <1>3, <1>5, <1>7, SentFacts DEF PlacesInv, Waits
  <2>2. /\ FreshIds' \subseteq FreshIds \ added
        /\ WaitIds' \subseteq (WaitIds \cup FreshIds) \ added
    BY <1>6, <1>7, <1>9, <1>10
  <2> QED
    BY <1>8, <2>1, <2>2, StayApart
<1>12. ActiveInv'
  BY <1>3, <1>4, <1>5 DEF ActiveInv, Owed, Waits, Unmoved
<1>13. RecogInv'
  <2>1. added \subseteq FreshIds \cup WaitIds /\ next_id' = next_id
    BY <1>3, <1>5, <1>7
  <2>2. FreshIds' \subseteq FreshIds /\ WaitIds' \subseteq WaitIds \cup FreshIds
    BY <1>9, <1>10
  <2>3. \A id \in Ids : \/ recognition'[id] = recognition[id]
                        \/ id \in FreshIds \cup WaitIds /\ recognition'[id] # "IN-PROGRESS"
    BY <1>3
  <2> QED
    BY <1>1, <1>4, <1>8, <2>1, <2>2, <2>3, RecogStays
<1>14. FutureInv'
  BY <1>3 DEF ServiceInv, FutureInv
<1> QED
  BY <1>3, <1>8, <1>9, <1>10, <1>11, <1>12, <1>13, <1>14
     DEF Serves, ServiceInv, PlacesInv, Sends

LEMMA DispatchService ==
    ASSUME Typed, ServiceInv, DeferredInv, sm_active, UNCHANGED channelVars, Dispatch
    PROVE  Serves
<1>1. PlacesInv
  BY DEF ServiceInv
<1>2. ASSUME Forwards, UNCHANGED sm_active PROVE Serves
  <2>1. PlacesInv' /\ UNCHANGED <<answers, recognition, next_id>>
    BY <1>1, <1>2, ForwardService
  <2> QED
    BY <1>2, <2>1 DEF Serves, ServiceInv, FutureInv
\* a request that is no RECOGNIZE and stops nothing
<1>3. ASSUME NEW method \in RecogMethods \ {"RECOGNIZE"}, Dispatches(method),
             Forward \/ AnswerAtOnce("COMPLETE", {}), UNCHANGED recog_queue, RequestFrame,
             Unmoved \/ ForgetRecognized
      PROVE  Serves
  <2>1. method # "TERMINATE"
    BY DEF RecogMethods
  <2>2. CASE Forward
    <3>1. Forwards /\ UNCHANGED sm_active
      BY <1>3, <2>1, <2>2 DEF Dispatches, Forwards, RequestFrame
    <3> QED
      BY <1>2, <3>1
  <2>3. CASE AnswerAtOnce("COMPLETE", {})
    <3>1. PICK nobody : nobody = {}
      OBVIOUS
    <3>2. AnswersAtOnce("COMPLETE", nobody) /\ in_progress.method # "RECOGNIZE"
      BY <1>3, <2>1, <2>3, <3>1 DEF Dispatches, AnswersAtOnce
    <3> QED
      BY <1>3, <3>1, <3>2, StopAtOnceService
  <2> QED
    BY <1>3, <2>2, <2>3
<1>4. CASE RequestRecognize
  <2>1. CASE sm_state = "RECOGNIZING"
    BY <1>4, <2>1, PendingService
  <2>2. CASE sm_state # "RECOGNIZING"
    <3>1. Forwards /\ UNCHANGED sm_active
      BY <1>4, <2>2 DEF RequestRecognize, Dispatches, Forwards, RequestFrame
    <3> QED
      BY <1>2, <3>1
  <2> QED
    BY <2>1, <2>2
<1>5. CASE RequestStop
  <2>1. CASE Forward /\ Unmoved /\ UNCHANGED recog_queue
    <3>1. Forwards /\ UNCHANGED sm_active
      BY <1>5, <2>1 DEF RequestStop, Dispatches, Forwards, RequestFrame
    <3> QED
      BY <1>2, <3>1
  <2>2. CASE /\ ForgetRecognized
             /\ recog_queue' \in Remainders(in_progress)
             /\ AnswerAtOnce("COMPLETE", Removed(in_progress))
    <3>1. PICK stopped : stopped = Removed(in_progress)
      OBVIOUS
    <3>2. stopped \subseteq IdsOf(recog_queue, Request)
      BY <1>1, <2>2, <3>1, TypedQueues, RemainderIds DEF PlacesInv, WaitInv
    <3>3. AnswersAtOnce("COMPLETE", stopped) /\ in_progress.method # "RECOGNIZE"
      BY <1>5, <2>2, <3>1, <3>2 DEF RequestStop, Dispatches, AnswersAtOnce
    <3> QED
      BY <2>2, <3>1, <3>3, StopAtOnceService
  <2> QED
    BY <1>5, <2>1, <2>2 DEF RequestStop
<1>6. CASE Deactivate
  <2>1. ~sm_active' /\ UNCHANGED <<answers, recognition, next_id>>
    BY <1>6, Zenon DEF Deactivate, DeactivateSession
  <2> QED
    BY <2>1 DEF Serves, ServiceInv, FutureInv
<1>7. CASE StartDeferred
  BY <1>7, DeferredService
<1>8. CASE RequestDefineGrammar
  BY <1>3, <1>8 DEF RequestDefineGrammar, RecogMethods
<1>9. ASSUME NEW method \in RecogMethods \ {"RECOGNIZE"}, NEW valid, RequestIf(method, valid)
      PROVE  Serves
  BY <1>3, <1>9 DEF RequestIf
<1>10. CASE RequestGetResult \/ RequestStartTimers \/ RequestParams
  BY <1>9, <1>10 DEF RequestGetResult, RequestStartTimers, RequestParams, RecogMethods
<1> QED
  BY <1>4, <1>5, <1>6, <1>7, <1>8, <1>10 DEF Dispatch

-----------------------------------------------------------------------------
(* Messages of the engine.                                                 *)

\* a message is taken, and no request is sent
LEMMA ReceivesSends ==
    ASSUME Typed, PlacesInv, NEW kind, Receives(kind), KeepsMarks,
           UNCHANGED <<toEngine, channelVars>>
    PROVE  Sends({})
<1>1. MarkInv /\ DistinctInv /\ HeldInv /\ ClosedInv
  BY DEF PlacesInv
<1>2. FromShrinks
  BY <1>1, ReceivesShrinks
<1> QED
  BY <1>1, <1>2, NothingSent

\* the message says nothing to the client
LEMMA DroppedService ==
    ASSUME Typed, ServiceInv, sm_active, NEW kind, Receives(kind),
           UNCHANGED <<in_progress, request_queue, dispatching, sm_active, sm_state,
                       active_request, recog, recog_queue, is_pending, deferred, toEngine,
                       next_id, terminated, answers, recognition, channelVars>>
    PROVE  Serves
<1>1. PlacesInv
  BY DEF ServiceInv
<1>2. PICK nothing : nothing = {} /\ Sends(nothing)
  BY <1>1, ReceivesSends DEF KeepsMarks
<1>3. FreshInv' /\ FreshIds' = FreshIds
  BY <1>1 DEF PlacesInv, FreshInv, FreshIds, Fresh, Sent
<1>4. WaitInv' /\ WaitIds' = WaitIds
  BY <1>1 DEF PlacesInv, WaitInv, WaitIds, Waits, Sent
<1>5. ApartInv' /\ Sent' = Sent
  BY <1>1, <1>2, <1>3, <1>4 DEF PlacesInv, ApartInv, Sends, BusyIds, Sent
<1>6. ActiveInv'
  BY <1>1, <1>2 DEF PlacesInv, ActiveInv, Owed, Sends
<1>7. RecogInv'
  BY <1>1, <1>2, <1>3, <1>4, <1>5 DEF PlacesInv, RecogInv, Known, Sends
<1>8. FutureInv'
  BY DEF ServiceInv, FutureInv
<1> QED
  BY <1>2, <1>3, <1>4, <1>5, <1>6, <1>7, <1>8 DEF Serves, ServiceInv, PlacesInv, Sends

LEMMA AwaitedFacts ==
    ASSUME Typed, PlacesInv, Receives("response"), Awaited
    PROVE  /\ Received \in EngineMessage /\ Received.id \in Sent
           /\ active_request # NULL /\ active_request.id = Received.id
           /\ active_request.method = Received.method
           /\ Received.id \notin FreshIds /\ Received.id \notin WaitIds
           /\ Marked(Received) /\ Received.id \in PipeIds
           /\ Owed(Received.id)
           /\ recognition[Received.id] # "none" => sm_state # "RECOGNIZING"
<1>1. /\ Received \in Elements(fromEngine) /\ Received \in Answers
      /\ Received \in EngineMessage /\ Received.id \in PipeIds
  <2>1. DistinctInv /\ ClosedInv
    BY DEF PlacesInv
  <2> QED
    BY <2>1, ReceivesShrinks DEF PipeIds
<1>2. Marked(Received)
  BY <1>1 DEF PlacesInv, MarkInv
<1>3. active_request # NULL /\ active_request.id = Received.id
  BY DEF Awaited
<1>4. Received.id \notin FreshIds /\ Received.id \notin WaitIds
  BY <1>1 DEF PlacesInv, ApartInv, BusyIds
<1>5. Owed(Received.id) /\ (recognition[Received.id] # "none" => sm_state # "RECOGNIZING")
  BY <1>1, <1>3 DEF PlacesInv, ActiveInv
<1> QED
  BY <1>1, <1>2, <1>3, <1>4, <1>5 DEF Marked

\* a pending RECOGNIZE begins; its answer was given when it was queued
LEMMA SwallowedService ==
    ASSUME Typed, ~SdkMayFail, ServiceInv, sm_active, UNCHANGED channelVars,
           ResponseRecognize, is_pending
    PROVE  Serves
<1>1. PlacesInv
  BY DEF ServiceInv
<1>2. PICK id : id = Received.id
  OBVIOUS
<1>3. Receives("response") /\ Awaited /\ Received.method = "RECOGNIZE"
  BY DEF ResponseRecognize, ReceivesAnswer
<1>4. /\ id \in Sent /\ id \notin FreshIds /\ id \notin WaitIds
      /\ active_request # NULL /\ active_request.id = id
      /\ Owed(id) /\ recognition[id] # "none" /\ sm_state # "RECOGNIZING"
  BY <1>1, <1>2, <1>3, AwaitedFacts DEF Marked
<1>5. /\ \/ recog' = active_request /\ sm_state' = "RECOGNIZING"
         \/ Unmoved
      /\ UNCHANGED <<active_request, in_progress, request_queue, dispatching, answers,
                     recognition, recog_queue, deferred, sm_active, toEngine, next_id,
                     terminated>>
  <2>1. UNCHANGED <<active_request, sessionVars, answers, recognition>>
    BY Zenon DEF ResponseRecognize, AnswerRecognize
  <2> QED
    BY <2>1, Zenon DEF ResponseRecognize, ResponseFrame, sessionVars
<1>6. PICK nothing : nothing = {} /\ Sends(nothing)
  <2>1. KeepsMarks
    BY <1>5 DEF KeepsMarks
  <2> QED
    BY <1>1, <1>3, <1>5, <2>1, ReceivesSends
<1>7. id \notin PipeIds'
  BY <1>1, <1>2, <1>3, <1>5, AnswerLeavesPipe DEF PlacesInv
<1>8. FreshInv' /\ FreshIds' = FreshIds
  BY <1>1, <1>5 DEF PlacesInv, FreshInv, FreshIds, Fresh, Sent
<1>9. WaitInv' /\ WaitIds' = WaitIds
  BY <1>1, <1>5 DEF PlacesInv, WaitInv, WaitIds, Waits, Sent
<1>10. ApartInv' /\ Sent' = Sent
  BY <1>1, <1>5, <1>6, <1>8, <1>9 DEF PlacesInv, ApartInv, Sends, BusyIds, Sent
<1>11. ActiveInv'
  BY <1>4, <1>5, <1>7 DEF ActiveInv
<1>12. RecogInv'
  <2>1. Known(id)'
    BY <1>4, <1>5 DEF Owed, Known
  <2>2. EngineIds' \subseteq EngineIds
    BY <1>6 DEF Sends
  <2> QED
    BY <1>1, <1>4, <1>5, <1>8, <1>9, <1>10, <2>1, <2>2 DEF PlacesInv, RecogInv, Unmoved
<1>13. FutureInv'
  BY <1>5 DEF ServiceInv, FutureInv
<1> QED
  BY <1>5, <1>6, <1>8, <1>9, <1>10, <1>11, <1>12, <1>13
     DEF Serves, ServiceInv, PlacesInv, Sends

\* the pending RECOGNIZEs that an answer leaves
StillWait(stopped) ==
    /\ \A request \in Elements(recog_queue') : Waits(request) /\ request.id \notin stopped
    /\ DistinctIn(recog_queue', Request)
    /\ deferred' # NULL => /\ Waits(deferred') /\ deferred'.id \notin stopped
                           /\ deferred'.id \notin IdsOf(recog_queue', Request)
    /\ WaitIds' \subseteq WaitIds

LEMMA StillWaitService ==
    ASSUME Typed, PlacesInv, next_id' = next_id, recog_queue' \in Seq(Request),
           deferred' \in Request \cup {NULL},
           NEW stopped, NEW id, id \notin WaitIds,
           Hears(stopped \cup {id}), StillWait(stopped)
    PROVE  WaitInv'
<1>1. ASSUME NEW request, Waits(request), request.id \notin stopped, request.id # id
      PROVE  Waits(request)'
  BY <1>1, WaitStays
<1>2. \A request \in Elements(recog_queue') : Waits(request)'
  <2>1. \A request \in Elements(recog_queue') : request.id \in WaitIds'
    BY DEF WaitIds, IdsOf, Elements
  <2> QED
    BY <1>1, <2>1 DEF StillWait
<1>3. PICK request : request = deferred'
  OBVIOUS
<1>4. request # NULL => Waits(request) /\ request.id \notin stopped /\ request.id \in WaitIds
  BY <1>3 DEF StillWait, WaitIds
<1>5. request # NULL => Waits(request)'
  BY <1>1, <1>4
<1> QED
  BY <1>2, <1>3, <1>5 DEF StillWait, WaitInv

\* what becomes of the recognition when a request is answered
NextRecog(method, stopped) ==
    \/ /\ method = "RECOGNIZE" /\ ~is_pending
       /\ Received.state = "IN-PROGRESS" /\ stopped = {}
       /\ recog' = active_request /\ sm_state' = "RECOGNIZING"
    \/ /\ method = "RECOGNIZE" /\ ~is_pending
       /\ Received.state = "COMPLETE" /\ stopped = {} /\ Unmoved
    \/ method # "RECOGNIZE" /\ stopped = {} /\ Unmoved
    \/ /\ method # "RECOGNIZE" /\ sm_state = "RECOGNIZING" /\ recog.id \in stopped
       /\ recog' = NULL /\ sm_state' = "IDLE"

LEMMA RespondService ==
    ASSUME Typed, ServiceInv, sm_active, UNCHANGED <<channelVars, toEngine, sm_active,
                                                     next_id, terminated>>,
           NEW method, ReceivesAnswer({method}), NEW stopped, Respond(Received, stopped),
           NextRecog(method, stopped),
           stopped \subseteq WaitIds \cup (IF sm_state = "RECOGNIZING" THEN {recog.id} ELSE {}),
           recog_queue' \in Seq(Request), deferred' \in Request \cup {NULL},
           StillWait(stopped)
    PROVE  Serves
<1>1. PlacesInv
  BY DEF ServiceInv
<1>2. PICK id : id = Received.id
  OBVIOUS
<1>3. Receives("response") /\ Awaited /\ Received.method = method
  BY DEF ReceivesAnswer
<1>4. /\ Received \in EngineMessage
      /\ id \in Sent /\ id \notin FreshIds /\ id \notin WaitIds
      /\ active_request # NULL /\ active_request.id = id
      /\ Owed(id)
      /\ (method = "RECOGNIZE") <=> (recognition[id] # "none")
      /\ recognition[id] # "none" => sm_state # "RECOGNIZING"
  BY <1>1, <1>2, <1>3, AwaitedFacts DEF Marked
<1>5. /\ answers[id] = 0
      /\ recognition[id] = IF method = "RECOGNIZE" THEN "asked" ELSE "none"
  <2>1. method = "RECOGNIZE" => ~is_pending
    BY Zenon DEF NextRecog
  <2>2. \/ answers[id] = 0 /\ recognition[id] \in {"none", "asked"}
        \/ is_pending /\ recognition[id] = "PENDING"
    BY <1>4, Zenon DEF Owed
  <2> QED
    BY <1>4, <2>1, <2>2
<1>6. id \in Ids /\ Sent' = Sent /\ Sent \subseteq Ids
  BY <1>4, SentFacts
<1>7. /\ \A other \in stopped :
            /\ other \in Sent /\ other \notin FreshIds
            /\ recognition[other] \in {"asked", "PENDING", "IN-PROGRESS"}
      /\ id \notin stopped
  <2>1. \A other \in WaitIds : other \in Sent /\ recognition[other] = "PENDING"
    BY <1>1 DEF PlacesInv, WaitInv, WaitIds, Waits, IdsOf
  <2>2. \A other \in WaitIds : other \notin FreshIds
    BY <1>1, FreshNotWaiting
  <2>3. sm_state = "RECOGNIZING" =>
            /\ recog.id \in Sent /\ recog.id \notin FreshIds
            /\ recognition[recog.id] \in {"asked", "PENDING", "IN-PROGRESS"}
    BY <1>1 DEF PlacesInv, RecogInv, Known, Typed, RecogState
  <2>4. \A other \in stopped :
            /\ other \in Sent /\ other \notin FreshIds
            /\ recognition[other] \in {"asked", "PENDING", "IN-PROGRESS"}
    BY <2>1, <2>2, <2>3
  <2>5. id \notin stopped
    BY <1>4, <2>3
  <2> QED
    BY <2>4, <2>5
<1>8. /\ PopRequest /\ active_request' = NULL
      /\ answers' = [answers EXCEPT ![id] = 1]
      /\ \A other \in Ids :
            recognition'[other] = IF other \in stopped THEN "COMPLETE"
                             ELSE IF other = id /\ method = "RECOGNIZE"
                                  THEN Received.state ELSE recognition[other]
      /\ recognition' \in [Ids -> {"none", "asked"} \cup RequestStates]
      /\ Hears(stopped \cup {id})
      /\ KeepsMarks
  <2>1. \A other \in stopped : recognition[other] # "none"
    BY <1>7
  <2>2. Received.method = "RECOGNIZE" => recognition[Received.id] # "none"
    BY <1>2, <1>3, <1>4
  <2>3. Received.id \in Sent
    BY <1>2, <1>4
  <2>4. UNCHANGED <<next_id, terminated>>
    OBVIOUS
  <2>5. PICK response \in EngineMessage : response = Received /\ Respond(response, stopped)
    BY <1>4
  <2>6. /\ PopRequest /\ active_request' = NULL
        /\ answers' = [answers EXCEPT ![response.id] = answers[response.id] + 1]
        /\ \A other \in Ids :
              recognition'[other] = IF other \in stopped THEN "COMPLETE"
                               ELSE IF other = response.id /\ response.method = "RECOGNIZE"
                                    THEN response.state ELSE recognition[other]
        /\ recognition' \in [Ids -> {"none", "asked"} \cup RequestStates]
        /\ Hears(stopped \cup {response.id})
        /\ KeepsMarks
    <3>1. response.id \in Sent /\ (response.method = "RECOGNIZE" => recognition[response.id] # "none")
      BY <2>2, <2>3, <2>5
    <3> QED
      BY <2>1, <2>4, <2>5, <3>1, RespondTold
  <2>7. response.id = id /\ response.method = method /\ response.state = Received.state
    BY <1>2, <1>3, <2>5
  <2>8. answers[response.id] + 1 = 1
    BY <1>5, <2>7
  <2>9. Hears(stopped \cup {id}) /\ answers' = [answers EXCEPT ![id] = 1]
    BY <2>6, <2>7, <2>8, Zenon
  <2> QED
    BY <2>6, <2>7, <2>9
<1>9. PICK nothing : nothing = {} /\ Sends(nothing)
  BY <1>1, <1>3, <1>8, ReceivesSends
<1>10. FreshInv' /\ FreshIds' \subseteq FreshIds
  <2>1. (stopped \cup {id}) \cap IdsOf(request_queue, Request) = {}
    BY <1>4, <1>7 DEF FreshIds
  <2>2. FreshInv' /\ FreshIds' \subseteq IdsOf(request_queue, Request)
    <3>1. FreshInv /\ PopRequest /\ UNCHANGED <<next_id, terminated>>
      BY <1>1, <1>8 DEF PlacesInv
    <3>2. PICK told : told = stopped \cup {id}
      OBVIOUS
    <3>3. Hears(told) /\ told \cap IdsOf(request_queue, Request) = {}
      BY <1>8, <2>1, <3>2
    <3> QED
      BY <3>1, <3>3, PopFresh
  <2> QED
    BY <2>2 DEF FreshIds
<1>11. WaitInv' /\ WaitIds' \subseteq WaitIds
  <2>1. WaitInv'
    BY <1>1, <1>4, <1>8, StillWaitService
  <2> QED
    BY <2>1 DEF StillWait
<1>12. ApartInv'
  <2>1. ApartInv /\ nothing \subseteq Sent
    BY <1>1, <1>9 DEF PlacesInv
  <2>2. /\ FreshIds' \subseteq FreshIds \ nothing
        /\ WaitIds' \subseteq (WaitIds \cup FreshIds) \ nothing
    BY <1>9, <1>10, <1>11
  <2> QED
    BY <1>6, <1>9, <2>1, <2>2, StayApart
<1>13. ActiveInv'
  BY <1>8 DEF ActiveInv
<1>14. RecogInv
  BY <1>1 DEF PlacesInv
<1>15. RecogInv'
  <2>1. CASE method = "RECOGNIZE"
    <3>1. stopped = {} /\ sm_state # "RECOGNIZING"
      BY <1>4, <2>1 DEF NextRecog
    <3>2. \A other \in Ids :
              recognition'[other] = IF other = id THEN Received.state ELSE recognition[other]
      BY <1>8, <2>1, <3>1
    <3>3. \A other \in Ids : recognition[other] # "IN-PROGRESS"
      BY <1>14, <3>1 DEF RecogInv
    <3>4. CASE Received.state = "IN-PROGRESS" /\ recog' = active_request
               /\ sm_state' = "RECOGNIZING"
      BY <1>4, <1>6, <1>10, <1>11, <3>2, <3>3, <3>4 DEF RecogInv, Known
    <3>5. CASE Received.state = "COMPLETE" /\ Unmoved
      <4>1. EngineIds' \subseteq EngineIds
        BY <1>9 DEF Sends
      <4> QED
        BY <1>6, <1>10, <1>11, <1>14, <3>1, <3>2, <3>3, <3>5, <4>1 DEF RecogInv, Unmoved
    <3> QED
      BY <2>1, <3>4, <3>5, Zenon DEF NextRecog
  <2>2. CASE method # "RECOGNIZE" /\ stopped = {} /\ Unmoved
    <3>1. \A other \in Ids : \/ recognition'[other] = recognition[other]
                             \/ /\ other \in FreshIds \cup WaitIds
                                /\ recognition'[other] # "IN-PROGRESS"
      BY <1>8, <2>2
    <3>2. nothing \subseteq FreshIds \cup WaitIds /\ next_id' = next_id
      BY <1>9
    <3>3. sm_state = "RECOGNIZING" => recognition[recog.id] \in {"PENDING", "IN-PROGRESS"}
      <4>1. \/ in_progress.id = id /\ recognition[id] = "none"
            \/ recognition[id] = "PENDING"
        BY <1>4, <1>5, <2>2 DEF Owed
      <4> QED
        BY <1>4, <1>14, <2>2, <4>1 DEF RecogInv, Known
    <3> QED
      BY <1>1, <1>9, <1>10, <1>11, <2>2, <3>1, <3>2, <3>3, RecogStays
  <2>3. CASE /\ method # "RECOGNIZE" /\ sm_state = "RECOGNIZING" /\ recog.id \in stopped
             /\ recog' = NULL /\ sm_state' = "IDLE"
    <3>1. \A other \in Ids :
              recognition'[other] = IF other \in stopped THEN "COMPLETE" ELSE recognition[other]
      BY <1>8, <2>3
    <3>2. \A other \in Ids : recognition'[other] # "IN-PROGRESS"
      BY <1>14, <2>3, <3>1 DEF RecogInv
    <3> QED
      BY <2>3, <3>2 DEF RecogInv
  <2> QED
    BY <2>1, <2>2, <2>3 DEF NextRecog
<1>16. FutureInv'
  <2>1. stopped \cup {id} \subseteq Sent
    BY <1>4, <1>7
  <2> QED
    BY <1>8, <2>1, FutureStays DEF ServiceInv
<1>17. Service!AnswerRecognize(id) \/ (stopped \in SUBSET Ids /\ Service!AnswerOther(id, stopped))
  <2>1. CASE method = "RECOGNIZE"
    <3>1. /\ Received.state \in {"IN-PROGRESS", "COMPLETE"} /\ stopped = {}
          /\ sm_state # "RECOGNIZING"
      BY <1>4, <2>1 DEF NextRecog
    <3>2. recognition' = [recognition EXCEPT ![id] = Received.state]
      BY <1>6, <1>8, <2>1, <3>1 DEF Typed, TypeOK, MachineTypeOK
    <3>3. Service!Quiet
      BY <1>14, <3>1 DEF Service!Quiet, RecogInv
    <3> QED
      BY <1>5, <1>8, <2>1, <3>1, <3>2, <3>3 DEF Service!AnswerRecognize, Service!Answer
  <2>2. CASE method # "RECOGNIZE"
    <3>1. recognition' = [other \in Ids |->
                       IF other \in stopped THEN "COMPLETE" ELSE recognition[other]]
      BY <1>8, <2>2
    <3>2. stopped \in SUBSET Ids
      BY <1>6, <1>7
    <3> QED
      BY <1>5, <1>7, <1>8, <2>2, <3>1, <3>2 DEF Service!AnswerOther, Service!Answer
  <2> QED
    BY <2>1, <2>2
<1> QED
  BY <1>6, <1>9, <1>10, <1>11, <1>12, <1>13, <1>15, <1>16, <1>17
     DEF Serves, ServiceInv, PlacesInv, Sends, Service!ServiceNext

\* no pending RECOGNIZE is touched
LEMMA NobodyStopped ==
    ASSUME Typed, PlacesInv, UNCHANGED <<recog_queue, deferred>>, NEW nobody, nobody = {}
    PROVE  /\ StillWait(nobody)
           /\ recog_queue' \in Seq(Request) /\ deferred' \in Request \cup {NULL}
           /\ \A S : nobody \subseteq S
  BY DEF PlacesInv, WaitInv, WaitIds, StillWait, Typed, TypeOK, MachineTypeOK

LEMMA RecognizeAnsweredService ==
    ASSUME Typed, EngineInv, is_pending => ~SdkMayFail, ServiceInv, sm_active,
           UNCHANGED channelVars, ResponseRecognize
    PROVE  Serves
<1>1. PlacesInv
  BY DEF ServiceInv
<1>2. ReceivesAnswer({"RECOGNIZE"}) /\ Receives("response") /\ Received.method = "RECOGNIZE"
  BY DEF ResponseRecognize, ReceivesAnswer
<1>3. Received.state \in {"IN-PROGRESS", "COMPLETE"}
  <2>1. Received \in Elements(fromEngine) /\ Received.kind = "response"
    BY <1>1, <1>2, ReceivesShrinks DEF PlacesInv
  <2> QED
    BY <1>2, <2>1 DEF EngineInv, AnswersBegin, TellsState
<1>4. CASE is_pending
  BY <1>4, SwallowedService
<1>5. CASE ~is_pending
  <2>1. PICK nobody : nobody = {}
    OBVIOUS
  <2>2. Respond(Received, nobody)
    BY <1>5, <2>1, Zenon DEF ResponseRecognize, AnswerRecognize
  <2>3. UNCHANGED <<channelVars, toEngine, sm_active, next_id, terminated>>
    BY DEF ResponseRecognize, ResponseFrame
  <2>4. /\ \/ /\ Received.state = "IN-PROGRESS"
              /\ recog' = active_request /\ sm_state' = "RECOGNIZING"
           \/ Received.state = "COMPLETE" /\ Unmoved
        /\ UNCHANGED <<recog_queue, deferred>>
    BY <1>3 DEF ResponseRecognize
  <2>5. NextRecog("RECOGNIZE", nobody)
    BY <1>5, <2>1, <2>4, Zenon DEF NextRecog
  <2>6. /\ StillWait(nobody) /\ recog_queue' \in Seq(Request) /\ deferred' \in Request \cup {NULL}
        /\ \A S : nobody \subseteq S
    BY <1>1, <2>1, <2>4, NobodyStopped
  <2> QED
    BY <1>2, <2>2, <2>3, <2>5, <2>6, RespondService
<1> QED
  BY <1>4, <1>5

LEMMA PlainAnsweredService ==
    ASSUME Typed, ServiceInv, sm_active, UNCHANGED channelVars, ResponsePlain
    PROVE  Serves
<1>1. PlacesInv
  BY DEF ServiceInv
<1>2. PICK method : ReceivesAnswer({method}) /\ method # "RECOGNIZE"
  <2>1. /\ ReceivesAnswer({Received.method}) /\ Received.method # "RECOGNIZE"
    BY DEF ResponsePlain, ReceivesAnswer
  <2> QED
    BY <2>1
<1>3. PICK nobody : nobody = {}
  OBVIOUS
<1>4. Respond(Received, nobody) /\ UNCHANGED <<recog_queue, deferred>>
  BY <1>3 DEF ResponsePlain
<1>5. UNCHANGED <<channelVars, toEngine, sm_active, next_id, terminated>>
  BY DEF ResponsePlain, ResponseFrame
<1>6. NextRecog(method, nobody)
  BY <1>2, <1>3 DEF NextRecog, ResponsePlain
<1>7. /\ StillWait(nobody) /\ recog_queue' \in Seq(Request) /\ deferred' \in Request \cup {NULL}
      /\ \A S : nobody \subseteq S
  BY <1>1, <1>3, <1>4, NobodyStopped
<1> QED
  BY <1>2, <1>4, <1>5, <1>6, <1>7, RespondService

LEMMA StopAnsweredService ==
    ASSUME Typed, StopHasRecognition, ServiceInv, sm_active, UNCHANGED channelVars,
           ResponseStop
    PROVE  Serves
<1>1. /\ PlacesInv /\ deferred = NULL
      /\ ReceivesAnswer({"STOP"}) /\ Receives("response") /\ Awaited
      /\ Received.method = "STOP"
  BY DEF ServiceInv, ResponseStop, ReceivesAnswer, Receives, Waiting
<1>2. sm_state = "RECOGNIZING" /\ recog # NULL
  BY <1>1, AwaitedFacts DEF StopHasRecognition
<1>3. PICK stopped : stopped = {recog.id} \cup Removed(active_request)
  OBVIOUS
<1>4. /\ recog' = NULL /\ sm_state' = "IDLE" /\ Respond(Received, stopped)
      /\ UNCHANGED <<channelVars, toEngine, sm_active, next_id, terminated>>
  BY <1>3 DEF ResponseStop, ResponseFrame
<1>5. PICK left \in Remainders(active_request) :
          \/ left = <<>> /\ recog_queue' = <<>> /\ UNCHANGED deferred
          \/ left # <<>> /\ recog_queue' = Tail(left) /\ deferred' = Head(left)
  BY DEF ResponseStop
<1>6. /\ recog_queue \in Seq(Request) /\ DistinctIn(recog_queue, Request)
      /\ Elements(recog_queue) \subseteq Request
  BY <1>1, TypedQueues DEF PlacesInv, WaitInv, Elements
<1>7. /\ left \in Seq(Request) /\ Elements(left) \subseteq Elements(recog_queue)
      /\ DistinctIn(left, Request)
      /\ IdsOf(left, Request) \subseteq IdsOf(recog_queue, Request)
      /\ Removed(active_request) \subseteq IdsOf(recog_queue, Request)
      /\ Removed(active_request) \cap IdsOf(left, Request) = {}
  BY <1>6, RemainderIsQueue, RemainderIds
<1>8. IdsOf(recog_queue, Request) = WaitIds /\ recog.id \notin WaitIds
  BY <1>1, <1>2 DEF PlacesInv, RecogInv, WaitIds
<1>9. NextRecog("STOP", stopped)
  BY <1>2, <1>3, <1>4 DEF NextRecog
<1>10. stopped \subseteq WaitIds \cup (IF sm_state = "RECOGNIZING" THEN {recog.id} ELSE {})
  BY <1>2, <1>3, <1>7, <1>8
<1>11. \A request \in Elements(left) : Waits(request) /\ request.id \notin stopped
  <2>1. ASSUME NEW request \in Elements(left) PROVE request.id \in IdsOf(left, Request)
    BY <1>6, <1>7, <2>1 DEF IdsOf
  <2> QED
    BY <1>1, <1>3, <1>7, <1>8, <2>1 DEF PlacesInv, WaitInv
<1>12. StillWait(stopped) /\ recog_queue' \in Seq(Request) /\ deferred' \in Request \cup {NULL}
  <2>1. CASE left = <<>> /\ recog_queue' = left /\ deferred' = deferred
    BY <1>1, <1>7, <1>8, <1>11, <2>1 DEF StillWait, WaitIds
  <2>2. CASE left # <<>> /\ recog_queue' = Tail(left) /\ deferred' = Head(left)
    <3>1. /\ Head(left) \in Elements(left) /\ Elements(Tail(left)) \subseteq Elements(left)
          /\ Head(left) \in Request /\ Tail(left) \in Seq(Request)
      BY <1>7, <2>2, QueueElements
    <3>2. /\ IdsOf(Tail(left), Request) \subseteq IdsOf(left, Request)
          /\ Head(left).id \in IdsOf(left, Request)
          /\ DistinctIn(Tail(left), Request)
          /\ Head(left).id \notin IdsOf(Tail(left), Request)
      BY <1>7, <2>2, <3>1, TailIds
    <3>3. WaitIds' \subseteq WaitIds
      BY <1>7, <1>8, <2>2, <3>2 DEF WaitIds
    <3> QED
      BY <1>11, <2>2, <3>1, <3>2, <3>3 DEF StillWait
  <2> QED
    BY <1>5, <2>1, <2>2
<1> QED
  BY <1>1, <1>4, <1>9, <1>10, <1>12, RespondService

\* an event of the recognition in progress
EventOfRecog(id) ==
    /\ id = recog.id /\ sm_state = "RECOGNIZING" /\ recog # NULL
    /\ id \in Sent /\ id \notin FreshIds \cup WaitIds
    /\ recognition[id] \in {"asked", "PENDING", "IN-PROGRESS"}
    /\ \A other \in Ids \ {id} : recognition[other] # "IN-PROGRESS"
    /\ active_request # NULL /\ active_request.id \in PipeIds
          => recognition[active_request.id] = "none"

LEMMA EventFacts ==
    ASSUME Typed, EngineInv, PlacesInv, Receives("event"), OfRecog
    PROVE  /\ EventOfRecog(Received.id)
           /\ Received \in Events /\ Received \in EngineMessage
           /\ Received.state = IF Received.method = "START-OF-INPUT"
                               THEN "IN-PROGRESS" ELSE "COMPLETE"
<1>1. /\ Received \in Elements(fromEngine) /\ Received \in EngineMessage
      /\ Received.kind = "event" /\ Received \in Events
      /\ Received.id \in IdsOf(fromEngine, Events)
  BY ReceivesShrinks DEF PlacesInv
<1>2. Received.id \in EngineIds
  BY <1>1 DEF EngineIds
<1>3. recog # NULL /\ recog.id = Received.id /\ sm_state # "IDLE"
  BY DEF OfRecog, Typed, RecogState
<1>4. sm_state = "RECOGNIZING"
  <2>1. sm_state # "RECOGNIZED"
    BY <1>2, <1>3 DEF PlacesInv, RecogInv
  <2> QED
    BY <1>3, <2>1 DEF Typed, TypeOK, MachineTypeOK
<1>5. EventOfRecog(Received.id)
  <2>1. ActiveInv /\ RecogInv
    BY DEF PlacesInv
  <2>2. active_request # NULL /\ active_request.id \in PipeIds
          => recognition[active_request.id] = "none"
    BY <1>4, <2>1 DEF ActiveInv
  <2>3. /\ Received.id \in Sent /\ Received.id \notin FreshIds \cup WaitIds
        /\ recognition[Received.id] \in {"asked", "PENDING", "IN-PROGRESS"}
        /\ \A other \in Ids \ {Received.id} : recognition[other] # "IN-PROGRESS"
    BY <1>3, <1>4, <2>1 DEF RecogInv, Known
  <2> QED
    BY <1>3, <1>4, <2>2, <2>3 DEF EventOfRecog
<1> QED
  BY <1>1, <1>5 DEF EngineInv, AnswersBegin, TellsState

\* what an event changes for the client, and what it does not
LEMMA EventTold ==
    ASSUME Typed, ServiceInv, sm_active, NEW id, EventOfRecog(id),
           NEW state \in RequestStates,
           recognition' = [recognition EXCEPT ![id] = state],
           UNCHANGED <<in_progress, request_queue, dispatching, next_id, terminated, answers>>
    PROVE  /\ id \in Ids /\ Sent' = Sent /\ Sent \subseteq Ids
           /\ \A other \in Ids :
                 recognition'[other] = IF other = id THEN state ELSE recognition[other]
           /\ \A other \in Sent : (recognition'[other] = "none") <=> (recognition[other] = "none")
           /\ \A request : Waits(request) /\ request.id # id => Waits(request)'
           /\ FreshInv' /\ FreshIds' = FreshIds
           /\ FutureInv'
<1>1. PlacesInv
  BY DEF ServiceInv
<1>2. id \in Ids /\ Sent' = Sent /\ Sent \subseteq Ids /\ id \in Sent /\ id \notin FreshIds
  BY SentFacts DEF EventOfRecog
<1>3. recognition \in [Ids -> {"none", "asked"} \cup RequestStates]
  BY DEF Typed, TypeOK, MachineTypeOK
<1>4. \A other \in Ids : recognition'[other] = IF other = id THEN state ELSE recognition[other]
  BY <1>2, <1>3
<1>5. \A other \in Sent : (recognition'[other] = "none") <=> (recognition[other] = "none")
  BY <1>2, <1>4 DEF RequestStates, EventOfRecog
<1>6. Hears({id})
  BY <1>4 DEF Hears
<1>7. ASSUME NEW request, Waits(request), request.id # id PROVE Waits(request)'
  BY <1>6, <1>7, WaitStays
<1>8. ASSUME NEW request, Fresh(request), request.id # id PROVE Fresh(request)'
  BY <1>6, <1>8, FreshStays
<1>9. FreshInv' /\ FreshIds' = FreshIds
  <2>1. ASSUME NEW request \in Elements(request_queue) PROVE Fresh(request)'
    <3>1. request \in Request
      BY TypedQueues DEF Elements
    <3>2. request.id # id /\ Fresh(request)
      BY <1>1, <1>2, <3>1 DEF PlacesInv, FreshInv, FreshIds, IdsOf
    <3> QED
      BY <1>8, <3>2
  <2>2. PICK request : request = in_progress /\ request = in_progress'
    OBVIOUS
  <2>3. dispatching => Fresh(request)'
    BY <1>1, <1>2, <1>8, <2>2 DEF PlacesInv, FreshInv, FreshIds
  <2> QED
    BY <1>1, <2>1, <2>2, <2>3 DEF PlacesInv, FreshInv, FreshIds
<1>10. FutureInv'
  BY <1>2, <1>6, FutureStays DEF ServiceInv
<1> QED
  BY <1>2, <1>4, <1>5, <1>7, <1>9, <1>10

\* the pending ones wait on when another recognition is told of
LEMMA WaitOn ==
    ASSUME Typed, WaitInv, UNCHANGED <<recog_queue, deferred>>, NEW id, id \notin WaitIds,
           \A request : Waits(request) /\ request.id # id => Waits(request)'
    PROVE  WaitInv' /\ WaitIds' = WaitIds
<1>1. ASSUME NEW request \in Elements(recog_queue) PROVE Waits(request)'
  <2>1. request \in Request
    BY TypedQueues DEF Elements
  <2> QED
    BY <2>1 DEF WaitInv, WaitIds, IdsOf
<1>2. PICK request : request = deferred /\ request = deferred'
  OBVIOUS
<1>3. request # NULL => Waits(request)'
  BY <1>2 DEF WaitInv, WaitIds
<1> QED
  BY <1>1, <1>2, <1>3 DEF WaitInv, WaitIds

\* the first word of a recognition, which may be pending for the client
LEMMA StartOfInputService ==
    ASSUME Typed, EngineInv, ServiceInv, sm_active, UNCHANGED channelVars,
           EventStartOfInput
    PROVE  Serves
<1>1. PlacesInv /\ Receives("event") /\ OfRecog
  BY DEF ServiceInv, EventStartOfInput
<1>2. PICK id : id = Received.id
  OBVIOUS
<1>3. EventOfRecog(id) /\ Received.state = "IN-PROGRESS"
  BY <1>1, <1>2, EventFacts DEF EventStartOfInput
<1>4. UNCHANGED <<in_progress, request_queue, dispatching, sm_active, sm_state,
                  active_request, recog, recog_queue, is_pending, deferred, toEngine,
                  next_id, terminated, answers>>
  BY DEF EventStartOfInput, serverVars, sessionVars, machineVars
<1>5. recognition' = [recognition EXCEPT ![id] = "IN-PROGRESS"]
  BY <1>2, <1>3, Zenon DEF EventStartOfInput, SendEvent
<1>6. /\ id \in Ids /\ Sent' = Sent /\ Sent \subseteq Ids
      /\ \A other \in Ids :
            recognition'[other] = IF other = id THEN "IN-PROGRESS" ELSE recognition[other]
      /\ \A other \in Sent : (recognition'[other] = "none") <=> (recognition[other] = "none")
      /\ \A request : Waits(request) /\ request.id # id => Waits(request)'
      /\ FreshInv' /\ FreshIds' = FreshIds
      /\ FutureInv'
  <2>1. PICK state \in RequestStates : state = "IN-PROGRESS"
    BY DEF RequestStates
  <2>2. recognition' = [recognition EXCEPT ![id] = state]
    BY <1>5, <2>1
  <2>3. UNCHANGED <<in_progress, request_queue, dispatching, next_id, terminated, answers>>
    BY <1>4
  <2> QED
    BY <1>3, <2>1, <2>2, <2>3, EventTold
<1>7. PICK nothing : nothing = {} /\ Sends(nothing)
  <2>1. KeepsMarks
    BY <1>4, <1>6 DEF KeepsMarks
  <2> QED
    BY <1>1, <1>4, <2>1, ReceivesSends
<1>8. WaitInv' /\ WaitIds' = WaitIds
  BY <1>1, <1>3, <1>4, <1>6, WaitOn DEF PlacesInv, EventOfRecog
<1>9. ApartInv'
  BY <1>1, <1>6, <1>7, <1>8 DEF PlacesInv, ApartInv, Sends, BusyIds
<1>10. ActiveInv'
  <2>1. ASSUME active_request # NULL, active_request.id \in PipeIds
        PROVE  Owed(active_request.id)' /\ recognition'[active_request.id] = "none"
    <3>1. Owed(active_request.id) /\ active_request.id \in Sent
      BY <1>1, <2>1, PlacesAreSent DEF PlacesInv, ActiveInv, BusyIds
    <3>2. recognition[active_request.id] = "none" /\ active_request.id # id
      BY <1>3, <2>1 DEF EventOfRecog
    <3>3. PICK owed : owed = active_request.id /\ owed = active_request'.id
      BY <1>4
    <3>4. recognition'[owed] = recognition[owed]
      BY <1>6, <3>1, <3>2, <3>3
    <3>5. Owed(owed)'
      BY <1>4, <3>1, <3>3, <3>4 DEF Owed
    <3> QED
      BY <3>2, <3>3, <3>4, <3>5
  <2> QED
    BY <1>4, <1>7, <2>1 DEF ActiveInv, Sends
<1>11. RecogInv'
  BY <1>3, <1>4, <1>6, <1>8 DEF RecogInv, Known, EventOfRecog
<1>12. [Service!ServiceNext]_<<answers, recognition>>
  <2>1. CASE recognition[id] = "IN-PROGRESS"
    <3>1. recognition' = recognition
      BY <1>5, <1>6, <2>1 DEF Typed, TypeOK, MachineTypeOK
    <3> QED
      BY <1>4, <3>1
  <2>2. CASE recognition[id] # "IN-PROGRESS"
    BY <1>3, <1>4, <1>5, <1>6, <2>2
       DEF EventOfRecog, Service!Begin, Service!ServiceNext
  <2> QED
    BY <2>1, <2>2
<1> QED
  BY <1>4, <1>6, <1>7, <1>8, <1>9, <1>10, <1>11, <1>12
     DEF Serves, ServiceInv, PlacesInv, Sends

\* the recognition ends and the first pending RECOGNIZE, if any, is sent to the engine
LEMMA CompleteService ==
    ASSUME Typed, EngineInv, ServiceInv, sm_active, UNCHANGED channelVars,
           EventRecognitionComplete
    PROVE  Serves
<1>1. PlacesInv /\ deferred = NULL /\ Receives("event") /\ OfRecog
  BY DEF ServiceInv, EventRecognitionComplete, Receives, Waiting, CompletesRecog
<1>2. PICK id : id = Received.id
  OBVIOUS
<1>3. /\ EventOfRecog(id) /\ Received.state = "COMPLETE" /\ Received \in Ends
  BY <1>1, <1>2, EventFacts DEF EventRecognitionComplete, Ends
<1>4. /\ sm_state' = "RECOGNIZED"
      /\ UNCHANGED <<recog, in_progress, request_queue, dispatching, sm_active, deferred,
                     next_id, terminated, answers>>
  BY DEF EventRecognitionComplete, sessionVars
<1>5. recognition' = [recognition EXCEPT ![id] = "COMPLETE"]
  BY <1>2, <1>3, Zenon DEF EventRecognitionComplete, SendEvent
<1>6. /\ id \in Ids /\ Sent' = Sent /\ Sent \subseteq Ids
      /\ \A other \in Ids :
            recognition'[other] = IF other = id THEN "COMPLETE" ELSE recognition[other]
      /\ \A other \in Sent : (recognition'[other] = "none") <=> (recognition[other] = "none")
      /\ \A request : Waits(request) /\ request.id # id => Waits(request)'
      /\ FreshInv' /\ FreshIds' = FreshIds
      /\ FutureInv'
  <2>1. PICK state \in RequestStates : state = "COMPLETE"
    BY DEF RequestStates
  <2>2. recognition' = [recognition EXCEPT ![id] = state]
    BY <1>5, <2>1
  <2>3. UNCHANGED <<in_progress, request_queue, dispatching, next_id, terminated, answers>>
    BY <1>4
  <2> QED
    BY <1>3, <2>1, <2>2, <2>3, EventTold
<1>7. /\ FromShrinks
      /\ id \notin SourceIds /\ id \notin IdsOf(fromEngine', Events)
  BY <1>1, <1>2, <1>3, ReceivesShrinks DEF PlacesInv
<1>8. Service!ServiceNext
  BY <1>3, <1>4, <1>5, <1>6 DEF EventOfRecog, Service!ServiceNext, Service!Complete
<1>9. PICK added : /\ Sends(added) /\ id \notin added
                   /\ WaitInv' /\ ActiveInv' /\ ApartInv' /\ WaitIds' \subseteq WaitIds
  <2>1. CASE recog_queue = <<>>
    <3>1. UNCHANGED <<recog_queue, is_pending, active_request, toEngine>>
      BY <2>1, Zenon DEF EventRecognitionComplete, StartPending
    <3>2. PICK nothing : nothing = {} /\ Sends(nothing)
      <4>1. KeepsMarks
        BY <1>4, <1>6, <3>1 DEF KeepsMarks
      <4> QED
        BY <1>1, <3>1, <4>1, ReceivesSends
    <3>3. WaitInv' /\ WaitIds' = WaitIds
      BY <1>1, <1>3, <1>4, <1>6, <3>1, WaitOn DEF PlacesInv, EventOfRecog
    <3>4. ActiveInv'
      <4>1. ASSUME active_request # NULL, active_request.id \in PipeIds
            PROVE  Owed(active_request.id)'
        <5>1. Owed(active_request.id) /\ active_request.id \in Sent
          BY <1>1, <4>1, PlacesAreSent DEF PlacesInv, ActiveInv, BusyIds
        <5>2. PICK owed : owed = active_request.id /\ owed = active_request'.id
          BY <3>1
        <5>3. recognition'[owed] = recognition[owed]
          BY <1>3, <1>6, <4>1, <5>1, <5>2 DEF EventOfRecog
        <5>4. Owed(owed)'
          BY <1>4, <3>1, <5>1, <5>2, <5>3 DEF Owed
        <5> QED
          BY <5>2, <5>4
      <4> QED
        BY <1>4, <3>1, <3>2, <4>1 DEF ActiveInv, Sends
    <3>5. ApartInv'
      BY <1>1, <1>6, <3>2, <3>3 DEF PlacesInv, ApartInv, Sends, BusyIds
    <3> QED
      BY <3>2, <3>3, <3>4, <3>5
  <2>2. CASE recog_queue # <<>>
    <3>1. PICK request : request = Head(recog_queue)
      OBVIOUS
    <3>2. /\ recog_queue' = Tail(recog_queue) /\ is_pending' = TRUE
          /\ active_request' = request /\ toEngine' = Append(toEngine, request)
      BY <2>2, <3>1, Zenon DEF EventRecognitionComplete, StartPending, SendToEngine
    <3>3. /\ recog_queue \in Seq(Request) /\ request \in Request
          /\ Elements(recog_queue') \subseteq Elements(recog_queue)
          /\ request \in Elements(recog_queue)
          /\ Elements(recog_queue) \subseteq Request
      BY <2>2, <3>1, <3>2, TypedQueues, QueueElements DEF Elements
    <3>4. /\ IdsOf(recog_queue', Request) \subseteq IdsOf(recog_queue, Request)
          /\ request.id \in IdsOf(recog_queue, Request)
          /\ DistinctIn(recog_queue', Request)
          /\ request.id \notin IdsOf(recog_queue', Request)
      BY <1>1, <2>2, <3>1, <3>2, <3>3, TailIds DEF PlacesInv, WaitInv
    <3>5. Waits(request) /\ request.id \in WaitIds /\ request.id # id
      BY <1>1, <1>3, <3>3, <3>4 DEF PlacesInv, WaitInv, WaitIds, EventOfRecog
    <3>6. request.id \notin BusyIds /\ request.id \notin FreshIds
      BY <1>1, <3>5, FreshNotWaiting DEF PlacesInv, ApartInv
    <3>7. Waits(request)'
      BY <1>6, <3>5
    <3>8. PICK new : new = {request.id} /\ Sends(new)
      <4>1. KeepsMarks
        BY <1>4, <1>6, <3>2, <3>6 DEF KeepsMarks, BusyIds
      <4>2. Marked(request)'
        BY <3>2, <3>7 DEF Marked, Waits
      <4>3. MarkInv /\ DistinctInv /\ HeldInv /\ ClosedInv
        BY <1>1 DEF PlacesInv
      <4> QED
        BY <1>7, <3>2, <3>3, <3>6, <4>1, <4>2, <4>3, RequestSent
    <3>9. WaitInv' /\ WaitIds' \subseteq WaitIds \ {request.id}
      <4>1. \A other \in Elements(recog_queue) : Waits(other)'
        BY <1>1, <1>3, <1>6, <3>3 DEF PlacesInv, WaitInv, WaitIds, IdsOf, EventOfRecog
      <4> QED
        BY <1>1, <1>4, <3>3, <3>4, <4>1 DEF WaitInv, WaitIds
    <3>10. ActiveInv'
      <4>1. Owed(request.id)'
        BY <3>2, <3>7 DEF Owed, Waits
      <4> QED
        BY <1>4, <3>2, <4>1 DEF ActiveInv
    <3>11. ApartInv'
      <4>1. ApartInv /\ new \subseteq Sent
        BY <1>1, <3>5, <3>8 DEF PlacesInv, Waits
      <4>2. /\ FreshIds' \subseteq FreshIds \ new
            /\ WaitIds' \subseteq (WaitIds \cup FreshIds) \ new
        BY <1>6, <3>6, <3>8, <3>9
      <4> QED
        BY <1>6, <3>8, <4>1, <4>2, StayApart
    <3> QED
      BY <3>5, <3>8, <3>9, <3>10, <3>11
  <2> QED
    BY <2>1, <2>2
<1>10. id \notin EngineIds'
  BY <1>7, <1>9 DEF EngineIds, Sends
<1>11. RecogInv'
  BY <1>3, <1>4, <1>6, <1>9, <1>10 DEF RecogInv, EventOfRecog
<1> QED
  BY <1>4, <1>6, <1>8, <1>9, <1>11 DEF Serves, ServiceInv, PlacesInv, Sends

LEMMA ServerService ==
    ASSUME ~SdkMayFail \/ ~Pipelining,
           Typed, EngineInv, StopHasRecognition, DeferredInv, ServiceInv, SoleInv, ServerStep
    PROVE  Serves
<1>1. UNCHANGED channelVars
  BY DEF ServerStep
<1>2. CASE ~sm_active
  BY <1>2, InactiveService DEF Serves
<1>3. ASSUME sm_active, Dispatch PROVE Serves
  BY <1>1, <1>3, DispatchService
<1>4. ASSUME sm_active, FromEngine PROVE Serves
  <2>1. ASSUME NEW kind, Receives(kind), UNCHANGED <<serverVars, toEngine, clientVars>>
        PROVE  Serves
    <3>1. UNCHANGED <<in_progress, request_queue, dispatching, sm_active, sm_state,
                      active_request, recog, recog_queue, is_pending, deferred, toEngine,
                      next_id, terminated, answers, recognition, channelVars>>
      BY <1>1, <2>1 DEF serverVars, sessionVars, machineVars, clientVars
    <3> QED
      BY <1>4, <2>1, <3>1, DroppedService
  <2>2. CASE ResponseUnexpected
    BY <2>1, <2>2 DEF ResponseUnexpected
  <2>3. CASE EventUnexpected
    BY <2>1, <2>3 DEF EventUnexpected
  <2>4. CASE ResponseRecognize
    <3>1. is_pending => ~SdkMayFail
      BY <1>4 DEF SoleInv
    <3> QED
      BY <1>1, <1>4, <2>4, <3>1, RecognizeAnsweredService
  <2>5. CASE ResponseStop
    BY <1>1, <1>4, <2>5, StopAnsweredService
  <2>6. CASE ResponsePlain
    BY <1>1, <1>4, <2>6, PlainAnsweredService
  <2>7. CASE EventStartOfInput
    BY <1>1, <1>4, <2>7, StartOfInputService
  <2>8. CASE EventRecognitionComplete
    BY <1>1, <1>4, <2>8, CompleteService
  <2> QED
    BY <1>4, <2>2, <2>3, <2>4, <2>5, <2>6, <2>7, <2>8 DEF FromEngine
<1> QED
  BY <1>2, <1>3, <1>4 DEF ServerStep, ServerNext

\* all that the steps rely on
Served ==
    /\ Typed /\ TaskInv /\ EngineInv /\ StopHasRecognition
    /\ DeferredInv /\ ServiceInv /\ SoleInv

LEMMA ServiceStep ==
    ASSUME ~SdkMayFail \/ ~Pipelining
    PROVE  Served /\ [Next]_vars => Serves
<1> SUFFICES ASSUME Served, [Next]_vars PROVE Serves
  OBVIOUS
<1> USE DEF Served
<1>1. CASE ServerStep
  BY <1>1, ServerService
<1>2. CASE ClientStep
  BY <1>2, ClientService DEF Serves
<1>3. CASE PluginStep \/ MediaStep
  BY <1>3, EngineService DEF Serves
<1>4. CASE UNCHANGED vars
  <2>1. UNCHANGED <<in_progress, request_queue, dispatching, active_request, recog,
                    recog_queue, is_pending, deferred, sm_active, sm_state, toEngine,
                    fromEngine, stop_response, clearing, taken, recog_request,
                    completing, next_id, terminated, answers, recognition>>
    BY <1>4 DEF vars, serverVars, sessionVars, machineVars, queueVars, clientVars, channelVars
  <2>2. /\ PipeIds' = PipeIds /\ FreshIds' = FreshIds /\ WaitIds' = WaitIds /\ Sent' = Sent
        /\ HeldIds' = HeldIds /\ SourceIds' = SourceIds /\ EngineIds' = EngineIds
    BY <2>1 DEF PipeIds, StopIds, TaskIds, TaskAnswers, FreshIds, WaitIds, Sent, HeldIds,
       SourceIds, EngineIds, IdOf
  <2>3. FreshInv => FreshInv'
    BY <2>1 DEF FreshInv, Fresh, Sent
  <2>4. WaitInv => WaitInv'
    BY <2>1 DEF WaitInv, Waits, Sent
  <2>5. (MarkInv => MarkInv') /\ (DistinctInv => DistinctInv')
    BY <2>1 DEF MarkInv, Marked, DistinctInv, OnceInv, StopIds, TaskIds, TaskAnswers, Sent
  <2>6. (ApartInv => ApartInv') /\ (ActiveInv => ActiveInv')
    BY <2>1, <2>2 DEF ApartInv, BusyIds, ActiveInv, Owed
  <2>7. RecogInv => RecogInv'
    BY <2>1, <2>2 DEF RecogInv, Known
  <2>8. (HeldInv => HeldInv') /\ (ClosedInv => ClosedInv')
    BY <2>1, <2>2 DEF HeldInv, IdOf, ClosedInv
  <2>9. PlacesInv => PlacesInv'
    BY <2>3, <2>4, <2>5, <2>6, <2>7, <2>8 DEF PlacesInv
  <2>10. FutureInv => FutureInv'
    BY <2>1 DEF FutureInv
  <2> QED
    BY <2>1, <2>9, <2>10 DEF Serves, ServiceInv
<1> QED
  BY <1>1, <1>2, <1>3, <1>4 DEF Next

\* the client asks for no RECOGNIZE before the last one is over, and nobody
\* else begins one that is over
LEMMA UnfinishedStay ==
    ASSUME Serves, recognition \in [Ids -> {"none", "asked"} \cup RequestStates],
           NEW id \in Ids, recognition'[id] = "asked" => recognition[id] = "asked",
           Unfinished(id)'
    PROVE  Unfinished(id)
<1>1. CASE UNCHANGED recognition
  BY <1>1 DEF Unfinished
<1>2. ASSUME NEW i \in Ids, Service!Ask(i) PROVE Unfinished(id)
  BY <1>2 DEF Unfinished, Service!Ask
<1>3. ASSUME NEW i \in Ids, Service!AnswerRecognize(i) PROVE Unfinished(id)
  BY <1>3 DEF Unfinished, Service!AnswerRecognize
<1>4. ASSUME NEW i \in Ids, Service!Begin(i) \/ Service!Complete(i) PROVE Unfinished(id)
  BY <1>4 DEF Unfinished, Service!Begin, Service!Complete
<1>5. ASSUME NEW i \in Ids, NEW stopped \in SUBSET Ids, Service!AnswerOther(i, stopped)
      PROVE  Unfinished(id)
  BY <1>5 DEF Unfinished, Service!AnswerOther
<1> QED
  BY <1>1, <1>2, <1>3, <1>4, <1>5 DEF Serves, Service!ServiceNext

LEMMA SoleStep ==
    ASSUME ~SdkMayFail \/ ~Pipelining
    PROVE  Served /\ [Next]_vars => SoleInv'
<1> SUFFICES ASSUME Served, [Next]_vars, ~Pipelining, sm_active'
             PROVE  /\ recog_queue' = <<>> /\ ~is_pending' /\ deferred' = NULL
                    /\ \A i, j \in Ids : Unfinished(i)' /\ Unfinished(j)' => i = j
  BY DEF SoleInv
<1>1. Serves
  BY ServiceStep
<1>2. recognition \in [Ids -> {"none", "asked"} \cup RequestStates]
  BY DEF Served, Typed, TypeOK, MachineTypeOK
<1>3. CASE UNCHANGED <<machineVars, recognition>>
  BY <1>3 DEF Served, SoleInv, machineVars, Unfinished
<1>4. CASE ClientStep
  <2>1. UNCHANGED <<recog_queue, is_pending, deferred, sm_active>>
    BY <1>4 DEF ClientStep, ClientNext, ClientRequest, ClientTerminate, machineVars
  <2>2. CASE UNCHANGED recognition
    BY <2>1, <2>2 DEF Served, SoleInv, Unfinished
  <2>3. CASE /\ recognition' = [recognition EXCEPT ![next_id] = "asked"]
             /\ \A id \in Ids : ~Unfinished(id)
    <3>1. \A id \in Ids : Unfinished(id)' => id = next_id
      BY <1>2, <2>3 DEF Unfinished
    <3> QED
      BY <2>1, <3>1 DEF Served, SoleInv
  <2>4. UNCHANGED recognition
        \/ (/\ recognition' = [recognition EXCEPT ![next_id] = "asked"]
            /\ \A id \in Ids : ~Unfinished(id))
    BY <1>4 DEF ClientStep, ClientNext, ClientRequest, ClientTerminate
  <2> QED
    BY <2>2, <2>3, <2>4
<1>5. CASE ServerStep
  <2>1. sm_active
    BY <1>5 DEF ServerStep, ServerNext, Dispatch, FromEngine, RequestRecognize, RequestStop,
       RequestDefineGrammar, RequestGetResult, RequestStartTimers, RequestParams, RequestIf,
       RequestFrame, Deactivate, StartDeferred, ResponseUnexpected, ResponseRecognize,
       ResponseStop, ResponsePlain, ResponseFrame, EventStartOfInput,
       EventRecognitionComplete, EventUnexpected, serverVars, machineVars
  <2>2. /\ recog_queue = <<>> /\ ~is_pending /\ deferred = NULL
        /\ \A i, j \in Ids : Unfinished(i) /\ Unfinished(j) => i = j
    BY <2>1 DEF Served, SoleInv
  <2>3. PlacesInv
    BY <2>1 DEF Served, ServiceInv
  <2>4. ~(Dispatches("RECOGNIZE") /\ sm_state = "RECOGNIZING")
    <3> SUFFICES ASSUME Dispatches("RECOGNIZE"), sm_state = "RECOGNIZING" PROVE FALSE
      OBVIOUS
    <3>1. /\ dispatching /\ Fresh(in_progress) /\ in_progress.method = "RECOGNIZE"
          /\ in_progress.id \in FreshIds
      BY <2>3 DEF Dispatches, PlacesInv, FreshInv, FreshIds
    <3>2. /\ in_progress.id \in Ids /\ Unfinished(in_progress.id) /\ Sent \subseteq Ids
      BY <3>1, SentFacts DEF Served, Fresh, Unfinished
    <3>3. recog # NULL
      BY DEF Served, Typed, RecogState
    <3>4. recog.id \in Ids /\ Unfinished(recog.id) /\ recog.id # in_progress.id
      BY <2>3, <3>1, <3>2, <3>3 DEF PlacesInv, RecogInv, Known, Unfinished
    <3> QED
      BY <2>2, <3>2, <3>4
  <2>5. \A request : \A left \in Remainders(request) : left = <<>>
    <3>1. ASSUME NEW request, NEW left \in Remainders(request) PROVE left = <<>>
      <4>1. Kept(request) = {}
        BY <2>2 DEF Kept
      <4> QED
        BY <2>2, <3>1, <4>1, RemainderIsQueue
    <3> QED
      BY <3>1
  <2>6. recog_queue' = <<>> /\ ~is_pending' /\ deferred' = NULL
    <3>1. CASE UNCHANGED <<recog_queue, is_pending, deferred>>
      BY <2>2, <3>1
    <3>2. CASE RequestRecognize
      BY <2>2, <2>4, <3>2 DEF RequestRecognize, RequestFrame
    <3>3. CASE RequestStop
      <4>1. recog_queue' = <<>>
        BY <2>2, <2>5, <3>3 DEF RequestStop
      <4>2. UNCHANGED <<is_pending, deferred>>
        BY <3>3 DEF RequestStop, RequestFrame
      <4> QED
        BY <2>2, <4>1, <4>2
    <3>4. CASE \/ RequestDefineGrammar \/ RequestGetResult \/ RequestStartTimers
               \/ RequestParams \/ Deactivate
      BY <3>1, <3>4
         DEF RequestDefineGrammar, RequestGetResult, RequestStartTimers, RequestParams,
             RequestIf, RequestFrame, Deactivate
    <3>5. ~StartDeferred
      BY <2>2 DEF StartDeferred
    <3>6. CASE ResponseRecognize
      <4>1. UNCHANGED <<recog_queue, deferred>>
        BY <3>6 DEF ResponseRecognize
      <4>2. is_pending' = is_pending
        BY <2>2, <3>6, Zenon DEF ResponseRecognize, AnswerRecognize
      <4> QED
        BY <3>1, <4>1, <4>2
    <3>7. CASE ResponseStop
      <4>1. PICK left \in Remainders(active_request) :
                \/ left = <<>> /\ recog_queue' = <<>> /\ UNCHANGED deferred
                \/ left # <<>> /\ recog_queue' = Tail(left) /\ deferred' = Head(left)
        BY <3>7 DEF ResponseStop
      <4>2. recog_queue' = <<>> /\ deferred' = deferred
        BY <2>5, <4>1
      <4>3. is_pending' = is_pending
        BY <3>7 DEF ResponseStop
      <4> QED
        BY <2>2, <4>2, <4>3
    <3>8. CASE EventRecognitionComplete
      <4>1. UNCHANGED <<recog_queue, is_pending>> /\ deferred' = deferred
        BY <2>2, <3>8, Zenon DEF EventRecognitionComplete, StartPending
      <4> QED
        BY <3>1, <4>1
    <3>9. CASE ResponseUnexpected \/ ResponsePlain \/ EventStartOfInput \/ EventUnexpected
      BY <3>1, <3>9
         DEF ResponseUnexpected, ResponsePlain, EventStartOfInput, EventUnexpected,
             serverVars, machineVars
    <3> QED
      BY <1>5, <3>2, <3>3, <3>4, <3>5, <3>6, <3>7, <3>8, <3>9, Zenon
         DEF ServerStep, ServerNext, Dispatch, FromEngine
  <2>7. ASSUME NEW id \in Ids PROVE recognition'[id] = "asked" => recognition[id] = "asked"
    <3>1. CASE UNCHANGED recognition
      BY <3>1
    <3>2. ASSUME NEW response, NEW stopped, Respond(response, stopped),
                 response.state \in RequestStates
          PROVE  recognition'[id] = "asked" => recognition[id] = "asked"
      BY <2>1, <3>2 DEF Respond, TellClient, RequestStates
    <3>3. ASSUME NEW kind, Receives(kind) PROVE Received.state \in RequestStates
      BY <3>3, ReceivesTypes DEF Served, Typed, EngineMessage
    <3>4. ASSUME NEW state \in RequestStates, NEW stopped, AnswerAtOnce(state, stopped)
          PROVE  recognition'[id] = "asked" => recognition[id] = "asked"
      BY <3>2, <3>4 DEF AnswerAtOnce, Response
    <3>5. CASE Dispatch
      BY <3>1, <3>4, <3>5
         DEF Dispatch, RequestRecognize, RequestStop, RequestDefineGrammar,
             RequestGetResult, RequestStartTimers, RequestParams, RequestIf, Forward,
             Deactivate, StartDeferred, clientVars, RequestStates
    <3>6. CASE ResponseRecognize \/ ResponseStop \/ ResponsePlain
      BY <3>1, <3>2, <3>3, <3>6, Zenon
         DEF ResponseRecognize, ResponseStop, ResponsePlain, ReceivesAnswer, AnswerRecognize
    <3>7. CASE EventStartOfInput \/ EventRecognitionComplete
      <4>1. Received.state \in RequestStates
        BY <3>3, <3>7 DEF EventStartOfInput, EventRecognitionComplete
      <4>2. SendEvent(Received)
        BY <3>7, Zenon DEF EventStartOfInput, EventRecognitionComplete
      <4> QED
        BY <1>2, <4>1, <4>2 DEF SendEvent, RequestStates
    <3>8. CASE ResponseUnexpected \/ EventUnexpected
      BY <3>1, <3>8 DEF ResponseUnexpected, EventUnexpected, clientVars
    <3> QED
      BY <1>5, <3>5, <3>6, <3>7, <3>8, Zenon DEF ServerStep, ServerNext, FromEngine
  <2> QED
    BY <1>1, <1>2, <2>2, <2>6, <2>7, UnfinishedStay
<1>6. CASE PluginStep \/ MediaStep \/ UNCHANGED vars
  BY <1>3, <1>6 DEF PluginStep, MediaStep, vars, serverVars, clientVars
<1> QED
  BY <1>4, <1>5, <1>6 DEF Next

LEMMA ServiceStarts == Init => ServiceInv /\ DeferredInv /\ SoleInv /\ Service!ServiceInit
<1> SUFFICES ASSUME Init PROVE ServiceInv /\ DeferredInv /\ SoleInv /\ Service!ServiceInit
  OBVIOUS
<1>1. /\ answers = [id \in Ids |-> 0] /\ recognition = [id \in Ids |-> "none"]
      /\ request_queue = <<>> /\ ~dispatching /\ recog_queue = <<>> /\ deferred = NULL
      /\ toEngine = <<>> /\ fromEngine = <<>> /\ stop_response = NULL
      /\ taken = NULL /\ recog_request = NULL /\ completing = NULL
      /\ active_request = NULL /\ recog = NULL /\ sm_state = "IDLE" /\ ~is_pending
  BY Zenon DEF Init, MachineInit, SessionInit, QueueInit, Engine!XfyunInit, Engine!EngineInit
<1>2. /\ \A S : IdsOf(<<>>, S) = {} /\ DistinctIn(<<>>, S)
      /\ Elements(<<>>) = {}
  BY NoIds, NoElements
<1>3. /\ StopIds = {} /\ TaskIds = {} /\ ~TaskAnswers /\ PipeIds = {} /\ FreshIds = {} /\ WaitIds = {}
      /\ HeldIds = {} /\ SourceIds = {} /\ EngineIds = {}
  BY <1>1, <1>2 DEF StopIds, TaskIds, TaskAnswers, PipeIds, FreshIds, WaitIds, HeldIds, IdOf,
     SourceIds, EngineIds
<1>4. FreshInv /\ WaitInv /\ MarkInv /\ DistinctInv
  BY <1>1, <1>2, <1>3 DEF FreshInv, WaitInv, MarkInv, DistinctInv, OnceInv
<1>5. ApartInv /\ ActiveInv /\ RecogInv /\ HeldInv
  BY <1>1, <1>3 DEF ApartInv, BusyIds, ActiveInv, RecogInv, HeldInv, IdOf
<1>6. ClosedInv
  BY <1>1, <1>2 DEF ClosedInv, ClosedIn
<1> QED
  BY <1>1, <1>4, <1>5, <1>6
     DEF ServiceInv, FutureInv, PlacesInv, DeferredInv, SoleInv, Unfinished,
         Service!ServiceInit

(***************************************************************************)
(* Whatever the client sends and however the task of the server and the    *)
(* two threads of either plugin interleave, the client sees the service:   *)
(* no request is answered twice, a RECOGNIZE is PENDING only behind        *)
(* another one, never two are in progress, and none is heard of after its  *)
(* end (mrcp_recog_state_machine.c).  The plugin may refuse a RECOGNIZE,   *)
(* and the recognition service may fail to begin one, which the plugin     *)
(* then answers a second time (xfyun_recog_engine.c:353); only that        *)
(* failure together with a client that pipelines is left out.              *)
(***************************************************************************)
THEOREM ChannelServes ==
    ASSUME ~SdkMayFail \/ ~Pipelining
    PROVE  Spec => ServiceRefinement
<1>1. Init => ServiceInv /\ DeferredInv /\ SoleInv /\ Service!ServiceInit
  BY ServiceStarts
<1>2. Spec => []EngineInv
  BY EngineInvInit, EngineInvStep, ChannelIsTyped, PTL DEF Spec, Typed
<1>3. Typed /\ DeferredInv /\ [Next]_vars => DeferredInv'
  BY DeferredStep
<1>4. Served /\ [Next]_vars => SoleInv' /\ Serves
  BY ServiceStep, SoleStep
<1>5. (/\ Typed /\ TaskInv /\ EngineInv /\ StopHasRecognition
       /\ DeferredInv /\ ServiceInv /\ SoleInv) /\ [Next]_vars
        => SoleInv' /\ ServiceInv' /\ [Service!ServiceNext]_<<answers, recognition>>
  BY <1>4 DEF Served, Serves
<1>6. Spec => [](Typed /\ TaskInv /\ DeferredInv)
  BY <1>1, <1>3, ChannelIsTyped, PTL DEF Spec, Typed
<1> QED
  BY <1>1, <1>2, <1>5, <1>6, StopFindsRecognition, PTL
     DEF Spec, ServiceRefinement, Service!ServiceSpec
=============================================================================
