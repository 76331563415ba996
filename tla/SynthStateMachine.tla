-------------------------- MODULE SynthStateMachine --------------------------
(***************************************************************************)
(* libs/mrcp-engine/src/mrcp_synth_state_machine.c: the synthesizer state  *)
(* machine between the client and the engine of a channel.  It runs in the *)
(* server task, one message at a time, under the serialisation of requests *)
(* that SessionRequests describes.                                         *)
(*                                                                         *)
(* The answer to a STOP may dispatch a waiting request before its handler  *)
(* has started the next pending SPEAK: "deferred" is that SPEAK.           *)
(***************************************************************************)
EXTENDS SessionRequests, Ordered

CONSTANT
    Queueing  \* may the client send a SPEAK before the previous one is over?

ASSUME QueueingAssumption == Queueing \in BOOLEAN /\ Methods \subseteq SynthMethods

VARIABLES
    sm_state,        \* state_machine->state
    sm_active,       \* state_machine->base.active
    active_request,  \* the request the engine is to answer
    speaker,         \* the SPEAK in progress
    speak_queue,     \* the pending SPEAKs
    is_pending,      \* was active_request taken from speak_queue?
    deferred,        \* the SPEAK an interrupted handler is about to start
    crashed,         \* did a handler follow the null pointer?
    toEngine,        \* the requests in the queue of the engine's task
    fromEngine,      \* the engine's messages in the queue of the server task
    speech           \* the client: what does it know of each SPEAK?

machineVars == <<sm_state, sm_active, active_request, speaker, speak_queue,
                 is_pending, deferred, crashed>>
clientVars  == <<next_id, terminated, answers, speech>>
queueVars   == <<toEngine, fromEngine>>
serverVars  == <<sessionVars, deactivations, machineVars>>

MachineInit ==
    /\ SessionInit
    /\ sm_state = "IDLE" /\ sm_active = TRUE /\ active_request = NULL
    /\ speaker = NULL /\ speak_queue = <<>> /\ is_pending = FALSE
    /\ deferred = NULL /\ crashed = FALSE
    /\ toEngine = <<>> /\ fromEngine = <<>>
    /\ speech = [id \in Ids |-> "none"]

MachineTypeOK ==
    /\ SessionTypeOK
    /\ sm_state \in {"IDLE", "SPEAKING", "PAUSED"}
    /\ sm_active \in BOOLEAN /\ is_pending \in BOOLEAN /\ crashed \in BOOLEAN
    /\ {active_request, speaker, deferred} \subseteq Request \cup {NULL}
    /\ speak_queue \in Seq(Request)
    /\ toEngine \in Seq(Request)
    /\ fromEngine \in Seq(EngineMessage)
    /\ speech \in [Ids -> {"none", "asked"} \cup RequestStates]

\* the server task takes its next message
Waiting == ~dispatching /\ deferred = NULL

-----------------------------------------------------------------------------
(* What the handlers share.                                                *)

\* synth_request_dispatch
SendToEngine(request) ==
    /\ active_request' = request
    /\ toEngine' = Append(toEngine, request)

\* a response may also list SPEAKs that were stopped
TellClient(response, stopped) ==
    speech' = [id \in Ids |->
                 IF id \in stopped THEN "COMPLETE"
                 ELSE IF id = response.id /\ response.method = "SPEAK"
                      THEN response.state
                      ELSE speech[id]]

\* synth_response_dispatch
Respond(response, stopped) ==
    /\ active_request' = NULL
    /\ \/ sm_active /\ SendResponse(response) /\ TellClient(response, stopped)
       \/ ~sm_active /\ ReportDeactivation /\ UNCHANGED speech

\* what an event, dropped once the machine is inactive, says of a SPEAK
SendEvent(request, state) ==
    speech' = IF sm_active THEN [speech EXCEPT ![request.id] = state] ELSE speech

BecomeIdleKeepsSpeaker ==  \* mutant: only the state is reset
    sm_state' = "IDLE" /\ UNCHANGED speaker

BecomeIdle == sm_state' = "IDLE" /\ speaker' = NULL

Crash ==
    /\ crashed' = TRUE
    /\ UNCHANGED <<sessionVars, deactivations, sm_state, sm_active,
                   active_request, speaker, speak_queue, is_pending, deferred,
                   toEngine, clientVars>>

(* synth_pending_requests_remove takes the selected SPEAKs out of the      *)
(* queue and keeps the order of the others.                                *)
Selected(request, pending) == request.only = {} \/ pending.id \in request.only

Kept(request) ==
    {i \in DOMAIN speak_queue : ~Selected(request, speak_queue[i])}

Removed(request) ==
    {speak_queue[i].id : i \in DOMAIN speak_queue \ Kept(request)}

\* a set of one element
Remainders(request) ==
    {[i \in DOMAIN order |-> speak_queue[order[i]]] :
        order \in Increasing(Kept(request))}

-----------------------------------------------------------------------------
(* The client.                                                             *)

Unfinished(id) == speech[id] \in {"asked", "PENDING", "IN-PROGRESS"}

ClientRequest(method, only, flag) ==
    /\ Waiting
    /\ only # {} => method = "STOP"
    /\ ~flag => method = "BARGE-IN-OCCURRED"
    /\ method = "SPEAK" => Queueing \/ \A id \in Ids : ~Unfinished(id)
    /\ ArriveRequest(method, only, flag)
    /\ speech' = IF method = "SPEAK" THEN [speech EXCEPT ![next_id] = "asked"]
                 ELSE speech
    /\ UNCHANGED <<machineVars, queueVars>>

ClientTerminate ==
    /\ Waiting
    /\ ArriveTerminate
    /\ UNCHANGED <<machineVars, queueVars, speech>>

-----------------------------------------------------------------------------
(* Requests dispatched to the state machine.                               *)

Forward ==
    /\ SendToEngine(in_progress)
    /\ dispatching' = FALSE
    /\ UNCHANGED <<in_progress, request_queue, session_state, deactivations,
                   answers, speech>>

AnswerAtOnce(state, stopped) ==
    /\ Respond(Response(in_progress, state), stopped)
    /\ UNCHANGED toEngine

RequestFrame == UNCHANGED <<sm_state, sm_active, speaker, is_pending, deferred,
                            crashed, fromEngine, next_id, terminated>>

RequestSpeak ==
    /\ Dispatches("SPEAK")
    /\ \/ /\ speaker # NULL
          /\ speak_queue' = Append(speak_queue, in_progress)
          /\ AnswerAtOnce("PENDING", {})
       \/ speaker = NULL /\ Forward /\ UNCHANGED speak_queue
    /\ RequestFrame

StopsSpeakerListed(request) ==  \* mutant: a STOP without a list selects nothing
    speaker # NULL /\ speaker.id \in request.only

StopsSpeaker(request) == speaker # NULL /\ Selected(request, speaker)

RequestStop ==
    /\ Dispatches("STOP")
    /\ \/ StopsSpeaker(in_progress) /\ Forward /\ UNCHANGED speak_queue
       \/ /\ ~StopsSpeaker(in_progress)
          /\ speak_queue' \in Remainders(in_progress)
          /\ AnswerAtOnce("COMPLETE", Removed(in_progress))
    /\ RequestFrame

\* sent to the engine only if it makes sense in the present state
RequestIf(method, useful) ==
    /\ Dispatches(method)
    /\ \/ useful /\ Forward
       \/ ~useful /\ AnswerAtOnce("COMPLETE", {})
    /\ UNCHANGED speak_queue
    /\ RequestFrame

RequestPause == RequestIf("PAUSE", speaker # NULL /\ sm_state = "SPEAKING")

RequestResume == RequestIf("RESUME", speaker # NULL /\ sm_state = "PAUSED")

RequestBargeIn ==
    RequestIf("BARGE-IN-OCCURRED", speaker # NULL /\ in_progress.flag)

RequestControl == RequestIf("CONTROL", sm_state = "SPEAKING")

RequestDefineLexicon == RequestIf("DEFINE-LEXICON", sm_state = "IDLE")

RequestParams == RequestIf("SET-PARAMS", TRUE)

\* the session's termination: synth_state_deactivate stops the speaker
Deactivate ==
    /\ DeactivateSession(speaker # NULL)
    /\ sm_active' = FALSE
    /\ \/ speaker # NULL /\ SendToEngine(InternalStop(speaker))
       \/ speaker = NULL /\ UNCHANGED <<active_request, toEngine>>
    /\ UNCHANGED <<sm_state, speaker, speak_queue, is_pending, deferred, crashed,
                   fromEngine, next_id, terminated, speech>>

StartDeferredUnchecked ==  \* mutant: without if(pending_request)
    /\ ~dispatching
    /\ is_pending' = TRUE
    /\ SendToEngine(deferred)
    /\ deferred' = NULL
    /\ UNCHANGED <<sessionVars, deactivations, sm_state, sm_active, speaker,
                   speak_queue, crashed, fromEngine, clientVars>>

\* the end of synth_response_stop, after the nested dispatches
StartDeferred ==
    /\ ~dispatching
    /\ deferred # NULL
    /\ is_pending' = TRUE
    /\ SendToEngine(deferred)
    /\ deferred' = NULL
    /\ UNCHANGED <<sessionVars, deactivations, sm_state, sm_active, speaker,
                   speak_queue, crashed, fromEngine, clientVars>>

-----------------------------------------------------------------------------
(* Responses and events of the engine.                                     *)

Received == Head(fromEngine)

Receives(kind) ==
    /\ Waiting
    /\ fromEngine # <<>>
    /\ fromEngine' = Tail(fromEngine)
    /\ Received.kind = kind

\* synth_response_state_update: is it the answer to active_request?
Awaited == active_request # NULL /\ active_request.id = Received.id

ReceivesAnswer(method) ==
    Receives("response") /\ Awaited /\ Received.method = method

ResponseUnexpected ==
    /\ Receives("response")
    /\ ~Awaited
    /\ UNCHANGED <<serverVars, toEngine, clientVars>>

ResponseFrame == UNCHANGED <<sm_active, crashed, toEngine, next_id, terminated>>

AnswerSpeakTwice ==  \* mutant: a pending SPEAK is answered like any other
    /\ is_pending' = FALSE
    /\ Respond(Received, {})

\* a pending SPEAK was answered before: the client gets SPEECH-MARKER instead
AnswerSpeak ==
    \/ /\ is_pending
       /\ is_pending' = FALSE
       /\ SendEvent(active_request, "IN-PROGRESS")
       /\ UNCHANGED <<active_request, sessionVars, answers, deactivations>>
    \/ /\ ~is_pending
       /\ Respond(Received, {})
       /\ UNCHANGED is_pending

ResponseSpeak ==
    /\ ReceivesAnswer("SPEAK")
    /\ \/ /\ Received.state = "IN-PROGRESS"
          /\ speaker' = active_request
          /\ sm_state' = "SPEAKING"
       \/ /\ Received.state # "IN-PROGRESS"
          /\ UNCHANGED <<speaker, sm_state>>
    /\ AnswerSpeak
    /\ UNCHANGED <<speak_queue, deferred>>
    /\ ResponseFrame

\* the handlers below list the speaker's id in the response, unchecked
FollowsNull == speaker = NULL /\ Crash

StopSpeaking ==
    /\ speaker # NULL
    /\ Respond(Received, {speaker.id} \cup Removed(active_request))
    /\ BecomeIdle
    /\ UNCHANGED is_pending
    /\ ResponseFrame

ResponseStop ==
    /\ ReceivesAnswer("STOP")
    /\ \/ FollowsNull
       \/ /\ StopSpeaking
          /\ \E left \in Remainders(active_request) :
                \/ left = <<>> /\ speak_queue' = <<>> /\ UNCHANGED deferred
                \/ /\ left # <<>>
                   /\ speak_queue' = Tail(left)
                   /\ deferred' = Head(left)

ResponseBargeIn ==
    /\ ReceivesAnswer("BARGE-IN-OCCURRED")
    /\ \/ FollowsNull
       \/ /\ StopSpeaking
          /\ speak_queue' \in Remainders(active_request)
          /\ UNCHANGED deferred

\* PAUSE, RESUME and CONTROL: the machine moves to the given state
ResponseOnSpeaker(method, state) ==
    /\ ReceivesAnswer(method)
    /\ \/ FollowsNull
       \/ /\ speaker # NULL
          /\ sm_state' = state
          /\ Respond(Received, {})
          /\ UNCHANGED <<speaker, speak_queue, is_pending, deferred>>
          /\ ResponseFrame

ResponsePause == ResponseOnSpeaker("PAUSE", "PAUSED")

ResponseResume == ResponseOnSpeaker("RESUME", "SPEAKING")

ResponseControl == ResponseOnSpeaker("CONTROL", sm_state)

\* SET-PARAMS, GET-PARAMS and DEFINE-LEXICON
ResponsePlain ==
    /\ ReceivesAnswer("SET-PARAMS") \/ ReceivesAnswer("DEFINE-LEXICON")
    /\ Respond(Received, {})
    /\ UNCHANGED <<sm_state, speaker, speak_queue, is_pending, deferred>>
    /\ ResponseFrame

\* SPEAK-COMPLETE is ignored while the answer to a STOP is on its way
CompletesSpeaker ==
    /\ speaker # NULL
    /\ speaker.id = Received.id
    /\ ~(active_request # NULL /\ active_request.method = "STOP")

StartPendingNever ==  \* mutant: only a STOP starts the next SPEAK
    UNCHANGED <<speak_queue, is_pending, active_request, toEngine>>

StartPending ==
    \/ /\ speak_queue = <<>>
       /\ UNCHANGED <<speak_queue, is_pending, active_request, toEngine>>
    \/ /\ speak_queue # <<>>
       /\ speak_queue' = Tail(speak_queue)
       /\ is_pending' = TRUE
       /\ SendToEngine(Head(speak_queue))

EventSpeakComplete ==
    /\ Receives("event")
    /\ CompletesSpeaker
    /\ BecomeIdle
    /\ SendEvent(speaker, "COMPLETE")
    /\ StartPending
    /\ UNCHANGED <<sessionVars, deactivations, sm_active, deferred, crashed,
                   next_id, terminated, answers>>

EventUnexpected ==
    /\ Receives("event")
    /\ ~CompletesSpeaker
    /\ UNCHANGED <<serverVars, toEngine, clientVars>>

-----------------------------------------------------------------------------
Dispatch ==
    \/ RequestSpeak \/ RequestStop \/ RequestPause \/ RequestResume
    \/ RequestBargeIn \/ RequestControl \/ RequestDefineLexicon \/ RequestParams
    \/ Deactivate \/ StartDeferred

FromEngine ==
    \/ ResponseUnexpected \/ ResponseSpeak \/ ResponseStop \/ ResponseBargeIn
    \/ ResponsePause \/ ResponseResume \/ ResponseControl \/ ResponsePlain
    \/ EventSpeakComplete \/ EventUnexpected

ServerNext == Dispatch \/ FromEngine

Selections == {{}} \cup {{id} : id \in Ids}

ClientNext ==
    \/ \E method \in Methods, only \in Selections, flag \in BOOLEAN :
           ClientRequest(method, only, flag)
    \/ ClientTerminate
=============================================================================
