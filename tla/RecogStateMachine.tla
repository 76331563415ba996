-------------------------- MODULE RecogStateMachine --------------------------
(***************************************************************************)
(* libs/mrcp-engine/src/mrcp_recog_state_machine.c: the recognizer state   *)
(* machine between the client and the engine of a channel, run by the      *)
(* server task under the serialisation of requests of SessionRequests.     *)
(*                                                                         *)
(* A RECOGNIZE that arrives during another one waits in recog_queue and is *)
(* started, with is_pending set, when that one ends.  Its answer was given *)
(* when it was queued; the engine's is swallowed.                          *)
(***************************************************************************)
EXTENDS SessionRequests, Ordered

CONSTANT
    Pipelining  \* may the client send a RECOGNIZE before the last one is over?

ASSUME PipeliningAssumption ==
    Pipelining \in BOOLEAN /\ Methods \subseteq RecogMethods

VARIABLES
    sm_state,        \* state_machine->state
    sm_active,       \* state_machine->base.active
    active_request,  \* the request the engine is to answer
    recog,           \* the RECOGNIZE in progress, or the last one recognized
    recog_queue,     \* the pending RECOGNIZEs (state_machine->queue)
    is_pending,      \* was active_request taken from recog_queue?
    deferred,        \* the RECOGNIZE an interrupted handler is about to start
    toEngine,        \* the requests in the queue of the engine's task
    fromEngine,      \* the engine's messages in the queue of the server task
    recognition      \* the client: what does it know of each RECOGNIZE?

machineVars == <<sm_state, sm_active, active_request, recog, recog_queue,
                 is_pending, deferred>>
clientVars  == <<next_id, terminated, answers, recognition>>
queueVars   == <<toEngine, fromEngine>>
serverVars  == <<sessionVars, deactivations, machineVars>>

MachineInit ==
    /\ SessionInit
    /\ sm_state = "IDLE" /\ sm_active = TRUE /\ active_request = NULL
    /\ recog = NULL /\ recog_queue = <<>> /\ is_pending = FALSE
    /\ deferred = NULL
    /\ toEngine = <<>> /\ fromEngine = <<>>
    /\ recognition = [id \in Ids |-> "none"]

MachineTypeOK ==
    /\ SessionTypeOK
    /\ sm_state \in {"IDLE", "RECOGNIZING", "RECOGNIZED"}
    /\ sm_active \in BOOLEAN /\ is_pending \in BOOLEAN
    /\ {active_request, recog, deferred} \subseteq Request \cup {NULL}
    /\ recog_queue \in Seq(Request)
    /\ toEngine \in Seq(Request)
    /\ fromEngine \in Seq(EngineMessage)
    /\ recognition \in [Ids -> {"none", "asked"} \cup RequestStates]

\* the server task takes its next message
Waiting == ~dispatching /\ deferred = NULL

-----------------------------------------------------------------------------
(* What the handlers share.                                                *)

\* recog_request_dispatch
SendToEngine(request) ==
    /\ active_request' = request
    /\ toEngine' = Append(toEngine, request)

\* a response may also list RECOGNIZEs that were stopped
TellClient(response, stopped) ==
    recognition' = [id \in Ids |->
        IF id \in stopped THEN "COMPLETE"
        ELSE IF id = response.id /\ response.method = "RECOGNIZE"
             THEN response.state
             ELSE recognition[id]]

\* recog_response_dispatch
Respond(response, stopped) ==
    /\ active_request' = NULL
    /\ \/ sm_active /\ SendResponse(response) /\ TellClient(response, stopped)
       \/ ~sm_active /\ ReportDeactivation /\ UNCHANGED recognition

\* recog_event_dispatch: an event is dropped once the machine is inactive
SendEvent(message) ==
    recognition' = IF sm_active
                   THEN [recognition EXCEPT ![message.id] = message.state]
                   ELSE recognition

\* recog_request_stop and recog_pending_requests_remove
Selected(request, other) == request.only = {} \/ other.id \in request.only

Kept(request) ==
    {i \in DOMAIN recog_queue : ~Selected(request, recog_queue[i])}

Removed(request) ==
    {recog_queue[i].id : i \in DOMAIN recog_queue \ Kept(request)}

\* a set of one element
Remainders(request) ==
    {[i \in DOMAIN order |-> recog_queue[order[i]]] :
        order \in Increasing(Kept(request))}

-----------------------------------------------------------------------------
(* The client.                                                             *)

Unfinished(id) == recognition[id] \in {"asked", "PENDING", "IN-PROGRESS"}

ClientRequest(method, only, flag) ==
    /\ Waiting
    /\ only # {} => method = "STOP"
    /\ ~flag => method = "RECOGNIZE"
    /\ method = "RECOGNIZE" => Pipelining \/ \A id \in Ids : ~Unfinished(id)
    /\ ArriveRequest(method, only, flag)
    /\ recognition' = IF method = "RECOGNIZE"
                      THEN [recognition EXCEPT ![next_id] = "asked"]
                      ELSE recognition
    /\ UNCHANGED <<machineVars, queueVars>>

ClientTerminate ==
    /\ Waiting
    /\ ArriveTerminate
    /\ UNCHANGED <<machineVars, queueVars, recognition>>

-----------------------------------------------------------------------------
(* Requests dispatched to the state machine.                               *)

Forward ==
    /\ SendToEngine(in_progress)
    /\ dispatching' = FALSE
    /\ UNCHANGED <<in_progress, request_queue, session_state, deactivations,
                   answers, recognition>>

AnswerAtOnce(state, stopped) ==
    /\ Respond(Response(in_progress, state), stopped)
    /\ UNCHANGED toEngine

RequestFrame == UNCHANGED <<sm_active, is_pending, deferred, fromEngine,
                            next_id, terminated>>

Unmoved == UNCHANGED <<sm_state, recog>>

\* a recognition whose results are kept is forgotten
ForgetRecognized ==
    \/ sm_state = "RECOGNIZED" /\ sm_state' = "IDLE" /\ recog' = NULL
    \/ sm_state # "RECOGNIZED" /\ Unmoved

RequestRecognizeQueued ==  \* mutant: queued behind kept results as well
    /\ Dispatches("RECOGNIZE")
    /\ \/ /\ sm_state # "IDLE"
          /\ recog_queue' = Append(recog_queue, in_progress)
          /\ AnswerAtOnce("PENDING", {})
       \/ sm_state = "IDLE" /\ Forward /\ UNCHANGED recog_queue
    /\ Unmoved
    /\ RequestFrame

RequestRecognize ==
    /\ Dispatches("RECOGNIZE")
    /\ \/ /\ sm_state = "RECOGNIZING"
          /\ recog_queue' = Append(recog_queue, in_progress)
          /\ AnswerAtOnce("PENDING", {})
       \/ sm_state # "RECOGNIZING" /\ Forward /\ UNCHANGED recog_queue
    /\ Unmoved
    /\ RequestFrame

StopsRecog(request) ==
    sm_state = "RECOGNIZING" /\ Selected(request, recog)

RequestStop ==
    /\ Dispatches("STOP")
    /\ \/ StopsRecog(in_progress) /\ Forward /\ Unmoved /\ UNCHANGED recog_queue
       \/ /\ ~StopsRecog(in_progress)
          /\ ForgetRecognized
          /\ recog_queue' \in Remainders(in_progress)
          /\ AnswerAtOnce("COMPLETE", Removed(in_progress))
    /\ RequestFrame

RequestDefineGrammar ==
    /\ Dispatches("DEFINE-GRAMMAR")
    /\ \/ sm_state = "RECOGNIZING" /\ AnswerAtOnce("COMPLETE", {}) /\ Unmoved
       \/ sm_state # "RECOGNIZING" /\ ForgetRecognized /\ Forward
    /\ UNCHANGED recog_queue
    /\ RequestFrame

\* refused with METHOD_NOT_VALID unless it makes sense in the present state
RequestIf(method, valid) ==
    /\ Dispatches(method)
    /\ \/ valid /\ Forward
       \/ ~valid /\ AnswerAtOnce("COMPLETE", {})
    /\ Unmoved
    /\ UNCHANGED recog_queue
    /\ RequestFrame

RequestGetResult == RequestIf("GET-RESULT", sm_state = "RECOGNIZED")

RequestStartTimers == RequestIf("START-INPUT-TIMERS", sm_state = "RECOGNIZING")

RequestParams == RequestIf("SET-PARAMS", TRUE)

\* the session's termination: recog_state_deactivate stops the recognition
Deactivate ==
    /\ DeactivateSession(sm_state = "RECOGNIZING")
    /\ sm_active' = FALSE
    /\ \/ sm_state = "RECOGNIZING" /\ SendToEngine(InternalStop(recog))
       \/ sm_state # "RECOGNIZING" /\ UNCHANGED <<active_request, toEngine>>
    /\ Unmoved
    /\ UNCHANGED <<recog_queue, is_pending, deferred, fromEngine, next_id,
                   terminated, recognition>>

StartDeferredUnchecked ==  \* mutant: without if(pending_request)
    /\ ~dispatching
    /\ is_pending' = TRUE
    /\ SendToEngine(deferred)
    /\ deferred' = NULL
    /\ Unmoved
    /\ UNCHANGED <<sessionVars, deactivations, sm_active, recog_queue,
                   fromEngine, clientVars>>

\* the end of recog_response_stop, after the nested dispatches
StartDeferred ==
    /\ ~dispatching
    /\ deferred # NULL
    /\ is_pending' = TRUE
    /\ SendToEngine(deferred)
    /\ deferred' = NULL
    /\ Unmoved
    /\ UNCHANGED <<sessionVars, deactivations, sm_active, recog_queue,
                   fromEngine, clientVars>>

-----------------------------------------------------------------------------
(* Responses and events of the engine.                                     *)

Received == Head(fromEngine)

Receives(kind) ==
    /\ Waiting
    /\ fromEngine # <<>>
    /\ fromEngine' = Tail(fromEngine)
    /\ Received.kind = kind

\* recog_response_state_update: is it the answer to active_request?
Awaited == active_request # NULL /\ active_request.id = Received.id

ReceivesAnswer(methods) ==
    Receives("response") /\ Awaited /\ Received.method \in methods

ResponseUnexpected ==
    /\ Receives("response")
    /\ ~Awaited
    /\ UNCHANGED <<serverVars, toEngine, clientVars>>

ResponseFrame == UNCHANGED <<sm_active, toEngine, next_id, terminated>>

AnswerRecognizeTwice ==  \* mutant: a pending RECOGNIZE is answered like any other
    /\ is_pending' = FALSE
    /\ Respond(Received, {})

\* a pending RECOGNIZE was answered when it was queued
AnswerRecognize ==
    \/ /\ is_pending
       /\ is_pending' = FALSE
       /\ UNCHANGED <<active_request, sessionVars, deactivations, answers,
                      recognition>>
    \/ /\ ~is_pending
       /\ Respond(Received, {})
       /\ UNCHANGED is_pending

ResponseRecognize ==
    /\ ReceivesAnswer({"RECOGNIZE"})
    /\ \/ /\ Received.state = "IN-PROGRESS"
          /\ recog' = active_request
          /\ sm_state' = "RECOGNIZING"
       \/ Received.state # "IN-PROGRESS" /\ Unmoved
    /\ AnswerRecognize
    /\ UNCHANGED <<recog_queue, deferred>>
    /\ ResponseFrame

\* the handler lists the id of recog in the response without a check
ResponseStop ==
    /\ ReceivesAnswer({"STOP"})
    /\ Respond(Received, {recog.id} \cup Removed(active_request))
    /\ sm_state' = "IDLE"
    /\ recog' = NULL
    /\ \E left \in Remainders(active_request) :
          \/ left = <<>> /\ recog_queue' = <<>> /\ UNCHANGED deferred
          \/ /\ left # <<>>
             /\ recog_queue' = Tail(left)
             /\ deferred' = Head(left)
    /\ UNCHANGED is_pending
    /\ ResponseFrame

ResponsePlain ==
    /\ ReceivesAnswer({"SET-PARAMS", "DEFINE-GRAMMAR", "GET-RESULT",
                       "START-INPUT-TIMERS"})
    /\ Respond(Received, {})
    /\ Unmoved
    /\ UNCHANGED <<recog_queue, is_pending, deferred>>
    /\ ResponseFrame

OfRecog == recog # NULL /\ recog.id = Received.id

EventStartOfInput ==
    /\ Receives("event")
    /\ Received.method = "START-OF-INPUT"
    /\ OfRecog
    /\ SendEvent(Received)
    /\ UNCHANGED <<serverVars, toEngine, next_id, terminated, answers>>

CompletesRecogBeingStopped ==  \* mutant: also ends a recognition being stopped
    OfRecog

\* RECOGNITION-COMPLETE is ignored while the answer to a STOP is on its way
CompletesRecog ==
    OfRecog /\ ~(active_request # NULL /\ active_request.method = "STOP")

StartPending ==
    \/ /\ recog_queue = <<>>
       /\ UNCHANGED <<recog_queue, is_pending, active_request, toEngine>>
    \/ /\ recog_queue # <<>>
       /\ recog_queue' = Tail(recog_queue)
       /\ is_pending' = TRUE
       /\ SendToEngine(Head(recog_queue))

\* recog is kept, so that its results can be asked for
EventRecognitionComplete ==
    /\ Receives("event")
    /\ Received.method = "RECOGNITION-COMPLETE"
    /\ CompletesRecog
    /\ sm_state' = "RECOGNIZED"
    /\ SendEvent(Received)
    /\ StartPending
    /\ UNCHANGED <<recog, sessionVars, deactivations, sm_active, deferred,
                   next_id, terminated, answers>>

EventUnexpected ==
    /\ Receives("event")
    /\ \/ Received.method = "START-OF-INPUT" /\ ~OfRecog
       \/ Received.method = "RECOGNITION-COMPLETE" /\ ~CompletesRecog
    /\ UNCHANGED <<serverVars, toEngine, clientVars>>

-----------------------------------------------------------------------------
Dispatch ==
    \/ RequestRecognize \/ RequestStop \/ RequestDefineGrammar
    \/ RequestGetResult \/ RequestStartTimers \/ RequestParams
    \/ Deactivate \/ StartDeferred

FromEngine ==
    \/ ResponseUnexpected \/ ResponseRecognize \/ ResponseStop \/ ResponsePlain
    \/ EventStartOfInput \/ EventRecognitionComplete \/ EventUnexpected

ServerNext == Dispatch \/ FromEngine

\* everything, one earlier request, or (its own id) none
Selections == {{}} \cup {{id} : id \in 1 .. next_id}

ClientNext ==
    \/ \E method \in Methods, only \in Selections, flag \in BOOLEAN :
           ClientRequest(method, only, flag)
    \/ ClientTerminate
=============================================================================
