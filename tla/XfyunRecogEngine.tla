-------------------------- MODULE XfyunRecogEngine --------------------------
(***************************************************************************)
(* plugins/xfyun-recog/src/xfyun_recog_engine.c: made from the demo plugin *)
(* by passing the audio to a recognition service, through its library.     *)
(* "sdk_sessions" is the state of that library (external): the sessions    *)
(* begun by QISRSessionBegin and not yet ended by QISRSessionEnd, each     *)
(* named by the request it was begun for.  The text of the results is left *)
(* out.                                                                    *)
(***************************************************************************)
EXTENDS DemoRecogEngine

CONSTANT SdkMayFail  \* may QISRSessionBegin fail?

VARIABLES
    session_id,    \* recog_channel->session_id
    sdk_sessions,  \* the sessions open at the service
    task_step,     \* where the plugin's task is within its request,
    media_step     \* and the media engine within a write

\* a RECOGNIZE has its session, or has failed; xfyun_recog_end_session
Steps == {"idle", "begun", "failed", "check", "end", "reset", "ended"}

sdkVars == <<session_id, sdk_sessions, task_step, media_step>>

XfyunInit ==
    /\ EngineInit
    /\ session_id = 0 /\ sdk_sessions = {}
    /\ task_step = "idle" /\ media_step = "idle"

XfyunTypeOK ==
    /\ session_id \in Nat /\ sdk_sessions \subseteq Nat
    /\ task_step \in Steps /\ media_step \in Steps

EndSessionKept(step, next) ==  \* mutant: the id is not forgotten
    \/ /\ step = "check"
       /\ next = IF session_id = 0 THEN "ended" ELSE "end"
       /\ UNCHANGED <<session_id, sdk_sessions>>
    \/ /\ step = "end" /\ next = "ended"
       /\ sdk_sessions' = sdk_sessions \ {session_id}
       /\ UNCHANGED session_id

\* xfyun_recog_end_session, which either thread runs without a lock: it reads
\* session_id, ends the session it reads now, and forgets it
EndSession(step, next) ==
    \/ /\ step = "check"
       /\ next = IF session_id = 0 THEN "ended" ELSE "end"
       /\ UNCHANGED <<session_id, sdk_sessions>>
    \/ /\ step = "end" /\ next = "reset"
       /\ sdk_sessions' = sdk_sessions \ {session_id}
       /\ UNCHANGED session_id
    \/ /\ step = "reset" /\ next = "ended"
       /\ session_id' = 0
       /\ UNCHANGED sdk_sessions

-----------------------------------------------------------------------------
(* The plugin's task.                                                      *)

Begins == task_step = "idle" /\ taken # NULL

\* a session that the last RECOGNIZE may have left is not ended first
XfyunSessionBegins ==
    /\ Begins
    /\ session_id' = taken.id
    /\ sdk_sessions' = sdk_sessions \cup {taken.id}
    /\ task_step' = "begun"
    /\ UNCHANGED <<toEngine, fromEngine, recog_request, stop_response, taskVars,
                   mediaVars, media_step>>

XfyunBeginFails ==
    /\ SdkMayFail
    /\ Begins
    /\ session_id' = 0
    /\ task_step' = "failed"
    /\ UNCHANGED <<toEngine, fromEngine, recog_request, stop_response, taskVars,
                   mediaVars, sdk_sessions, media_step>>

\* IN-PROGRESS has been answered; the caller sends the same response again
XfyunFailureAnswered ==
    /\ task_step = "failed"
    /\ SendToServer(Response(taken, "IN-PROGRESS"))
    /\ taken' = NULL
    /\ task_step' = "idle"
    /\ UNCHANGED <<toEngine, recog_request, stop_response, timers_started,
                   mediaVars, session_id, sdk_sessions, media_step>>

XfyunRecognizeStored ==
    /\ task_step = "begun"
    /\ RecognizeStored
    /\ task_step' = "idle"
    /\ UNCHANGED <<session_id, sdk_sessions, media_step>>

XfyunStopTaken ==
    /\ Takes({"STOP"})
    /\ taken' = Head(toEngine)
    /\ task_step' = "check"
    /\ UNCHANGED <<fromEngine, recog_request, stop_response, timers_started,
                   mediaVars, session_id, sdk_sessions, media_step>>

XfyunTaskEndsSession ==
    /\ EndSession(task_step, task_step')
    /\ UNCHANGED <<toEngine, fromEngine, recog_request, stop_response, taskVars,
                   mediaVars, media_step>>

XfyunStopStored ==
    /\ task_step = "ended"
    /\ stop_response' = taken
    /\ taken' = NULL
    /\ task_step' = "idle"
    /\ UNCHANGED <<toEngine, fromEngine, recog_request, timers_started, mediaVars,
                   session_id, sdk_sessions, media_step>>

-----------------------------------------------------------------------------
(* The media engine.  At the end of a recognition it waits for the last    *)
(* result of the service and ends the session before it creates the event. *)

XfyunRecognitionEnds(loud) ==
    /\ media_step = "idle"
    /\ FrameWritten(loud)
    /\ CompletesRecognition(loud)
    /\ media_step' = "check"
    /\ UNCHANGED <<fromEngine, recog_request, completing, session_id, sdk_sessions,
                   task_step>>

XfyunMediaEndsSession ==
    /\ EndSession(media_step, media_step')
    /\ UNCHANGED <<toEngine, fromEngine, recog_request, stop_response, taskVars,
                   mediaVars, task_step>>

XfyunEventCreated ==
    /\ media_step = "ended"
    /\ completing' = recog_request
    /\ media_step' = "idle"
    /\ UNCHANGED <<toEngine, fromEngine, recog_request, stop_response, taskVars,
                   detector, clearing, loud_frames, session_id, sdk_sessions,
                   task_step>>

-----------------------------------------------------------------------------
XfyunPluginNext ==
    \/ XfyunSessionBegins \/ XfyunRecognizeStored
    \/ XfyunBeginFails \/ XfyunFailureAnswered
    \/ XfyunStopTaken \/ XfyunTaskEndsSession \/ XfyunStopStored
    \/ /\ RecognizeAccepted \/ RecognizeRefused \/ TimersStart \/ OtherAnswered
       /\ UNCHANGED sdkVars

XfyunMediaNext ==
    \/ \E loud \in BOOLEAN : XfyunRecognitionEnds(loud)
    \/ XfyunMediaEndsSession \/ XfyunEventCreated
    \/ /\ media_step = "idle"
       /\ \/ StopAnswered \/ StopCleared \/ RecognitionCleared
          \/ \E loud \in BOOLEAN : FrameHeard(loud)
       /\ UNCHANGED sdkVars
=============================================================================
