---------------------------- MODULE RecogChannel ----------------------------
(***************************************************************************)
(* A recognizer channel of one MRCPv2 session: the client, the server task *)
(* and the two threads of a plugin, which is the demo plugin or the one    *)
(* made from it for a recognition service.                                 *)
(***************************************************************************)
EXTENDS RecogStateMachine

CONSTANTS
    CodecMayBeLost, MaxLoudFrames,                  \* see DemoRecogEngine
    SdkMayFail,                                     \* see XfyunRecogEngine
    SpeechTimeout, SilenceTimeout, NoInputTimeout   \* see ActivityDetector

ASSUME EngineAssumption ==
    /\ {CodecMayBeLost, SdkMayFail} \subseteq BOOLEAN
    /\ MaxLoudFrames \in Nat
    /\ {SpeechTimeout, SilenceTimeout, NoInputTimeout} \subseteq Nat \ {0}

VARIABLES
    plugin,  \* which of the two plugins the server has loaded
    recog_request, stop_response, timers_started, detector, taken,
    clearing, completing, loud_frames,
    session_id, sdk_sessions, task_step, media_step

sdkVars == <<session_id, sdk_sessions, task_step, media_step>>

Engine == INSTANCE XfyunRecogEngine

channelVars == <<recog_request, stop_response, timers_started, detector,
                 taken, clearing, completing, loud_frames, sdkVars>>

vars == <<serverVars, queueVars, clientVars, channelVars, plugin>>

Init ==
    /\ MachineInit
    /\ Engine!XfyunInit
    /\ plugin \in {"demo", "xfyun"}

ServerStep == ServerNext /\ UNCHANGED <<channelVars, plugin>>

ClientStep == ClientNext /\ UNCHANGED <<channelVars, plugin>>

PluginStep ==
    /\ \/ plugin = "demo" /\ Engine!PluginNext /\ UNCHANGED sdkVars
       \/ plugin = "xfyun" /\ Engine!XfyunPluginNext
    /\ UNCHANGED <<serverVars, clientVars, plugin>>

MediaStep ==
    /\ \/ plugin = "demo" /\ Engine!MediaNext /\ UNCHANGED sdkVars
       \/ plugin = "xfyun" /\ Engine!XfyunMediaNext
    /\ UNCHANGED <<serverVars, clientVars, plugin>>

Next == ServerStep \/ ClientStep \/ PluginStep \/ MediaStep

Spec == Init /\ [][Next]_vars

(***************************************************************************)
(* The tasks of the server and of the plugin take their next message, the  *)
(* media engine writes a frame every 10 ms.  The client owes nothing; that *)
(* the caller is silent in the end is the bound on loud frames.            *)
(***************************************************************************)
FairSpec ==
    /\ Spec
    /\ WF_vars(ServerStep)
    /\ WF_vars(PluginStep)
    /\ WF_vars(MediaStep)

-----------------------------------------------------------------------------
TypeOK == MachineTypeOK /\ Engine!EngineTypeOK /\ Engine!XfyunTypeOK

(***************************************************************************)
(* The state and the pointer are assigned in different places; there is a  *)
(* recognition, in progress or recognized, exactly when the machine is not *)
(* idle (recog_response_recognize, recog_state_change).                    *)
(***************************************************************************)
RecogState == (sm_state = "IDLE") <=> (recog = NULL)

(***************************************************************************)
(* The answer to a STOP follows recog without a check                      *)
(* (recog_response_stop): while a STOP is at the engine the recognition it *)
(* stops stays, whatever events and late answers come first.               *)
(***************************************************************************)
StopHasRecognition ==
    active_request # NULL /\ active_request.method = "STOP"
        => sm_state = "RECOGNIZING" /\ recog # NULL

(***************************************************************************)
(* A pending RECOGNIZE is started only by the end of another one: the      *)
(* queue is not left behind without a recognition in progress, or a start  *)
(* that is under way.                                                      *)
(***************************************************************************)
NoOrphanedRecognize ==
    recog_queue # <<>> => sm_state = "RECOGNIZING" \/ is_pending \/ deferred # NULL

(***************************************************************************)
(* What the handlers of recog_*_state_machine rely on, taken together.     *)
(***************************************************************************)
RecognitionInv == RecogState /\ StopHasRecognition /\ NoOrphanedRecognize

Service == INSTANCE RecogService

(***************************************************************************)
(* The client sees the service of RecogService, whatever it pipelines and  *)
(* whatever races the events of the media engine run with its requests.    *)
(***************************************************************************)
ServiceRefinement == Service!ServiceSpec

Settled ==
    /\ toEngine = <<>> /\ taken = NULL /\ stop_response = NULL
    /\ ~clearing /\ completing = NULL /\ media_step = "idle"

(***************************************************************************)
(* Sessions of the recognition service are begun by the plugin's task and  *)
(* ended by either thread without a lock (xfyun_recog_end_session).  None  *)
(* is lost open, and the one that a settled channel has recorded is not    *)
(* one that was ended.                                                     *)
(***************************************************************************)
SdkSessionKept ==
    /\ sdk_sessions \subseteq {session_id}
    /\ Settled /\ session_id # 0 => session_id \in sdk_sessions

\* a write is about to clear a STOP other than the one that it has answered
ClearsAnother ==
    /\ clearing
    /\ stop_response = active_request
    /\ \A i \in DOMAIN fromEngine : fromEngine[i].id # active_request.id

(***************************************************************************)
(* A session answers every request sent before its end, though it stops    *)
(* taking requests while one of them is unanswered: the only other way is  *)
(* a STOP lost by a write.                                                 *)
(***************************************************************************)
EveryRequestAnswered ==
    []~ClearsAnother =>
        \A id \in Ids : id < next_id /\ ~terminated ~> answers[id] = 1

(***************************************************************************)
(* mrcp_start_line.h:36 says of IN-PROGRESS: "Indicate that further event  *)
(* messages will be delivered with that request-id".  A recognition whose  *)
(* timers run ends for the client, by speech or without input, unless the  *)
(* session ends first.                                                     *)
(***************************************************************************)
RecognitionCompletes ==
    \A id \in Ids :
        recognition[id] = "IN-PROGRESS" /\ timers_started
            ~> recognition[id] = "COMPLETE" \/ session_state # "UP"

(***************************************************************************)
(* A client that ends its session, in whatever state the recognition is,   *)
(* sees it terminate, with the same exception.                             *)
(***************************************************************************)
SessionEnds == []~ClearsAnother => (terminated ~> session_state = "TERMINATING")
=============================================================================
