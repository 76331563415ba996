---------------------------- MODULE SynthChannel ----------------------------
(***************************************************************************)
(* A synthesizer channel of one MRCPv2 session: the client, the server     *)
(* task and the two threads of the demo plugin.  A session with one        *)
(* channel, which is open from the start.                                  *)
(***************************************************************************)
EXTENDS SynthStateMachine

CONSTANT CodecMayBeLost  \* see DemoSynthEngine

ASSUME EngineAssumption == CodecMayBeLost \in BOOLEAN

VARIABLES speak_request, stop_response, paused, accepted, clearing, ending

Engine == INSTANCE DemoSynthEngine

channelVars == <<speak_request, stop_response, paused, accepted, clearing, ending>>

vars == <<serverVars, queueVars, clientVars, channelVars>>

Init == MachineInit /\ Engine!EngineInit

\* a crash ends the process with all its threads
ServerStep == ~crashed /\ ServerNext /\ UNCHANGED channelVars

ClientStep == ~crashed /\ ClientNext /\ UNCHANGED channelVars

PluginStep == ~crashed /\ Engine!PluginNext /\ UNCHANGED <<serverVars, clientVars>>

MediaStep == ~crashed /\ Engine!MediaNext /\ UNCHANGED <<serverVars, clientVars>>

Next == ServerStep \/ ClientStep \/ PluginStep \/ MediaStep

Spec == Init /\ [][Next]_vars

(***************************************************************************)
(* The tasks of the server and of the plugin take their next message, the  *)
(* media engine reads the stream every 10 ms.  The client owes nothing.    *)
(***************************************************************************)
FairSpec ==
    /\ Spec
    /\ WF_vars(ServerStep)
    /\ WF_vars(PluginStep)
    /\ WF_vars(MediaStep)

-----------------------------------------------------------------------------
TypeOK == MachineTypeOK /\ Engine!EngineTypeOK

(***************************************************************************)
(* The state and the speaker pointer are assigned in different places      *)
(* (synth_response_speak, synth_state_change, the PAUSE and RESUME         *)
(* responses), on the word of an engine that runs ahead; there is a        *)
(* speaker exactly when the machine is not idle.                           *)
(***************************************************************************)
SpeakerState == (sm_state = "IDLE") <=> (speaker = NULL)

(***************************************************************************)
(* A pending SPEAK is only started when another one ends: the queue is not *)
(* left behind without a speaker whose end will start it, or a start that  *)
(* is already under way (synth_response_stop, synth_event_speak_complete). *)
(***************************************************************************)
NoOrphanedSpeak ==
    speak_queue # <<>> => speaker # NULL \/ is_pending \/ deferred # NULL

(***************************************************************************)
(* The session counts the state machines that await a STOP before it goes  *)
(* on to remove its channels; a report it does not await would be taken    *)
(* off the count of the removals (mrcp_server_session_subrequest_remove).  *)
(***************************************************************************)
ReportIsAwaited ==
    [][deactivations' # deactivations => session_state = "DEACTIVATING"]_vars

Service == INSTANCE SynthService

(***************************************************************************)
(* The client sees the service of SynthService, whatever the races between *)
(* its requests, the answers of the plugin's task and the end of a speech. *)
(***************************************************************************)
ServiceRefinement == Service!ServiceSpec

(***************************************************************************)
(* mrcp_synth_state_machine.c:51 calls the speaker the "in-progress speak  *)
(* request"; the handlers of the engine's answers rely on there being one. *)
(***************************************************************************)
NoCrash == ~crashed

(***************************************************************************)
(* mrcp_synth_state_machine.c:49 says of active_request: "request sent to  *)
(* synthesizer engine and waiting for the response to be received".  The   *)
(* request on whose answer the whole session waits is that request.        *)
(***************************************************************************)
OwedIsActive ==
    in_progress # NULL /\ ~dispatching /\ session_state = "UP"
        => active_request = in_progress

Settled ==
    /\ Waiting /\ toEngine = <<>> /\ fromEngine = <<>>
    /\ accepted = NULL /\ stop_response = NULL /\ ~clearing /\ ending = NULL

(***************************************************************************)
(* demo_synth_engine.c:97 calls speak_request the "Active (in-progress)    *)
(* speak request".  Once every message is handled, the plugin speaks       *)
(* nothing but what the server believes to be in progress.                 *)
(***************************************************************************)
SpokenIsSpeaker == Settled /\ speak_request # NULL => speaker = speak_request

\* the converse fails where a read clears a SPEAK that was stored within it
SpeakerIsSpoken == Settled /\ speaker # NULL => speak_request = speaker

(***************************************************************************)
(* The state machine and the plugin agree, as long as there is a server:   *)
(* the session waits for what the machine waits for, and nothing is spoken *)
(* that the machine does not know of and nobody could stop.                *)
(***************************************************************************)
MachineKnowsEngine == ~crashed => OwedIsActive /\ SpokenIsSpeaker

(***************************************************************************)
(* mrcp_synth_state_machine.c:217 answers a STOP at once where it "found   *)
(* no in-progress SPEAK request".  When a STOP that selects nothing is     *)
(* answered, every SPEAK sent before it is over.                           *)
(***************************************************************************)
StopSilences ==
    [][\A id \in Ids :
        /\ answers'[id] # answers[id]
        /\ in_progress.method = "STOP"
        /\ in_progress.only = {}
        => \A other \in 1 .. id - 1 : speech'[other] \in {"none", "COMPLETE"}]_vars

\* a read is about to clear a STOP other than the one that it has answered
ClearsAnother ==
    /\ clearing
    /\ stop_response = active_request
    /\ \A i \in DOMAIN fromEngine : fromEngine[i].id # active_request.id

(***************************************************************************)
(* A session answers every request sent before its end, though it stops    *)
(* taking requests while one of them is unanswered: the only other ways    *)
(* are a STOP lost by a read and a crash of the server.                    *)
(***************************************************************************)
EveryRequestAnswered ==
    [](~ClearsAnother /\ ~crashed) =>
        \A id \in Ids : id < next_id /\ ~terminated ~> answers[id] = 1

(***************************************************************************)
(* mrcp_start_line.h:36 says of IN-PROGRESS: "Indicate that further event  *)
(* messages will be delivered with that request-id".  The client hears of  *)
(* the end of every SPEAK in progress, unless the session ends first.      *)
(***************************************************************************)
SpeechCompletes ==
    \A id \in Ids :
        speech[id] = "IN-PROGRESS"
            ~> speech[id] = "COMPLETE" \/ session_state # "UP"

(***************************************************************************)
(* A client that ends its session while a SPEAK is in progress, completes  *)
(* or is being stopped sees it terminate, with the same two exceptions.    *)
(***************************************************************************)
SessionEnds ==
    [](~ClearsAnother /\ ~crashed) =>
        (terminated ~> session_state = "TERMINATING")
=============================================================================
