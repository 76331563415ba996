--------------------------- MODULE DemoSynthEngine ---------------------------
(***************************************************************************)
(* plugins/demo-synth/src/demo_synth_engine.c: one channel of the plugin.  *)
(* Two threads share it without a lock: the task of the plugin, which      *)
(* takes the requests in order, and the media engine, which reads a frame  *)
(* from the stream of the channel every 10 milliseconds.                   *)
(***************************************************************************)
EXTENDS MrcpMessages

CONSTANT CodecMayBeLost  \* may a SPEAK find the stream without a codec?

VARIABLES
    toEngine,       \* the requests in the queue of the plugin's task
    fromEngine,     \* the messages in the queue of the server task
    speak_request,  \* synth_channel->speak_request
    stop_response,  \* the request that synth_channel->stop_response answers
    paused,         \* synth_channel->paused
    accepted,       \* a SPEAK answered and not yet stored in speak_request
    clearing,       \* has a read sent stop_response and not yet cleared it?
    ending          \* the SPEAK whose completion a read is about to announce

EngineInit ==
    /\ speak_request = NULL /\ stop_response = NULL /\ paused = FALSE
    /\ accepted = NULL /\ clearing = FALSE /\ ending = NULL

EngineTypeOK ==
    /\ {speak_request, stop_response, accepted, ending} \subseteq Request \cup {NULL}
    /\ paused \in BOOLEAN /\ clearing \in BOOLEAN

SendToServer(message) == fromEngine' = Append(fromEngine, message)

-----------------------------------------------------------------------------
(* The plugin's task.                                                      *)

Takes(methods) ==
    /\ accepted = NULL
    /\ toEngine # <<>>
    /\ toEngine' = Tail(toEngine)
    /\ Head(toEngine).method \in methods

\* the response leaves before the request is stored
SpeakAccepted ==
    /\ Takes({"SPEAK"})
    /\ SendToServer(Response(Head(toEngine), "IN-PROGRESS"))
    /\ accepted' = Head(toEngine)
    /\ UNCHANGED <<speak_request, stop_response, paused, clearing, ending>>

SpeakStored ==
    /\ accepted # NULL
    /\ speak_request' = accepted
    /\ accepted' = NULL
    /\ UNCHANGED <<toEngine, fromEngine, stop_response, paused, clearing, ending>>

SpeakRefused ==
    /\ CodecMayBeLost
    /\ Takes({"SPEAK"})
    /\ SendToServer(Response(Head(toEngine), "COMPLETE"))
    /\ UNCHANGED <<speak_request, stop_response, paused, accepted, clearing, ending>>

\* STOP and BARGE-IN-OCCURRED are left to the media engine to answer
StopStored ==
    /\ Takes({"STOP", "BARGE-IN-OCCURRED"})
    /\ stop_response' = Head(toEngine)
    /\ UNCHANGED <<fromEngine, speak_request, paused, accepted, clearing, ending>>

PauseOrResume ==
    /\ Takes({"PAUSE", "RESUME"})
    /\ paused' = (Head(toEngine).method = "PAUSE")
    /\ SendToServer(Response(Head(toEngine), "COMPLETE"))
    /\ UNCHANGED <<speak_request, stop_response, accepted, clearing, ending>>

OtherAnswered ==
    /\ Takes({"SET-PARAMS", "CONTROL", "DEFINE-LEXICON"})
    /\ SendToServer(Response(Head(toEngine), "COMPLETE"))
    /\ UNCHANGED <<speak_request, stop_response, paused, accepted, clearing, ending>>

-----------------------------------------------------------------------------
(* The media engine: one read of the stream.                               *)

ReadStarts == ~clearing /\ ending = NULL

\* the response leaves before the channel is cleared
StopAnswered ==
    /\ ReadStarts
    /\ stop_response # NULL
    /\ SendToServer(Response(stop_response, "COMPLETE"))
    /\ clearing' = TRUE
    /\ UNCHANGED <<toEngine, speak_request, stop_response, paused, accepted, ending>>

StopClearedSpeaking ==  \* mutant: the speech is not forgotten
    /\ clearing
    /\ clearing' = FALSE
    /\ stop_response' = NULL
    /\ paused' = FALSE
    /\ UNCHANGED <<toEngine, fromEngine, speak_request, accepted, ending>>

StopCleared ==
    /\ clearing
    /\ clearing' = FALSE
    /\ stop_response' = NULL
    /\ speak_request' = NULL
    /\ paused' = FALSE
    /\ UNCHANGED <<toEngine, fromEngine, accepted, ending>>

\* the last frame of the speech was read
SpeechEnds ==
    /\ ReadStarts
    /\ stop_response = NULL
    /\ speak_request # NULL
    /\ ~paused
    /\ ending' = speak_request
    /\ UNCHANGED <<toEngine, fromEngine, speak_request, stop_response, paused,
                   accepted, clearing>>

\* speak_request is forgotten, whatever it is by now, and the event leaves
SpeechCleared ==
    /\ ending # NULL
    /\ ending' = NULL
    /\ speak_request' = NULL
    /\ SendToServer(Event("SPEAK-COMPLETE", ending))
    /\ UNCHANGED <<toEngine, stop_response, paused, accepted, clearing>>

-----------------------------------------------------------------------------
PluginNext ==
    \/ SpeakAccepted \/ SpeakStored \/ SpeakRefused \/ StopStored
    \/ PauseOrResume \/ OtherAnswered

MediaNext == StopAnswered \/ StopCleared \/ SpeechEnds \/ SpeechCleared

EngineNext == PluginNext \/ MediaNext
=============================================================================
