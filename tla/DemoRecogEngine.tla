--------------------------- MODULE DemoRecogEngine ---------------------------
(***************************************************************************)
(* plugins/demo-recog/src/demo_recog_engine.c: one channel of the plugin.  *)
(* The task of the plugin takes the requests; the media engine writes a    *)
(* frame of the caller's audio to the stream every 10 milliseconds.  They  *)
(* share the channel without a lock.                                       *)
(***************************************************************************)
EXTENDS MrcpMessages, ActivityDetector

CONSTANTS
    CodecMayBeLost,  \* may a RECOGNIZE find the stream without a codec?
    MaxLoudFrames    \* bound: how many loud frames the caller sends

VARIABLES
    toEngine,        \* the requests in the queue of the plugin's task
    fromEngine,      \* the messages in the queue of the server task
    recog_request,   \* recog_channel->recog_request
    stop_response,   \* the request that recog_channel->stop_response answers
    timers_started,  \* recog_channel->timers_started
    detector,        \* recog_channel->detector
    taken,           \* a request that the task has taken and not yet stored
    clearing,        \* has a write sent stop_response and not yet cleared it?
    completing,      \* the RECOGNIZE whose end a write is about to announce
    loud_frames      \* the caller: how many loud frames may still come?

taskVars  == <<timers_started, taken>>
mediaVars == <<detector, clearing, completing, loud_frames>>

EngineInit ==
    /\ recog_request = NULL /\ stop_response = NULL /\ timers_started = FALSE
    /\ detector = NewDetector
    /\ taken = NULL /\ clearing = FALSE /\ completing = NULL
    /\ loud_frames = MaxLoudFrames

EngineTypeOK ==
    /\ {recog_request, stop_response, taken, completing}
           \subseteq Request \cup {NULL}
    /\ timers_started \in BOOLEAN /\ clearing \in BOOLEAN
    /\ detector \in Detector
    /\ loud_frames \in 0 .. MaxLoudFrames

SendToServer(message) == fromEngine' = Append(fromEngine, message)

-----------------------------------------------------------------------------
(* The plugin's task.                                                      *)

Takes(methods) ==
    /\ taken = NULL
    /\ toEngine # <<>>
    /\ toEngine' = Tail(toEngine)
    /\ Head(toEngine).method \in methods

Answers(state) == SendToServer(Response(Head(toEngine), state))

\* the response leaves before the request is stored
RecognizeAccepted ==
    /\ Takes({"RECOGNIZE"})
    /\ timers_started' = Head(toEngine).flag
    /\ Answers("IN-PROGRESS")
    /\ taken' = Head(toEngine)
    /\ UNCHANGED <<recog_request, stop_response, mediaVars>>

RecognizeStored ==
    /\ taken # NULL
    /\ recog_request' = taken
    /\ taken' = NULL
    /\ UNCHANGED <<toEngine, fromEngine, stop_response, timers_started, mediaVars>>

RecognizeRefused ==
    /\ CodecMayBeLost
    /\ Takes({"RECOGNIZE"})
    /\ Answers("COMPLETE")
    /\ UNCHANGED <<recog_request, stop_response, taskVars, mediaVars>>

\* STOP is left to the media engine to answer
StopStored ==
    /\ Takes({"STOP"})
    /\ stop_response' = Head(toEngine)
    /\ UNCHANGED <<fromEngine, recog_request, taskVars, mediaVars>>

TimersStartSilently ==  \* mutant: without the response
    /\ Takes({"START-INPUT-TIMERS"})
    /\ timers_started' = TRUE
    /\ UNCHANGED <<fromEngine, recog_request, stop_response, taken, mediaVars>>

TimersStart ==
    /\ Takes({"START-INPUT-TIMERS"})
    /\ timers_started' = TRUE
    /\ Answers("COMPLETE")
    /\ UNCHANGED <<recog_request, stop_response, taken, mediaVars>>

OtherAnswered ==
    /\ Takes({"SET-PARAMS", "DEFINE-GRAMMAR", "GET-RESULT"})
    /\ Answers("COMPLETE")
    /\ UNCHANGED <<recog_request, stop_response, taskVars, mediaVars>>

-----------------------------------------------------------------------------
(* The media engine: one write to the stream.                              *)

WriteStarts == ~clearing /\ completing = NULL

\* the response leaves before the channel is cleared
StopAnswered ==
    /\ WriteStarts
    /\ stop_response # NULL
    /\ SendToServer(Response(stop_response, "COMPLETE"))
    /\ clearing' = TRUE
    /\ UNCHANGED <<toEngine, stop_response, recog_request, taskVars, detector,
                   completing, loud_frames>>

StopCleared ==
    /\ clearing
    /\ clearing' = FALSE
    /\ stop_response' = NULL /\ recog_request' = NULL
    /\ UNCHANGED <<toEngine, fromEngine, taskVars, detector, completing,
                   loud_frames>>

FrameWritten(loud) ==
    /\ WriteStarts
    /\ stop_response = NULL
    /\ recog_request # NULL
    /\ loud => loud_frames > 0
    /\ loud_frames' = IF loud THEN loud_frames - 1 ELSE loud_frames
    /\ detector' = Processed(detector, loud)
    /\ UNCHANGED <<toEngine, stop_response, taskVars, clearing>>

CompletesRecognition(loud) ==
    \/ Detected(detector, loud) = "INACTIVITY"
    \/ Detected(detector, loud) = "NOINPUT" /\ timers_started

FrameHeard(loud) ==
    /\ FrameWritten(loud)
    /\ ~CompletesRecognition(loud)
    /\ \/ /\ Detected(detector, loud) = "ACTIVITY"
          /\ SendToServer(StartOfInput(recog_request))
       \/ Detected(detector, loud) # "ACTIVITY" /\ UNCHANGED fromEngine
    /\ UNCHANGED <<recog_request, completing>>

\* the event is created
RecognitionEnds(loud) ==
    /\ FrameWritten(loud)
    /\ CompletesRecognition(loud)
    /\ completing' = recog_request
    /\ UNCHANGED <<fromEngine, recog_request>>

\* recog_request is forgotten, whatever it is by now, and the event leaves
RecognitionCleared ==
    /\ completing # NULL
    /\ completing' = NULL
    /\ recog_request' = NULL
    /\ SendToServer(Event("RECOGNITION-COMPLETE", completing))
    /\ UNCHANGED <<toEngine, stop_response, taskVars, detector, clearing,
                   loud_frames>>

-----------------------------------------------------------------------------
PluginNext ==
    \/ RecognizeAccepted \/ RecognizeStored \/ RecognizeRefused \/ StopStored
    \/ TimersStart \/ OtherAnswered

MediaNext ==
    \/ StopAnswered \/ StopCleared \/ RecognitionCleared
    \/ \E loud \in BOOLEAN : FrameHeard(loud) \/ RecognitionEnds(loud)
=============================================================================
