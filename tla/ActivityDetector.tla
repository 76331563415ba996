-------------------------- MODULE ActivityDetector --------------------------
(***************************************************************************)
(* libs/mpf/src/mpf_activity_detector.c: decides from the level of each    *)
(* frame whether somebody speaks.  Timeouts are counted in frames.         *)
(***************************************************************************)
EXTENDS Naturals

CONSTANTS SpeechTimeout, SilenceTimeout, NoInputTimeout

DetectorStates ==
    {"INACTIVITY", "ACTIVITY_TRANSITION", "ACTIVITY", "INACTIVITY_TRANSITION"}

\* mpf_activity_detector_state_change
In(state) == [state |-> state, duration |-> 0]

NewDetector == In("INACTIVITY")

(***************************************************************************)
(* In INACTIVITY the duration grows on; it stops at the timeout here, with *)
(* which alone it is compared.  In ACTIVITY it is compared with nothing.   *)
(***************************************************************************)
Detector ==
    [state: DetectorStates,
     duration: 0 .. SpeechTimeout + SilenceTimeout + NoInputTimeout]

Lasting(detector, timeout) ==
    [detector EXCEPT !.duration = IF @ < timeout THEN @ + 1 ELSE timeout]

\* "loud": does the level of the frame reach the threshold?
Processed(detector, loud) ==
    CASE detector.state = "INACTIVITY" ->
             IF loud THEN In("ACTIVITY_TRANSITION")
             ELSE Lasting(detector, NoInputTimeout)
      [] detector.state = "ACTIVITY_TRANSITION" ->
             IF ~loud THEN In("INACTIVITY")
             ELSE IF detector.duration + 1 >= SpeechTimeout THEN In("ACTIVITY")
             ELSE Lasting(detector, SpeechTimeout)
      [] detector.state = "ACTIVITY" ->
             IF loud THEN detector ELSE In("INACTIVITY_TRANSITION")
      [] detector.state = "INACTIVITY_TRANSITION" ->
             IF loud THEN In("ACTIVITY")
             ELSE IF detector.duration + 1 >= SilenceTimeout THEN In("INACTIVITY")
             ELSE Lasting(detector, SilenceTimeout)

\* the event that mpf_activity_detector_process returns for that frame
Detected(detector, loud) ==
    LET next == Processed(detector, loud) IN
    CASE detector.state = "ACTIVITY_TRANSITION" /\ next.state = "ACTIVITY" ->
             "ACTIVITY"
      [] detector.state = "INACTIVITY_TRANSITION" /\ next.state = "INACTIVITY" ->
             "INACTIVITY"
      [] next.state = "INACTIVITY" /\ next.duration >= NoInputTimeout -> "NOINPUT"
      [] OTHER -> "NONE"
=============================================================================
