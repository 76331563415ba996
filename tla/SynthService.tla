---------------------------- MODULE SynthService ----------------------------
(***************************************************************************)
(* What a synthesizer channel promises its client: a request is answered   *)
(* at most once; a SPEAK is PENDING at most until it is its turn, never    *)
(* two are IN-PROGRESS, and after COMPLETE nothing more is heard of it     *)
(* (mrcp_start_line.h:32-38).                                              *)
(***************************************************************************)
EXTENDS Naturals

CONSTANT Ids

VARIABLES answers, speech

ServiceInit ==
    /\ answers = [id \in Ids |-> 0]
    /\ speech = [id \in Ids |-> "none"]

Ask(id) ==
    /\ answers[id] = 0
    /\ speech[id] = "none"
    /\ speech' = [speech EXCEPT ![id] = "asked"]
    /\ UNCHANGED answers

Answer(id) ==
    /\ answers[id] = 0
    /\ answers' = [answers EXCEPT ![id] = 1]

Quiet == \A id \in Ids : speech[id] # "IN-PROGRESS"

\* the answer to a SPEAK
AnswerSpeak(id) ==
    /\ Answer(id)
    /\ speech[id] = "asked"
    /\ \E state \in {"PENDING", "IN-PROGRESS", "COMPLETE"} :
          /\ speech' = [speech EXCEPT ![id] = state]
          /\ state = "PENDING" => ~Quiet
          /\ state = "IN-PROGRESS" => Quiet

\* the answer to another request; it may list SPEAKs that were stopped
AnswerOther(id, stopped) ==
    /\ Answer(id)
    /\ speech[id] = "none"
    /\ \A other \in stopped : speech[other] \in {"PENDING", "IN-PROGRESS"}
    /\ speech' = [other \in Ids |->
                    IF other \in stopped THEN "COMPLETE" ELSE speech[other]]

\* SPEECH-MARKER, which may come instead of the answer
Start(id) ==
    /\ Quiet
    /\ speech[id] \in {"asked", "PENDING"}
    /\ speech' = [speech EXCEPT ![id] = "IN-PROGRESS"]
    /\ UNCHANGED answers

\* SPEAK-COMPLETE
Complete(id) ==
    /\ speech[id] = "IN-PROGRESS"
    /\ speech' = [speech EXCEPT ![id] = "COMPLETE"]
    /\ UNCHANGED answers

ServiceNext ==
    \E id \in Ids :
        \/ Ask(id) \/ AnswerSpeak(id) \/ Start(id) \/ Complete(id)
        \/ \E stopped \in SUBSET Ids : AnswerOther(id, stopped)

ServiceSpec == ServiceInit /\ [][ServiceNext]_<<answers, speech>>
=============================================================================
