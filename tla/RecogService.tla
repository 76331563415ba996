---------------------------- MODULE RecogService ----------------------------
(***************************************************************************)
(* What a recognizer channel promises its client: a request is answered at *)
(* most once, a RECOGNIZE is PENDING only behind another one, no two are   *)
(* IN-PROGRESS, and after COMPLETE nothing more is heard of a RECOGNIZE    *)
(* (mrcp_start_line.h:32-38).                                              *)
(***************************************************************************)
EXTENDS Naturals

CONSTANT Ids

VARIABLES answers, recognition

ServiceInit ==
    /\ answers = [id \in Ids |-> 0]
    /\ recognition = [id \in Ids |-> "none"]

Ask(id) ==
    /\ answers[id] = 0
    /\ recognition[id] = "none"
    /\ recognition' = [recognition EXCEPT ![id] = "asked"]
    /\ UNCHANGED answers

Answer(id) ==
    /\ answers[id] = 0
    /\ answers' = [answers EXCEPT ![id] = 1]

Quiet == \A id \in Ids : recognition[id] # "IN-PROGRESS"

\* there is another RECOGNIZE, whose turn has come or comes first
Behind(id) ==
    \E other \in Ids \ {id} : recognition[other] \in {"PENDING", "IN-PROGRESS"}

\* the answer to a RECOGNIZE
AnswerRecognize(id) ==
    /\ Answer(id)
    /\ recognition[id] = "asked"
    /\ \E state \in {"PENDING", "IN-PROGRESS", "COMPLETE"} :
          /\ recognition' = [recognition EXCEPT ![id] = state]
          /\ state = "IN-PROGRESS" => Quiet
          /\ state = "PENDING" => Behind(id)

\* the answer to another request; it may list RECOGNIZEs that were stopped
AnswerOther(id, stopped) ==
    /\ Answer(id)
    /\ recognition[id] = "none"
    /\ \A other \in stopped :
          recognition[other] \in {"asked", "PENDING", "IN-PROGRESS"}
    /\ recognition' = [other \in Ids |->
           IF other \in stopped THEN "COMPLETE" ELSE recognition[other]]

\* START-OF-INPUT: the first word of a RECOGNIZE that was pending
Begin(id) ==
    /\ \A other \in Ids \ {id} : recognition[other] # "IN-PROGRESS"
    /\ recognition[id] \in {"asked", "PENDING"}
    /\ recognition' = [recognition EXCEPT ![id] = "IN-PROGRESS"]
    /\ UNCHANGED answers

\* RECOGNITION-COMPLETE
Complete(id) ==
    /\ recognition[id] \in {"asked", "PENDING", "IN-PROGRESS"}
    /\ recognition' = [recognition EXCEPT ![id] = "COMPLETE"]
    /\ UNCHANGED answers

ServiceNext ==
    \E id \in Ids :
        \/ Ask(id) \/ AnswerRecognize(id) \/ Begin(id) \/ Complete(id)
        \/ \E stopped \in SUBSET Ids : AnswerOther(id, stopped)

ServiceSpec == ServiceInit /\ [][ServiceNext]_<<answers, recognition>>
=============================================================================
