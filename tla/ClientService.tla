---------------------------- MODULE ClientService ----------------------------
(* What a client session promises the application: every request is answered *)
(* at most once, in the order of asking as long as the session is whole; once *)
(* it is known to be broken nothing is set up any more; and the answer to the *)
(* termination is the last.                                                   *)
EXTENDS Naturals, Sequences

CONSTANTS Kinds, Statuses

VARIABLES requests,  \* the kinds of the requests, in the order of asking
          answers,   \* the answers so far: request and status
          broken     \* has the session failed?

Answered == {answers[i].id : i \in DOMAIN answers}
Open == DOMAIN requests \ Answered
Over == \E id \in Answered : requests[id] = "terminate"

ServiceInit == requests = <<>> /\ answers = <<>> /\ broken = FALSE

Ask == /\ ~Over
       /\ \E kind \in Kinds : requests' = Append(requests, kind)
       /\ UNCHANGED <<answers, broken>>

Answer(id, status) ==
  /\ ~Over
  /\ broken \/ \A other \in Open : id <= other
  /\ broken /\ status = "SUCCESS" => requests[id] \in {"discover", "terminate"}
  /\ answers' = Append(answers, [id |-> id, status |-> status])
  /\ broken' \in {broken, TRUE}
  /\ UNCHANGED requests

Break == ~Over /\ ~broken /\ broken' = TRUE /\ UNCHANGED <<requests, answers>>

ServiceNext == \/ Ask \/ Break
               \/ \E id \in Open, status \in Statuses : Answer(id, status)

ServiceSpec == ServiceInit /\ [][ServiceNext]_<<requests, answers, broken>>
=============================================================================
