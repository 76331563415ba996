--------------------------- MODULE SessionRequests ---------------------------
(***************************************************************************)
(* A server session (mrcp_server_session.c) with one channel, as far as    *)
(* the channel's state machine sees it: it hands over one request at a     *)
(* time and, at its end, waits for the machine.  ServerSession has the     *)
(* rest of the session.                                                    *)
(*                                                                         *)
(* The client is modelled at the point where the server task takes its     *)
(* messages from the task queue.                                           *)
(***************************************************************************)
EXTENDS MrcpMessages

VARIABLES
    in_progress, request_queue, dispatching,  \* see SignalingQueue
    session_state,  \* "UP", "DEACTIVATING" or "TERMINATING"
    deactivations,  \* how often did a state machine report its deactivation?
    next_id,        \* the client: the id of its next request
    terminated,     \* the client: has it ended the session?
    answers         \* the client: how often was each request answered?

INSTANCE SignalingQueue

sessionVars == <<in_progress, request_queue, session_state, dispatching>>

SessionInit ==
    /\ QueueInit
    /\ session_state = "UP"
    /\ deactivations = 0
    /\ next_id = 1
    /\ terminated = FALSE
    /\ answers = [id \in Ids |-> 0]

SessionTypeOK ==
    /\ in_progress \in Request \cup {NULL}
    /\ request_queue \in Seq(Request)
    /\ session_state \in {"UP", "DEACTIVATING", "TERMINATING"}
    /\ dispatching \in BOOLEAN
    /\ deactivations \in Nat
    /\ next_id \in 1 .. MaxRequests + 1
    /\ terminated \in BOOLEAN
    /\ answers \in [Ids -> Nat]

Arrive(request) ==
    /\ Enqueue(request)
    /\ UNCHANGED <<session_state, deactivations, answers>>

NewRequest(method, only, flag) ==
    [id |-> next_id, method |-> method, only |-> only, flag |-> flag]

ArriveRequest(method, only, flag) ==
    /\ next_id <= MaxRequests
    /\ Arrive(NewRequest(method, only, flag))
    /\ next_id' = next_id + 1
    /\ UNCHANGED terminated

ArriveTerminate ==
    /\ ~terminated
    /\ Arrive(TerminateRequest)
    /\ terminated' = TRUE
    /\ UNCHANGED next_id

Dispatches(method) == dispatching /\ in_progress.method = method

\* state_machine_on_message_dispatch, for a response
SendResponse(response) ==
    /\ answers' = [answers EXCEPT ![response.id] = @ + 1]
    /\ PopRequest
    /\ UNCHANGED <<session_state, deactivations>>

ReportDeactivationUncounted ==  \* mutant: the session waits on
    /\ deactivations' = deactivations + 1
    /\ UNCHANGED <<session_state, in_progress, request_queue, dispatching, answers>>

\* state_machine_on_deactivate: the only sub-request is done
ReportDeactivation ==
    /\ deactivations' = deactivations + 1
    /\ session_state' = IF session_state = "DEACTIVATING"
                        THEN "TERMINATING" ELSE session_state
    /\ UNCHANGED <<in_progress, request_queue, dispatching, answers>>

DeactivateSessionUncounted(stopping) ==  \* mutant: the STOP is not counted
    /\ Dispatches("TERMINATE")
    /\ dispatching' = FALSE
    /\ session_state' = "TERMINATING"
    /\ UNCHANGED <<in_progress, request_queue, deactivations, answers>>

\* mrcp_server_session_deactivate; "stopping": the machine awaits a STOP
DeactivateSession(stopping) ==
    /\ Dispatches("TERMINATE")
    /\ dispatching' = FALSE
    /\ session_state' = IF stopping THEN "DEACTIVATING" ELSE "TERMINATING"
    /\ UNCHANGED <<in_progress, request_queue, deactivations, answers>>
=============================================================================
