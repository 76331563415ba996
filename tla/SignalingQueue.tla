--------------------------- MODULE SignalingQueue ---------------------------
(***************************************************************************)
(* How a server session (mrcp_server_session.c) serialises what its client *)
(* asks for: one request is in progress, the others wait.  Its answer pops *)
(* the next one and dispatches it from inside the handler that sends the   *)
(* answer; "dispatching" says that such a nested dispatch is due, and the  *)
(* server task handles nothing else until it is over.                      *)
(***************************************************************************)
EXTENDS Sequences

CONSTANT NULL

VARIABLES
    in_progress,    \* session->active_request
    request_queue,  \* session->request_queue
    dispatching     \* is in_progress still to be dispatched?

QueueInit == in_progress = NULL /\ request_queue = <<>> /\ dispatching = FALSE

\* mrcp_server_signaling_message_process
Enqueue(request) ==
    \/ /\ in_progress # NULL
       /\ request_queue' = Append(request_queue, request)
       /\ UNCHANGED <<in_progress, dispatching>>
    \/ /\ in_progress = NULL
       /\ in_progress' = request
       /\ dispatching' = TRUE
       /\ UNCHANGED request_queue

PopRequestUndispatched ==  \* mutant: the next request is not dispatched
    /\ in_progress' = NULL
    /\ dispatching' = FALSE
    /\ request_queue' = request_queue

\* the next queued request, if any, becomes the one in progress
PopRequest ==
    /\ dispatching' = (request_queue # <<>>)
    /\ \/ /\ request_queue = <<>>
          /\ in_progress' = NULL
          /\ UNCHANGED request_queue
       \/ /\ request_queue # <<>>
          /\ in_progress' = Head(request_queue)
          /\ request_queue' = Tail(request_queue)
=============================================================================
