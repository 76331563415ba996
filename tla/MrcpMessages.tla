---------------------------- MODULE MrcpMessages ----------------------------
(***************************************************************************)
(* The messages of a media resource channel, reduced to what its handlers  *)
(* read: the request id, the method, the Active-Request-Id-List of a       *)
(* selective STOP ("only") and the one flag that a handler looks at        *)
(* ("flag": Kill-On-Barge-In of BARGE-IN-OCCURRED, Start-Input-Timers of   *)
(* RECOGNIZE).                                                             *)
(***************************************************************************)
EXTENDS Naturals, Sequences

CONSTANTS
    NULL,         \* the null pointer
    MaxRequests,  \* bound: how many requests the client sends
    Methods       \* the methods the client uses

(***************************************************************************)
(* GET-PARAMS takes the same path as SET-PARAMS and is not told apart; for *)
(* a recognizer, INTERPRET does too.  The session's termination travels    *)
(* with the control requests through the request queue of the session.     *)
(***************************************************************************)
SynthMethods ==
    {"SPEAK", "STOP", "PAUSE", "RESUME", "BARGE-IN-OCCURRED", "CONTROL",
     "SET-PARAMS", "DEFINE-LEXICON"}

RecogMethods ==
    {"RECOGNIZE", "STOP", "GET-RESULT", "START-INPUT-TIMERS", "SET-PARAMS",
     "DEFINE-GRAMMAR"}

MethodNames == SynthMethods \cup RecogMethods \cup {"TERMINATE"}

EventNames == {"SPEAK-COMPLETE", "START-OF-INPUT", "RECOGNITION-COMPLETE"}

ASSUME MessageAssumption ==
    /\ MaxRequests \in Nat \ {0}
    /\ Methods \subseteq MethodNames \ {"TERMINATE"}

Ids == 1 .. MaxRequests

\* mrcp_request_state_e
RequestStates == {"PENDING", "IN-PROGRESS", "COMPLETE"}

Request == [id: Nat, method: MethodNames, only: SUBSET Ids, flag: BOOLEAN]

ASSUME NullAssumption == NULL \notin Request

TerminateRequest ==
    [id |-> 0, method |-> "TERMINATE", only |-> {}, flag |-> TRUE]

\* the stop request that a deactivation makes up
InternalStop(source) ==
    [id |-> source.id + 1, method |-> "STOP", only |-> source.only, flag |-> TRUE]

EngineMessage ==
    [kind: {"response", "event"}, id: Nat, method: MethodNames \cup EventNames,
     state: RequestStates]

Response(request, state) ==
    [kind |-> "response", id |-> request.id, method |-> request.method,
     state |-> state]

Event(name, request) ==
    [kind |-> "event", id |-> request.id, method |-> name, state |-> "COMPLETE"]

StartOfInput(request) ==
    [Event("START-OF-INPUT", request) EXCEPT !.state = "IN-PROGRESS"]
=============================================================================
