--------------------------- MODULE ServerSession ---------------------------
(***************************************************************************)
(* libs/mrcp-server/src/mrcp_server_session.c: a MRCPv2 session of the     *)
(* server between its client and the tasks that work for it: the           *)
(* connection agent (control channels), the media engine (terminations and *)
(* topology) and the plugins (engine channels).                            *)
(*                                                                         *)
(* The session sends a batch of sub-requests, counts them, and goes on     *)
(* when the last one is answered.  A handler that takes the count to zero  *)
(* goes on at once; here "Continues" holds until that next step is taken,  *)
(* and the server task handles nothing else in between.                    *)
(***************************************************************************)
EXTENDS Ordered, Sequences

CONSTANTS
    NULL,
    Offers,          \* the offers the client may make
    MaxRequests,     \* bound: how many requests the client sends
    EngineMayBeFull, \* may a plugin have no channel left?
    OpenMayFail      \* may a plugin fail to open a channel?

(***************************************************************************)
(* An offer lists control media and a number of audio media.  A resource   *)
(* is "known", "unplugged" (no plugin implements it) or "unknown".         *)
(***************************************************************************)
ControlMedia == [resource: {"known", "unplugged", "unknown"}, port: BOOLEAN]

ASSUME SessionAssumption ==
    /\ Offers \subseteq [control: Seq(ControlMedia), audio: Nat]
    /\ NULL \notin Offers
    /\ MaxRequests \in Nat
    /\ EngineMayBeFull \in BOOLEAN /\ OpenMayFail \in BOOLEAN

Request ==
    [type: {"OFFER", "CONTROL", "TERMINATE"}, offer: Offers \cup {NULL}, channel: Nat]

ASSUME NullAssumption == NULL \notin Request

VARIABLES
    in_progress, request_queue, dispatching,  \* see SignalingQueue
    state,             \* session->state
    subrequest_count,  \* session->subrequest_count
    channels,          \* session->channels
    terminations,      \* session->terminations: is the slot waiting?
    offer, answer,     \* session->offer, session->answer
    last_offer, last_answer,
    removed,           \* has the session left the server's table?
    busy,              \* the channels whose state machine has a request in progress
    outstanding,       \* the tasks: sub-requests they have not answered
    held,              \* the tasks: what they hold for the session
    sent,              \* the client: how many requests has it sent?
    answered,          \* the client: how many offers were answered?
    granted,           \* the client: the control media the server agreed to
    refused,           \* the client: was an offer answered with a failure?
    terminated         \* the client: has it ended the session?

INSTANCE SignalingQueue

queueVars == <<in_progress, request_queue, dispatching>>
offerVars == <<offer, answer, last_offer, last_answer>>
clientVars == <<sent, answered, granted, refused, terminated>>
vars == <<queueVars, state, subrequest_count, channels, terminations, offerVars,
          removed, busy, outstanding, held, clientVars>>

Init ==
    /\ QueueInit
    /\ state = "NONE" /\ subrequest_count = 0
    /\ channels = <<>> /\ terminations = <<>>
    /\ offer = NULL /\ answer = NULL /\ last_offer = NULL /\ last_answer = NULL
    /\ removed = FALSE
    /\ busy = {} /\ outstanding = {} /\ held = {}
    /\ sent = 0 /\ answered = 0 /\ granted = {} /\ refused = FALSE
    /\ terminated = FALSE

-----------------------------------------------------------------------------
(* Sub-requests: the operation, the channel and the media slot it is for.  *)

Sub(op, channel, slot) == [op |-> op, channel |-> channel, slot |-> slot]

Each(op, indices) == {Sub(op, i, 0) : i \in indices}

EachSlot(op, indices) == {Sub(op, 0, i) : i \in indices}

\* a control request at an engine is not counted
Counted == {sub \in outstanding : sub.op # "request"}

\* is a handler about to go on, the last sub-request having been answered?
Continues ==
    /\ in_progress # NULL /\ ~dispatching
    /\ in_progress.type \in {"OFFER", "TERMINATE"}
    /\ subrequest_count = 0
    /\ ~removed

Waiting == ~dispatching /\ ~Continues

\* mrcp_server_session_state_set, and the sub-requests sent in the new state
StateSet(next, requests) ==
    /\ state' = next
    /\ subrequest_count' = Cardinality(requests)
    /\ outstanding' = outstanding \cup requests

WithEngine(list) == {c \in DOMAIN list : list[c].engine}

-----------------------------------------------------------------------------
(* The client: it makes a new offer once the first one was agreed to, and  *)
(* sends control requests on channels that the server agreed to.           *)

Send(request) ==
    /\ Waiting
    /\ sent < MaxRequests /\ ~terminated
    /\ sent' = sent + 1
    /\ Enqueue(request)
    /\ UNCHANGED <<state, subrequest_count, channels, terminations, offerVars,
                   removed, busy, outstanding, held, answered, granted, refused>>

ClientOffer ==
    /\ sent = 0 \/ granted # {}
    /\ \E new \in Offers : Send([type |-> "OFFER", offer |-> new, channel |-> 0])
    /\ UNCHANGED terminated

ClientControl ==
    /\ \E c \in DOMAIN channels :
          /\ channels[c].id \in granted
          /\ Send([type |-> "CONTROL", offer |-> NULL, channel |-> c])
    /\ UNCHANGED terminated

ClientTerminate ==
    /\ Send([type |-> "TERMINATE", offer |-> NULL, channel |-> 0])
    /\ terminated' = TRUE

-----------------------------------------------------------------------------
(* mrcp_server_session_offer_process.                                      *)

Dispatches(type) == dispatching /\ in_progress.type = type

NewPositions(new) ==
    {i \in DOMAIN new.control :
        i > Len(channels) /\ new.control[i].resource # "unknown"}

\* mrcp_server_channel_create; "full": the media whose plugin has no channel left
NewChannel(new, i, full) ==
    LET plugged == new.control[i].resource = "known"
    IN [id |-> i, machine |-> plugged, engine |-> plugged /\ i \notin full,
        is_open |-> FALSE,
        waiting_for_channel |-> TRUE,
        waiting_for_termination |-> plugged /\ i \notin full]

\* mrcp_server_control_media_offer_process
OfferedChannelsUnmarked(new, order, full) ==  \* mutant: a modification is not awaited
    channels \o [j \in DOMAIN order |-> NewChannel(new, order[j], full)]

OfferedChannels(new, order, full) ==
    [c \in DOMAIN channels |->
        IF c \in DOMAIN new.control
        THEN [channels[c] EXCEPT !.waiting_for_channel = TRUE]
        ELSE channels[c]]
    \o [j \in DOMAIN order |-> NewChannel(new, order[j], full)]

ControlRequests(new, offered) ==
    LET old == DOMAIN channels \cap DOMAIN new.control
        added == DOMAIN offered \ DOMAIN channels
    IN Each("modify channel", old) \cup Each("add channel", added)
         \cup Each("add media", added \cap WithEngine(offered))

\* mrcp_server_av_media_offer_process
AudioRequests(new, offered) ==
    LET slots == 1 .. new.audio
    IN EachSlot("modify slot", slots \cap DOMAIN terminations)
         \cup EachSlot("add slot", slots \ DOMAIN terminations)
         \cup {Sub("associate", c, s) : c \in WithEngine(offered), s \in slots}

OfferRequests(new, offered) ==
    {Sub("reset", 0, 0), Sub("apply", 0, 0)}
      \cup ControlRequests(new, offered) \cup AudioRequests(new, offered)

MoreSlots(count) ==
    [s \in DOMAIN terminations \cup 1 .. count |->
        s <= count \/ terminations[s]]

\* mrcp_session_answer_create
EmptyAnswer(new, ok) ==
    [ok |-> ok, control |-> [i \in DOMAIN new.control |-> "absent"], audio |-> {}]

\* an offer that is identical to the last one gets the last answer at once: the
\* session is still in the state in which it sent that one
OfferRepeated ==
    /\ Dispatches("OFFER")
    /\ in_progress.offer = last_offer
    /\ dispatching' = FALSE
    /\ offer' = last_offer /\ answer' = last_answer
    /\ UNCHANGED <<in_progress, request_queue, state, subrequest_count, channels,
                   terminations, last_offer, last_answer, removed, busy,
                   outstanding, held, clientVars>>

OfferProcess ==
    /\ Dispatches("OFFER")
    /\ in_progress.offer # last_offer
    /\ dispatching' = FALSE
    /\ offer' = in_progress.offer
    /\ \E order \in Increasing(NewPositions(in_progress.offer)),
          full \in IF EngineMayBeFull
                   THEN SUBSET NewPositions(in_progress.offer) ELSE {{}} :
          LET offered == OfferedChannels(in_progress.offer, order, full)
              failed == \E i \in DOMAIN in_progress.offer.control :
                           /\ i > Len(channels)
                           /\ \/ in_progress.offer.control[i].resource # "known"
                              \/ i \in full
          IN /\ channels' = offered
             /\ answer' = EmptyAnswer(in_progress.offer, ~failed)
             /\ StateSet("GENERATING_ANSWER",
                         OfferRequests(in_progress.offer, offered))
    /\ terminations' = MoreSlots(in_progress.offer.audio)
    /\ UNCHANGED <<in_progress, request_queue, last_offer, last_answer, removed,
                   busy, held, clientVars>>

-----------------------------------------------------------------------------
(* Answers to sub-requests.                                                *)

Answered(sub) == sub \in outstanding /\ outstanding' = outstanding \ {sub}

\* mrcp_server_session_subrequest_remove, up to what the handler goes on to
SubrequestRemove ==
    subrequest_count' =
        IF subrequest_count = 0 THEN 0 ELSE subrequest_count - 1

\* a handler that awaits nothing ignores the answer
RemoveIf(awaited) ==
    \/ awaited /\ SubrequestRemove
    \/ ~awaited /\ UNCHANGED subrequest_count

AnswerFrame ==
    UNCHANGED <<queueVars, state, offer, last_offer, last_answer, removed, clientVars>>

SetControlInside(id, granting) ==  \* mutant: the last medium has no place
    answer' = IF id + 1 \in DOMAIN answer.control
              THEN [answer EXCEPT !.control[id] =
                      IF granting THEN "granted" ELSE "refused"]
              ELSE answer

\* mrcp_session_control_media_set
SetControl(id, granting) ==
    answer' = IF id \in DOMAIN answer.control
              THEN [answer EXCEPT !.control[id] =
                      IF granting THEN "granted" ELSE "refused"]
              ELSE answer

\* mrcp_server_on_channel_modify; a new channel is described at its position
ChannelModified(op, c, position) ==
    /\ Waiting
    /\ Answered(Sub(op, c, 0))
    /\ RemoveIf(channels[c].waiting_for_channel)
    /\ \/ /\ channels[c].waiting_for_channel
          /\ SetControl(channels[c].id, offer.control[position].port)
       \/ ~channels[c].waiting_for_channel /\ UNCHANGED answer
    /\ channels' = [channels EXCEPT ![c].waiting_for_channel = FALSE]
    /\ held' = held \cup {<<"channel", c>>}
    /\ UNCHANGED <<terminations, busy>>
    /\ AnswerFrame

\* mrcp_server_on_channel_remove
ChannelRemoved(c) ==
    /\ Waiting
    /\ Answered(Sub("remove channel", c, 0))
    /\ RemoveIf(channels[c].waiting_for_channel)
    /\ channels' = [channels EXCEPT ![c].waiting_for_channel = FALSE]
    /\ held' = held \ {<<"channel", c>>}
    /\ UNCHANGED <<terminations, answer, busy>>
    /\ AnswerFrame

\* on_termination_modify and on_termination_subtract, an engine's termination
MediaAnswered(op, c) ==
    /\ Waiting
    /\ Answered(Sub(op, c, 0))
    /\ RemoveIf(channels[c].waiting_for_termination)
    /\ channels' = [channels EXCEPT ![c].waiting_for_termination = FALSE]
    /\ held' = IF op = "add media" THEN held \cup {<<"media", c>>}
                                   ELSE held \ {<<"media", c>>}
    /\ UNCHANGED <<terminations, answer, busy>>
    /\ AnswerFrame

\* the same for the termination of a media slot
SlotAnswered(op, s) ==
    /\ Waiting
    /\ Answered(Sub(op, 0, s))
    /\ RemoveIf(terminations[s])
    /\ terminations' = [terminations EXCEPT ![s] = FALSE]
    /\ answer' = IF terminations[s] /\ op # "subtract slot"
                 THEN [answer EXCEPT !.audio = @ \cup {s}] ELSE answer
    /\ held' = IF op = "subtract slot" THEN held \ {<<"slot", s>>}
                                       ELSE held \cup {<<"slot", s>>}
    /\ UNCHANGED <<channels, busy>>
    /\ AnswerFrame

\* mrcp_server_mpf_message_process, the topology
TopologyAnswered(sub) ==
    /\ Waiting
    /\ sub.op \in {"reset", "apply", "associate"}
    /\ Answered(sub)
    /\ SubrequestRemove
    /\ UNCHANGED <<channels, terminations, answer, busy, held>>
    /\ AnswerFrame

\* mrcp_server_on_engine_channel_open
EngineOpened(c, success) ==
    /\ Waiting
    /\ ~success => OpenMayFail
    /\ Answered(Sub("open", c, 0))
    /\ SubrequestRemove
    /\ answer' = [answer EXCEPT !.ok = @ /\ success]
    /\ held' = IF success THEN held \cup {<<"engine", c>>} ELSE held
    /\ UNCHANGED <<channels, terminations, busy>>
    /\ AnswerFrame

\* mrcp_server_on_engine_channel_close
EngineClosed(c) ==
    /\ Waiting
    /\ Answered(Sub("close", c, 0))
    /\ SubrequestRemove
    /\ held' = held \ {<<"engine", c>>}
    /\ UNCHANGED <<channels, terminations, answer, busy>>
    /\ AnswerFrame

\* state_machine_on_deactivate
MachineDeactivated(c) ==
    /\ Waiting
    /\ Answered(Sub("stop", c, 0))
    /\ SubrequestRemove
    /\ busy' = busy \ {c}
    /\ UNCHANGED <<channels, terminations, answer, held>>
    /\ AnswerFrame

-----------------------------------------------------------------------------
(* Control requests.  SynthChannel has the state machine behind them; here *)
(* it answers at once or has the engine answer, and it may be busy after.  *)

ControlFrame ==
    UNCHANGED <<state, subrequest_count, channels, terminations, offerVars,
                removed, held, clientVars>>

\* mrcp_server_on_message_receive
ControlProcess ==
    /\ Dispatches("CONTROL")
    /\ LET c == in_progress.channel
       IN \/ /\ channels[c].machine
             /\ PopRequest
             /\ UNCHANGED outstanding
          \/ /\ dispatching' = FALSE
             /\ outstanding' = IF channels[c].engine
                               THEN outstanding \cup {Sub("request", c, 0)}
                               ELSE outstanding
             /\ UNCHANGED <<in_progress, request_queue>>
    /\ UNCHANGED busy
    /\ ControlFrame

\* state_machine_on_message_dispatch, the response to the client
ControlAnswered(c) ==
    /\ Waiting
    /\ Answered(Sub("request", c, 0))
    /\ busy' \in {busy \cup {c}, busy \ {c}}
    /\ PopRequest
    /\ ControlFrame

\* the engine's event that ends a request in progress
ControlCompleted(c) ==
    /\ Waiting
    /\ c \in busy
    /\ busy' = busy \ {c}
    /\ UNCHANGED <<queueVars, outstanding>>
    /\ ControlFrame

\* mrcp_server_session_deactivate
Deactivate ==
    /\ Dispatches("TERMINATE")
    /\ dispatching' = FALSE
    /\ StateSet("DEACTIVATING", Each("stop", busy))
    /\ UNCHANGED <<in_progress, request_queue, channels, terminations, offerVars,
                   removed, busy, held, clientVars>>

-----------------------------------------------------------------------------
(* What a handler goes on to when no sub-request is left.                  *)

ContinuesIn(s) == Continues /\ state = s

\* mrcp_server_engine_channels_update, by the position of a channel
Offered == WithEngine(channels) \cap DOMAIN offer.control

Port(c) == offer.control[c].port

EngineRequests ==
    Each("open", {c \in Offered : Port(c) /\ ~channels[c].is_open})
      \cup Each("close", {c \in Offered : ~Port(c) /\ channels[c].is_open})

EngineChannelsUpdated ==
    [c \in DOMAIN channels |->
        IF c \in Offered THEN [channels[c] EXCEPT !.is_open = Port(c)]
                         ELSE channels[c]]

EngineChannelsUpdateUnawaited ==  \* mutant: does not wait for the engines
    /\ ContinuesIn("GENERATING_ANSWER")
    /\ state' = "INITIALIZING"
    /\ outstanding' = outstanding \cup EngineRequests
    /\ channels' = EngineChannelsUpdated
    /\ UNCHANGED <<queueVars, subrequest_count, terminations, offerVars, removed,
                   busy, held, clientVars>>

EngineChannelsUpdate ==
    /\ ContinuesIn("GENERATING_ANSWER")
    /\ StateSet("INITIALIZING", EngineRequests)
    /\ channels' = EngineChannelsUpdated
    /\ UNCHANGED <<queueVars, terminations, offerVars, removed, busy, held,
                   clientVars>>

AnswerSendOnly ==  \* mutant: the request stays in progress
    /\ ContinuesIn("INITIALIZING")
    /\ last_offer' = offer /\ last_answer' = answer
    /\ offer' = NULL /\ answer' = NULL
    /\ in_progress' = [in_progress EXCEPT !.type = "CONTROL"]
    /\ answered' = answered + 1
    /\ UNCHANGED <<request_queue, dispatching, granted, refused, state,
                   subrequest_count, channels, terminations, removed, busy,
                   outstanding, held, sent, terminated>>

\* mrcp_server_session_answer_send
AnswerSend ==
    /\ ContinuesIn("INITIALIZING")
    /\ last_offer' = offer /\ last_answer' = answer
    /\ offer' = NULL /\ answer' = NULL
    /\ PopRequest
    /\ answered' = answered + 1
    /\ granted' = IF answer.ok
                  THEN {i \in DOMAIN answer.control : answer.control[i] = "granted"}
                  ELSE granted
    /\ refused' = (refused \/ ~answer.ok)
    /\ UNCHANGED <<state, subrequest_count, channels, terminations, removed, busy,
                   outstanding, held, sent, terminated>>

TerminationRequestsMediaOnly ==  \* mutant: closing a channel is not awaited
    (IF last_offer = NULL THEN {} ELSE {Sub("reset", 0, 0)})
      \cup Each("remove channel", DOMAIN channels)
      \cup Each("subtract media", WithEngine(channels))
      \cup EachSlot("subtract slot", DOMAIN terminations)

TerminationRequests ==
    (IF last_offer = NULL THEN {} ELSE {Sub("reset", 0, 0)})
      \cup Each("remove channel", DOMAIN channels)
      \cup Each("subtract media", WithEngine(channels))
      \cup Each("close", {c \in DOMAIN channels : channels[c].is_open})
      \cup EachSlot("subtract slot", DOMAIN terminations)

\* mrcp_server_session_terminate_process
TerminateProcess ==
    /\ ContinuesIn("DEACTIVATING")
    /\ StateSet("TERMINATING", TerminationRequests)
    /\ channels' = [c \in DOMAIN channels |->
                      [channels[c] EXCEPT
                         !.is_open = FALSE,
                         !.waiting_for_channel = TRUE,
                         !.waiting_for_termination = channels[c].engine]]
    /\ terminations' = [s \in DOMAIN terminations |-> TRUE]
    /\ UNCHANGED <<queueVars, offerVars, removed, busy, held, clientVars>>

\* mrcp_server_session_terminate_send
TerminateSend ==
    /\ ContinuesIn("TERMINATING")
    /\ removed' = TRUE
    /\ UNCHANGED <<queueVars, state, subrequest_count, channels, terminations,
                   offerVars, busy, outstanding, held, clientVars>>

-----------------------------------------------------------------------------
ClientStep == ClientOffer \/ ClientControl \/ ClientTerminate

SubAnswered(sub) ==
    \/ sub.op = "modify channel" /\ ChannelModified(sub.op, sub.channel, sub.channel)
    \/ sub.op = "add channel"
         /\ ChannelModified(sub.op, sub.channel, channels[sub.channel].id)
    \/ sub.op = "remove channel" /\ ChannelRemoved(sub.channel)
    \/ sub.op \in {"add media", "subtract media"} /\ MediaAnswered(sub.op, sub.channel)
    \/ sub.op \in {"add slot", "modify slot", "subtract slot"}
         /\ SlotAnswered(sub.op, sub.slot)
    \/ TopologyAnswered(sub)
    \/ sub.op = "open" /\ \E success \in BOOLEAN : EngineOpened(sub.channel, success)
    \/ sub.op = "close" /\ EngineClosed(sub.channel)
    \/ sub.op = "stop" /\ MachineDeactivated(sub.channel)
    \/ sub.op = "request" /\ ControlAnswered(sub.channel)

TasksAnswer == \E sub \in outstanding : SubAnswered(sub)

Completion == \E c \in busy : ControlCompleted(c)

ServerStep ==
    \/ OfferRepeated \/ OfferProcess \/ ControlProcess \/ Deactivate
    \/ EngineChannelsUpdate \/ AnswerSend \/ TerminateProcess \/ TerminateSend

Next == ClientStep \/ TasksAnswer \/ Completion \/ ServerStep

Spec == Init /\ [][Next]_vars

\* the server task goes on, and the other tasks answer it
FairSpec == Spec /\ WF_vars(ServerStep) /\ WF_vars(TasksAnswer)

-----------------------------------------------------------------------------
Channel ==
    [id: Nat, machine: BOOLEAN, engine: BOOLEAN, is_open: BOOLEAN,
     waiting_for_channel: BOOLEAN, waiting_for_termination: BOOLEAN]

Answer ==
    [ok: BOOLEAN, control: Seq({"absent", "granted", "refused"}), audio: SUBSET Nat]

Operations ==
    {"reset", "apply", "associate", "add channel", "modify channel",
     "remove channel", "add media", "subtract media", "add slot", "modify slot",
     "subtract slot", "open", "close", "stop", "request"}

QueueTypeOK ==
    /\ in_progress \in Request \cup {NULL}
    /\ request_queue \in Seq(Request)
    /\ request_queue # <<>> => in_progress # NULL
    /\ dispatching \in BOOLEAN

ChannelsTypeOK ==
    /\ channels \in Seq(Channel)
    /\ terminations \in Seq(BOOLEAN)
    /\ busy \subseteq DOMAIN channels

AnswersTypeOK ==
    /\ offer \in Offers \cup {NULL} /\ last_offer \in Offers \cup {NULL}
    /\ answer \in Answer \cup {NULL} /\ last_answer \in Answer \cup {NULL}
    /\ last_offer # NULL => last_answer \in Answer

TasksTypeOK ==
    /\ state \in {"NONE", "GENERATING_ANSWER", "INITIALIZING", "DEACTIVATING",
                  "TERMINATING"}
    /\ subrequest_count \in Nat
    /\ outstanding \subseteq [op: Operations, channel: Nat, slot: Nat]
    /\ held \subseteq {"channel", "media", "slot", "engine"} \X Nat
    /\ removed \in BOOLEAN

ClientTypeOK ==
    /\ sent \in Nat /\ answered \in Nat
    /\ granted \subseteq Nat /\ refused \in BOOLEAN
    /\ terminated \in BOOLEAN

TypeOK ==
    /\ QueueTypeOK
    /\ ChannelsTypeOK
    /\ AnswersTypeOK
    /\ TasksTypeOK
    /\ ClientTypeOK

(***************************************************************************)
(* The count of sub-requests is the number of answers that are still to    *)
(* come, though answers are matched by the waiting marks of channels and   *)
(* slots and some by no mark at all (mrcp_server_session_subrequest_add    *)
(* and its remove).  Were it too small, the session would go on too early; *)
(* too large, and it would wait forever.                                   *)
(***************************************************************************)
CountExact == subrequest_count = Cardinality(Counted)

(***************************************************************************)
(* mrcp_server_session_terminate_send gives the memory of the session      *)
(* back: no task holds anything of it or will answer it any more.          *)
(***************************************************************************)
SessionLeavesNothing == removed => held = {} /\ outstanding = {}

AnswersOffer == answered' # answered

(***************************************************************************)
(* An answer of status OK describes every control medium and every audio   *)
(* medium of its offer, whichever tasks describe them and in which order   *)
(* (mrcp_server_session_answer_send).                                      *)
(***************************************************************************)
AnswerComplete ==
    [][AnswersOffer /\ answer.ok =>
        /\ \A i \in DOMAIN offer.control : answer.control[i] # "absent"
        /\ 1 .. offer.audio \subseteq answer.audio]_vars

(***************************************************************************)
(* mrcp_session_descriptor.h:34 and 35 have a status for "resource exists, *)
(* but no implementation (plugin) found" and one for "resource exists, but *)
(* is temporary unavailable".  Until an offer is answered with a failure,  *)
(* an answer of status OK agrees only to control media whose channel has   *)
(* an engine, and one that is open, whatever plugins lack, are out of      *)
(* channels or fail to open (mrcp_server_on_engine_channel_open,           *)
(* mrcp_server_session_answer_send).                                       *)
(***************************************************************************)
GrantedIsServed ==
    [][AnswersOffer /\ answer.ok /\ ~refused =>
        \A c \in DOMAIN channels :
            /\ channels[c].id \in DOMAIN offer.control
            /\ answer.control[channels[c].id] = "granted"
            => <<"engine", c>> \in held]_vars

(***************************************************************************)
(* mrcp_server_session.c:52 says of a channel's id: "media descriptor id   *)
(* (position in session descriptor)".  A channel is modified as the medium *)
(* at its position says.                                                   *)
(***************************************************************************)
ModifiedAtPosition ==
    \A sub \in outstanding :
        sub.op = "modify channel" => channels[sub.channel].id = sub.channel

\* a control request on a channel that a refused offer left without an engine
Unserved ==
    /\ refused /\ in_progress # NULL
    /\ in_progress.type = "CONTROL" /\ ~channels[in_progress.channel].engine

(***************************************************************************)
(* A session ends each of its requests, so that it takes the next one and, *)
(* once its client has ended it, leaves the server; but nobody answers a   *)
(* control request on a channel without an engine, which the client gets   *)
(* when an offer after a refused one grants what that one left             *)
(* (mrcp_server_on_message_receive).                                       *)
(***************************************************************************)
EveryRequestEnds == in_progress # NULL ~> in_progress = NULL \/ removed \/ Unserved
=============================================================================
