---------------------------- MODULE ClientSession ----------------------------
(* A session of the client stack (mrcp_client_session.c) over MRCPv2: the      *)
(* client's task takes the requests of the application, one at a time, and     *)
(* turns each into subrequests to the connection agent, the media engine and   *)
(* the signaling agent, whose answers come back as messages to the same task.  *)
(* A request is answered when the last of its subrequests is.                  *)
(*                                                                             *)
(* SofiaClientAgent is the signaling agent.  Of the connection agent, which    *)
(* ClientConnection has in full, the model keeps one connection to the server; *)
(* the media engine answers every message, in order.                           *)
EXTENDS SofiaClientAgent, SequencesExt

CONSTANTS NULL,
          Channels,
          Media,         \* the channels with a termination of their own; the others bypass the media engine
          ContainerSize, \* MAX_MPF_MESSAGE_COUNT, 5 in the code
          MaxRequests,   \* bound: requests of the application
          MaxPending     \* bound: requests it leaves unanswered at a time

ASSUME ClientAssumption == /\ Media \subseteq Channels /\ ContainerSize \in Nat \ {0}
                           /\ MaxRequests \in Nat /\ MaxPending \in Nat

VARIABLES s,        \* mrcp_client_session_t
          media,    \* messages on their way to the media engine and back
          current,  \* is the container of the first of them being processed?
          agent,    \* the connection agent, as far as this session sees it
          requests, \* the application: what it asked for
          answers,  \* the application: the answers, request and status
          listed    \* is the session in the client's table?

vars == <<s, sip, media, current, agent, requests, answers, listed>>

ChannelKinds == {"add", "remove", "control"}
Kinds == ChannelKinds \cup {"update", "discover", "terminate"}
Statuses == {"SUCCESS", "FAILURE", "TERMINATE", "CANCEL", "RESPONSE"}
States == {"NONE", "GENERATING_OFFER", "PROCESSING_ANSWER", "TERMINATING", "DISCOVERING"}
Commands == {"ADD", "MODIFY", "SUBTRACT", "OTHER"}

Request == [id : 1..MaxRequests, kind : Kinds, channel : Channels \cup {NULL}]
Tags == {"channel", "termination", "slot"} \X Channels   \* waiting_for_channel, waiting_for_termination, slot->waiting

Message == [command : Commands, tag : Tags \cup {NULL}, last : BOOLEAN]   \* the last of its container?

ASSUME NullAssumption == NULL \notin Channels \cup Tags \cup Request

Asked == 1..Len(requests)
Answered == {answers[i].id : i \in DOMAIN answers}
Over == \E id \in Answered : requests[id] = "terminate"

TypeOK ==
  /\ s \in [state : States, status : Statuses, count : Nat, waiting : SUBSET Tags,
            disconnected : BOOLEAN, registered : BOOLEAN, known : BOOLEAN, context : BOOLEAN,
            channels : Seq(Channels), active : Request \cup {NULL}, queue : Seq(Request),
            dispatching : BOOLEAN]
  /\ DialogType(sip)
  /\ media \in Seq(Message) /\ current \in BOOLEAN
  /\ agent.link \in {"none", "up", "down"}
  /\ agent.attached \subseteq Channels /\ agent.asking \subseteq Channels
  /\ requests \in Seq(Kinds) /\ Len(requests) <= MaxRequests
  /\ answers \in Seq([id : 1..MaxRequests, status : Statuses])
  /\ listed \in BOOLEAN

Init ==
  /\ s = [state |-> "NONE", status |-> "SUCCESS", count |-> 0, waiting |-> {},
          disconnected |-> FALSE, registered |-> FALSE,
          known |-> FALSE,      \* base.id: has the server told the id of the session?
          context |-> FALSE,    \* is there a media context?
          channels |-> <<>>, active |-> NULL, queue |-> <<>>,
          dispatching |-> FALSE]   \* is the client's task about to dispatch active?
  /\ sip = NewDialog
  /\ media = <<>> /\ current = FALSE
  /\ agent = [link |-> "none", attached |-> {}, asking |-> {}, requests |-> <<>>, replies |-> <<>>]
  /\ requests = <<>> /\ answers = <<>>
  /\ listed = FALSE

-------------------------------------------------------------------------------
(* Subrequests                                                                 *)

StateSet(se, state) == [se EXCEPT !.state = state, !.count = 0]

(* Mutants: the other subrequests are counted as one; they are not counted.    *)
ExpectOneMore(se, tags, more) ==
  [se EXCEPT !.waiting = @ \cup tags, !.count = @ + Cardinality(tags) + (IF more > 0 THEN 1 ELSE 0)]
ExpectTags(se, tags, more) == [se EXCEPT !.waiting = @ \cup tags, !.count = @ + Cardinality(tags)]

Expect(se, tags, more) ==
  [se EXCEPT !.waiting = @ \cup tags, !.count = @ + Cardinality(tags) + more]

(* Mutant: one subrequest too early.                                           *)
IsLastButOne(se) == se.count \in {1, 2}

IsLast(se) == se.count = 1

SubrequestRemoved(se) == [se EXCEPT !.count = IF @ = 0 THEN 0 ELSE @ - 1]

Msg(command, kind, c) == [command |-> command, tag |-> <<kind, c>>]
Other == [command |-> "OTHER", tag |-> NULL]   \* associations and topology

(* mpf_engine_message_add sends the container when it is full.                 *)
InContainers(messages) ==
  [i \in DOMAIN messages |->
     [command |-> messages[i].command, tag |-> messages[i].tag,
      last |-> i % ContainerSize = 0 \/ i = Len(messages)]]

ToMedia(messages) == media' = media \o InContainers(messages)

(* One message to the connection agent for each of the channels.               *)
AgentAsked(op, channels) ==
  agent' = [agent EXCEPT !.requests = @ \o [i \in DOMAIN channels |-> [op |-> op, channel |-> channels[i]]]]

-------------------------------------------------------------------------------
(* Answers to the application                                                  *)

TellApplication(se, status) == answers' = Append(answers, [id |-> se.active.id, status |-> status])

(* The next request of the queue is dispatched at once.                        *)
NextTaken(se) ==
  IF se.queue = <<>> THEN [se EXCEPT !.active = NULL]
  ELSE [se EXCEPT !.active = Head(se.queue), !.queue = Tail(se.queue), !.dispatching = TRUE]

(* Mutant: the disconnect is not looked at.                                    *)
SigResponseRaiseAsIs(se, processPending) ==
  IF se.active = NULL
  THEN s' = se /\ UNCHANGED answers
  ELSE TellApplication(se, se.status) /\ s' = IF processPending THEN NextTaken(se) ELSE [se EXCEPT !.active = NULL]

SigResponseRaise(se, processPending) ==
  IF se.active = NULL
  THEN s' = se /\ UNCHANGED answers
  ELSE LET status == IF se.disconnected THEN "TERMINATE" ELSE se.status
           told == [se EXCEPT !.status = status]
       IN /\ TellApplication(se, status)
          /\ s' = IF processPending THEN NextTaken(told) ELSE [told EXCEPT !.active = NULL]

(* A failed request makes room for no other.                                   *)
FailureMessageRaise(se) ==
  /\ TellApplication(se, IF se.active.kind = "control" THEN "RESPONSE" ELSE se.status)
  /\ s' = [se EXCEPT !.active = NULL]

ControlResponseRaise(se) ==
  IF se.active = NULL \/ se.active.kind # "control"
  THEN s' = se /\ UNCHANGED answers
  ELSE TellApplication(se, "RESPONSE") /\ s' = NextTaken(se)

SessionTerminateRaise(se, status) ==
  /\ listed' = FALSE
  /\ SigResponseRaise(IF status = "SUCCESS" THEN se ELSE [se EXCEPT !.status = status], FALSE)

-------------------------------------------------------------------------------
(* Requests of the application                                                 *)

Busy == s.dispatching \/ current

AppMessageProcess(kind, c) ==
  LET request == [id |-> Len(requests) + 1, kind |-> kind, channel |-> c]
  IN /\ requests' = Append(requests, kind)
     /\ s' = IF s.active # NULL THEN [s EXCEPT !.queue = Append(@, request)]
             ELSE [s EXCEPT !.active = request, !.dispatching = TRUE]
     /\ UNCHANGED <<sip, media, current, agent, answers, listed>>

(* The application ends with its termination, changes only what it has asked   *)
(* for before, and having discovered the resources goes on to use one.         *)
AppRequest(kind, c) ==
  /\ ~Busy
  /\ Len(requests) < MaxRequests
  /\ Cardinality(Asked \ Answered) < MaxPending
  /\ \A id \in Asked : requests[id] # "terminate"
  /\ kind \in {"update", "remove", "control"} => s.channels # <<>>
  /\ kind \in {"remove", "control"} => c \in Range(s.channels)
  /\ kind = "terminate" => s.channels # <<>> \/ \A id \in Asked : requests[id] # "discover"
  /\ AppMessageProcess(kind, c)

Dispatching == s.dispatching
Dispatched(status) == [s EXCEPT !.dispatching = FALSE, !.status = status]

Cancel == /\ Dispatching
          /\ s.disconnected /\ s.active.kind # "terminate"
          /\ FailureMessageRaise(Dispatched("CANCEL"))
          /\ UNCHANGED <<sip, media, current, agent, requests, listed>>

MayGoOn == s.dispatching /\ (s.disconnected => s.active.kind = "terminate")

TerminateUnregistered ==
  /\ MayGoOn /\ ~s.registered /\ s.active.kind = "terminate"
  /\ SigResponseRaise(Dispatched("SUCCESS"), FALSE)
  /\ UNCHANGED <<sip, media, current, agent, requests, listed>>

(* The status of an earlier failure is not reset before the agents are chosen. *)
Register ==
  /\ MayGoOn /\ ~s.registered /\ s.active.kind # "terminate"
  /\ \/ /\ s.status # "FAILURE"
        /\ s' = [s EXCEPT !.registered = TRUE]
        /\ sip' = Created(sip)
        /\ listed' = TRUE
        /\ UNCHANGED answers
     \/ /\ FailureMessageRaise(Dispatched("FAILURE"))
        /\ UNCHANGED <<sip, listed>>
  /\ UNCHANGED <<media, current, agent, requests>>

Dispatch(kind) == MayGoOn /\ s.registered /\ s.active.kind = kind
Started == Dispatched("SUCCESS")

OfferSend(se) == /\ s' = se
                 /\ sip' = Offered(sip)
                 /\ UNCHANGED <<answers, listed>>

(* The offer is sent again, with the channel enabled or disabled.              *)
ModifyChannel ==
  /\ \/ Dispatch("add") /\ s.active.channel \in Range(s.channels)
     \/ Dispatch("remove")
     \/ Dispatch("update")
  /\ OfferSend(Started)
  /\ UNCHANGED <<media, current, agent, requests>>

ChannelAdd ==
  /\ Dispatch("add") /\ s.active.channel \notin Range(s.channels)
  /\ LET c == s.active.channel
         se == [StateSet(Started, "GENERATING_OFFER") EXCEPT !.channels = Append(@, c)]
     IN /\ AgentAsked("add", <<c>>)
        /\ IF c \in Media
           THEN /\ s' = [Expect(se, {<<"channel", c>>, <<"termination", c>>, <<"slot", c>>}, 0)
                           EXCEPT !.context = TRUE]
                /\ ToMedia(<<Msg("ADD", "termination", c), Msg("ADD", "slot", c)>>)
           ELSE s' = Expect(se, {<<"channel", c>>}, 0) /\ UNCHANGED media
  /\ UNCHANGED <<sip, current, requests, answers, listed>>

WithMedia(channels) ==
  LET among[n \in 0..Len(channels)] == IF n = 0 THEN <<>>
                                       ELSE IF channels[n] \in Media THEN Append(among[n - 1], channels[n])
                                       ELSE among[n - 1]
  IN among[Len(channels)]

Terminate ==
  /\ Dispatch("terminate")
  /\ LET terminated == WithMedia(s.channels)
         subtracted(kind) == [i \in DOMAIN terminated |-> Msg("SUBTRACT", kind, terminated[i])]
         tags == {<<"channel", c>> : c \in Range(s.channels)}
                   \cup {"termination", "slot"} \X Range(terminated)
     IN /\ s' = Expect(StateSet(Started, "TERMINATING"), tags, IF s.context THEN 2 ELSE 1)
        /\ IF s.context THEN ToMedia(<<Other>> \o subtracted("termination") \o subtracted("slot"))
                        ELSE UNCHANGED media
  /\ AgentAsked("remove", s.channels)
  /\ sip' = ByeSent(sip)
  /\ UNCHANGED <<current, requests, answers, listed>>

Discover ==
  /\ Dispatch("discover")
  /\ LET se == StateSet(Started, "DISCOVERING") IN
     IF sip.handle
     THEN s' = Expect(se, {}, 1) /\ sip' = Explored(sip) /\ UNCHANGED answers
     ELSE SigResponseRaise([se EXCEPT !.status = "FAILURE"], TRUE) /\ UNCHANGED sip
  /\ UNCHANGED <<media, current, agent, requests, listed>>

MessageSend ==
  /\ Dispatch("control")
  /\ IF s.known
     THEN AgentAsked("send", <<s.active.channel>>) /\ s' = Started /\ UNCHANGED answers
     ELSE ControlResponseRaise(Started) /\ UNCHANGED agent
  /\ UNCHANGED <<sip, media, current, requests, listed>>

-------------------------------------------------------------------------------
(* Messages from the signaling agent                                           *)

SipNotice(notice) ==
  /\ ~Busy
  /\ sip.told # <<>> /\ Head(sip.told) = notice
  /\ sip' = [sip EXCEPT !.told = Tail(@)]

(* The answer to the offer, with a control and an audio media for each channel *)
(* or, "bare", with none.                                                      *)
AnswerProcess(notice) ==
  LET answered == IF notice = "answer" THEN s.channels ELSE <<>>
      slots == WithMedia(answered)
      se == StateSet(s, "PROCESSING_ANSWER")
      tags == {<<"channel", c>> : c \in Range(answered)} \cup {<<"slot", c>> : c \in Range(slots)}
      associated == IF s.context THEN Len(slots) + 2 ELSE 0
      asked == Expect([se EXCEPT !.known = @ \/ answered # <<>>], tags, associated)
      messages == [i \in 1..(2 * Len(slots) + 2) |->   \* one of each slot between two others
                     IF i % 2 = 0 /\ i \div 2 \in DOMAIN slots THEN Msg("MODIFY", "slot", slots[i \div 2]) ELSE Other]
  IN /\ AgentAsked("modify", answered)
     /\ IF s.context THEN ToMedia(messages) ELSE UNCHANGED media
     /\ IF asked.count = 0 THEN SigResponseRaise(asked, TRUE)
                           ELSE s' = asked /\ UNCHANGED answers

OnAnswer ==
  \/ /\ \E notice \in {"answer", "bare"} : SipNotice(notice) /\ AnswerProcess(notice)
     /\ UNCHANGED <<current, requests, listed>>
  \/ /\ SipNotice("refused")
     /\ SigResponseRaise([s EXCEPT !.status = "TERMINATE"], TRUE)
     /\ UNCHANGED <<media, current, agent, requests, listed>>

OnTerminateResponse ==
  /\ SipNotice("terminated")
  /\ IF IsLast(s) THEN SessionTerminateRaise(SubrequestRemoved(s), "SUCCESS")
                  ELSE s' = SubrequestRemoved(s) /\ UNCHANGED <<answers, listed>>
  /\ UNCHANGED <<media, current, agent, requests>>

(* The application is told of the end only when it waits for nothing.          *)
TerminateEventProcess(se) == IF se.state = "TERMINATING" THEN se ELSE [se EXCEPT !.disconnected = TRUE]

OnTerminateEvent ==
  /\ SipNotice("event")
  /\ s' = TerminateEventProcess(s)
  /\ UNCHANGED <<media, current, agent, requests, answers, listed>>

OnDiscoverResponse ==
  /\ SipNotice("discovered")
  /\ IF s.active # NULL /\ IsLast(s)
     THEN TellApplication(s, "SUCCESS") /\ s' = NextTaken(SubrequestRemoved(s))
     ELSE /\ s' = IF s.active = NULL THEN s ELSE SubrequestRemoved(s)
          /\ UNCHANGED answers
  /\ UNCHANGED <<media, current, agent, requests, listed>>

-------------------------------------------------------------------------------
(* Messages from the media engine                                              *)

TakeContainer ==
  /\ ~Busy /\ media # <<>>
  /\ current' = TRUE
  /\ UNCHANGED <<s, sip, media, agent, requests, answers, listed>>

(* The next step when the last subrequest of a kind has been answered.         *)
SubrequestsDone(se, state) ==
  CASE state = "GENERATING_OFFER"  -> OfferSend(se)
    [] state = "PROCESSING_ANSWER" -> SigResponseRaise(se, TRUE) /\ UNCHANGED <<sip, listed>>
    [] OTHER -> s' = se /\ UNCHANGED <<sip, answers, listed>>

AwaitedDone(m, se) ==
  CASE m.command = "ADD" -> OfferSend(se)
    [] m.command = "SUBTRACT" /\ m.tag[1] = "slot" -> SessionTerminateRaise(se, "SUCCESS") /\ UNCHANGED sip
    [] m.command = "SUBTRACT" /\ m.tag[1] = "termination" ->
         SigResponseRaise(se, TRUE) /\ UNCHANGED <<sip, listed>>
    [] OTHER -> SubrequestsDone(se, se.state)

OnMediaMessage ==
  /\ ~s.dispatching /\ current
  /\ media' = Tail(media) /\ current' = ~Head(media).last
  /\ LET m == Head(media)
         se == SubrequestRemoved([s EXCEPT !.waiting = @ \ {m.tag}])
     IN IF m.tag # NULL /\ m.tag \notin s.waiting
        THEN UNCHANGED <<s, sip, answers, listed>>
        ELSE IF IsLast(s) THEN AwaitedDone(m, se)
                          ELSE s' = se /\ UNCHANGED <<sip, answers, listed>>
  /\ UNCHANGED <<agent, requests>>

-------------------------------------------------------------------------------
(* The connection agent and its messages                                       *)

Replied(a, replies) == [a EXCEPT !.replies = @ \o replies]
Reply(kind, c, ok) == <<[reply |-> kind, channel |-> c, ok |-> ok]>>

Attached(a, c, link) == [a EXCEPT !.attached = @ \cup {c}, !.link = link]

(* A connection that was lost is found again by its address.                   *)
AgentModify(a, c) ==
  \/ /\ c \notin a.attached /\ a.link # "none"
     /\ agent' = Replied(Attached(a, c, a.link), Reply("modified", c, TRUE))
  \/ /\ c \notin a.attached /\ a.link = "none"
     /\ \/ agent' = Replied(Attached(a, c, "up"), Reply("modified", c, TRUE))
        \/ agent' = Replied(a, Reply("modified", c, FALSE))
  \/ /\ c \in a.attached
     /\ agent' = Replied(a, Reply("modified", c, TRUE))

AgentRemove(a, c) ==
  LET left == a.attached \ {c}
  IN agent' = Replied([a EXCEPT !.attached = left, !.link = IF left = {} THEN "none" ELSE @],
                      Reply("removed", c, TRUE))

(* Mutant: a request without a connection is dropped.                          *)
AgentSendOrDrop(a, c) == agent' = IF c \in a.attached /\ a.link = "up" THEN [a EXCEPT !.asking = @ \cup {c}] ELSE a

AgentSend(a, c) ==
  agent' = IF c \in a.attached /\ a.link = "up"
           THEN [a EXCEPT !.asking = @ \cup {c}]
           ELSE Replied(a, Reply("response", c, FALSE))

AgentStep ==
  /\ agent.requests # <<>>
  /\ LET a == [agent EXCEPT !.requests = Tail(@)]
         request == Head(agent.requests)
         c == request.channel
     IN \/ request.op = "add" /\ agent' = Replied(a, Reply("added", c, TRUE))
        \/ request.op = "modify" /\ AgentModify(a, c)
        \/ request.op = "remove" /\ AgentRemove(a, c)
        \/ request.op = "send" /\ AgentSend(a, c)
  /\ UNCHANGED <<s, sip, media, current, requests, answers, listed>>

(* The response of the server, or the timeout.                                 *)
AgentResponse(c) ==
  /\ c \in agent.asking
  /\ agent' = Replied([agent EXCEPT !.asking = @ \ {c}], Reply("response", c, TRUE))
  /\ UNCHANGED <<s, sip, media, current, requests, answers, listed>>

ConnectionLost ==
  /\ agent.link = "up"
  /\ \E order \in SetToSeqs(agent.attached) :
       agent' = Replied([agent EXCEPT !.link = "down", !.asking = {}],
                        [i \in DOMAIN order |->
                           [reply |-> IF order[i] \in agent.asking THEN "response" ELSE "disconnect",
                            channel |-> order[i], ok |-> FALSE]])
  /\ UNCHANGED <<s, sip, media, current, requests, answers, listed>>

ChannelAwaited(r, se, last) ==
  IF <<"channel", r.channel>> \notin s.waiting
  THEN UNCHANGED <<s, sip, answers, listed>>
  ELSE IF IsLast(s) THEN last ELSE s' = se /\ UNCHANGED <<sip, answers, listed>>

OnAgentMessage ==
  /\ ~Busy
  /\ agent.replies # <<>>
  /\ agent' = [agent EXCEPT !.replies = Tail(@)]
  /\ LET r == Head(agent.replies)
         se == SubrequestRemoved([s EXCEPT !.waiting = @ \ {<<"channel", r.channel>>}])
     IN \/ r.reply = "added" /\ ChannelAwaited(r, se, OfferSend(se))
        \/ /\ r.reply = "modified"
           /\ ChannelAwaited(r, se,
                SigResponseRaise(IF r.ok THEN se ELSE [se EXCEPT !.status = "FAILURE"], TRUE)
                /\ UNCHANGED <<sip, listed>>)
        \/ /\ r.reply = "removed"
           /\ ChannelAwaited(r, se, SessionTerminateRaise(se, "SUCCESS") /\ UNCHANGED sip)
        \/ r.reply = "response" /\ ControlResponseRaise(s) /\ UNCHANGED <<sip, listed>>
        \/ r.reply = "disconnect" /\ s' = TerminateEventProcess(s) /\ UNCHANGED <<sip, answers, listed>>
  /\ UNCHANGED <<media, current, requests>>

-------------------------------------------------------------------------------
SipThread == /\ Calling \/ InviteAnswered \/ ResourceDiscover \/ ByeAnswered
                \/ TellEnd \/ DialogTerminated
             /\ UNCHANGED <<s, media, current, agent, requests, answers, listed>>

ServerEnds == ServerBye /\ UNCHANGED <<s, media, current, agent, requests, answers, listed>>

ClientTask == \/ Cancel \/ TerminateUnregistered \/ Register \/ ModifyChannel \/ ChannelAdd
              \/ Terminate \/ Discover \/ MessageSend
              \/ OnAnswer \/ OnTerminateResponse \/ OnTerminateEvent \/ OnDiscoverResponse
              \/ TakeContainer \/ OnMediaMessage \/ OnAgentMessage

Agent == AgentStep \/ \E c \in Channels : AgentResponse(c)

Application == \/ \E kind \in ChannelKinds, c \in Channels : AppRequest(kind, c)
               \/ \E kind \in Kinds \ ChannelKinds : AppRequest(kind, NULL)

Next == ClientTask \/ Agent \/ SipThread \/ ServerEnds \/ ConnectionLost \/ Application

Spec == Init /\ [][Next]_vars

(* The tasks run and the server answers; nobody has to ask or to fail.         *)
FairSpec == Spec /\ WF_vars(ClientTask) /\ WF_vars(Agent) /\ WF_vars(SipThread)

-------------------------------------------------------------------------------
Number(seq, Test(_)) == Cardinality({i \in DOMAIN seq : Test(seq[i])})

SubrequestOps == {"add", "modify", "remove", "added", "modified", "removed"}

(* The subrequests that are with the agents and the media engine, or answered  *)
(* by a message that the client's task has not taken.                          *)
Outstanding ==
  Number(agent.requests, LAMBDA r : r.op \in SubrequestOps)
  + Number(agent.replies, LAMBDA r : r.reply \in SubrequestOps)
  + Len(media)
  + Number(sip.told, LAMBDA n : n \in {"discovered", "terminated"})
  + (IF sip.options THEN 1 ELSE 0)
  + (IF sip.bye /\ (sip.handle \/ sip.ending = "terminated") THEN 1 ELSE 0)

(* The end of a dialog loses the discovery that is under way in it.            *)
DiscoveryLost == s.active # NULL /\ s.active.kind = "discover" /\ ~sip.handle

(* INVARIANT: subrequest_count is the number of subrequests still to be        *)
(* answered, whatever the order of the answers and of disconnects; so the      *)
(* reset in mrcp_client_session_state_set never drops one, and the count never *)
(* goes below zero (TypeOK).                                                   *)
CountExact == TypeOK /\ (DiscoveryLost \/ s.count = Outstanding)

(* INVARIANT: when the application is told that its session is terminated, and *)
(* destroys it (mrcp_application.h:239), no message or callback that refers to *)
(* the session is under way, no connection has one of its channels and the     *)
(* client does not list it.  One thing may come later: sofia's thread tells of *)
(* the server's BYE after it has let go of the handle and of the mutex, and    *)
(* the termination, which finds no handle, does not wait for it.               *)
NothingOutlivesSession ==
  Over => /\ Outstanding = 0 /\ s.waiting = {}
          /\ ~sip.handle
          /\ sip.told \in {<<>>, <<"event">>}
          /\ sip.ending \in {"none", "event", "told"} /\ (sip.ending = "event" => sip.told = <<>>)
          /\ agent.replies = <<>> /\ agent.attached = {} /\ agent.asking = {}
          /\ ~listed

(* INVARIANT: the client offers only for a request that waits for it; an       *)
(* answer is never taken for that of another request.                          *)
OffersAreAskedFor ==
  sip.invite # "none" => s.active # NULL /\ s.active.kind \in {"add", "remove", "update"} /\ s.count = 0

(* REFINEMENT: answers come once, in order and not after the last.             *)
Broken == s.disconnected \/ (s.status = "FAILURE" /\ ~s.registered) \/ Over
Service == INSTANCE ClientService WITH broken <- Broken
Serves == Service!ServiceSpec

(* LIVENESS: the active request is answered unless its dialog has ended; the   *)
(* termination even then.                                                      *)
Active(id) == s.active # NULL /\ s.active.id = id
DialogOver == s.registered /\ ~sip.handle
ActiveIsAnswered ==
  \A id \in 1..MaxRequests :
    Active(id) ~> (~Active(id) \/ (DialogOver /\ s.active.kind # "terminate"))

(* INVARIANT, of mrcp_client_session.c:1209, "cancel all the requests besides  *)
(* session termination one": in a broken session none is left behind in the    *)
(* queue, where only the answer to an active request would find it.            *)
AllAreCancelled == s.disconnected /\ ~Busy /\ s.active = NULL => s.queue = <<>>
=============================================================================
