-------------------------- MODULE ClientConnection --------------------------
(* The MRCPv2 connection agent of the client (mrcp_client_connection.c), one   *)
(* task.  Its server has one address.  A session asks for one thing at a time, *)
(* so the request and its handling in the agent's task are one step.           *)
EXTENDS MrcpConnection

CONSTANTS OfferNew,        \* offer_new_connection
          RequestTimeout   \* is request_timeout configured?

VARIABLES client,    \* the agent
          waiting    \* per channel: responses its session waits for

(* mrcp_client_agent_connection_find: the first of the list, with a socket or  *)
(* without, since all have the address of the server.                          *)
ConnectionFind == IF client.list = <<>> THEN None ELSE Head(client.list)

OfferedType == IF OfferNew \/ client.list = <<>> THEN "NEW" ELSE "EXISTING"

(* mrcp_client_agent_channel_modify for a channel that has no connection: the  *)
(* one that is there, a new one, or none if the server is not reached.         *)
ConnectionExisting(c) ==
  /\ client' = ChannelAdd(client, ConnectionFind, c)
  /\ UNCHANGED tcp

ConnectionCreate(c) ==
  \E k \in Links :
    /\ tcp[k] = NoTcp /\ \A l \in 1..(k - 1) : tcp[l] # NoTcp
    /\ tcp' = Connected(tcp, k)
    /\ client' = ChannelAdd([client EXCEPT !.conn[k] = NewConnection, !.list = Append(@, k)], k, c)

ClientChannelModify(c, type, status) ==
  IF type = "EXISTING" /\ ConnectionFind # None
  THEN status /\ ConnectionExisting(c)
  ELSE IF status THEN ConnectionCreate(c) ELSE UNCHANGED <<client, tcp>>

(* mrcp_client_agent_connection_remove                                         *)
ConnectionRemove(a, k) == [a EXCEPT !.list = Without(@, k), !.conn[k].sock = FALSE]

(* The connection goes with its last channel, which keeps it until its session *)
(* is destroyed.  The request timer is not touched.                            *)
ClientChannelRemove(c) ==
  LET k == client.chan[c].connection
      left == ChannelRemove(client, k, c)
  IN  IF k = None THEN UNCHANGED <<client, tcp>>
      ELSE IF left.conn[k].access > 0 THEN client' = left /\ UNCHANGED tcp
      ELSE /\ client' = ConnectionRemove([left EXCEPT !.chan[c].connection = k, !.chan[c].removed = TRUE], k)
           /\ tcp' = Closed(tcp, k, "client")

(* Sent, or cancelled: a response is made up when there is no socket and when  *)
(* the peer's reset is noticed by the send.                                    *)
MessageSend(c, id) ==
  LET k == client.chan[c].connection IN
  \/ /\ k # None /\ client.conn[k].sock
     /\ tcp' = [tcp EXCEPT ![k].up = Append(@, [channel |-> c, id |-> id])]
     /\ client' = [client EXCEPT !.chan[c].active = id, !.chan[c].timer = RequestTimeout]
     /\ waiting' = [waiting EXCEPT ![c] = @ + 1]
  \/ /\ k = None \/ ~client.conn[k].sock \/ tcp[k].broken \/ tcp[k].server = "closed"
     /\ UNCHANGED <<client, tcp, waiting>>

Answered(chan) == [chan EXCEPT !.active = None, !.timer = FALSE]

(* What is read: what was not scrolled off, and n messages more.               *)
Text(k, n) == client.conn[k].stuck \o SubSeq(tcp[k].down, 1, n)

(* A response that is not to the active request of its channel.                *)
Unexpected(k, text) ==
  {i \in DOMAIN text : /\ text[i].channel \in client.conn[k].table
                       /\ \/ client.chan[text[i].channel].active # text[i].id
                          \/ \E j \in 1..(i - 1) : text[j] = text[i]}

(* What precedes the first of them has been handled.                           *)
Taken(k, text) == {i \in DOMAIN text : \A j \in Unexpected(k, text) : i < j}
AnsweredBy(k, text) == {text[i].channel : i \in Taken(k, text)} \cap client.conn[k].table

(* Mutant: the timer is killed before the response is compared.                *)
ChannelsUntimed(k, text) ==
  LET met == Taken(k, text) \cup {i \in Unexpected(k, text) : \A j \in Unexpected(k, text) : i <= j}
  IN  [c \in Channels |->
        IF c \in AnsweredBy(k, text) THEN Answered(client.chan[c])
        ELSE [client.chan[c] EXCEPT !.timer = @ /\ \A i \in met : text[i].channel # c]]

ChannelsRead(k, text) ==
  [c \in Channels |-> IF c \in AnsweredBy(k, text) THEN Answered(client.chan[c]) ELSE client.chan[c]]

(* mrcp_client_message_handler: a response to the active request goes to the   *)
(* session, a message to a channel unknown is dropped, any other response ends *)
(* the reading.  Then nothing is scrolled off the stream: all up to that       *)
(* response is read again with the next receive, which overwrites what had     *)
(* been received behind it.                                                    *)
ClientReceive(k) ==
  /\ client.conn[k].sock /\ ~tcp[k].broken
  /\ \E n \in 1..Len(tcp[k].down) :
       LET text == Text(k, n)
           unscrolled == IF Unexpected(k, text) = {} THEN 0 ELSE Cardinality(Taken(k, text)) + 1
       IN /\ tcp' = [tcp EXCEPT ![k].down = SubSeq(@, n + 1, Len(@))]
          /\ client' = [client EXCEPT !.conn[k].stuck = SubSeq(text, 1, unscrolled),
                                      !.chan = ChannelsRead(k, text)]
          /\ waiting' = [c \in Channels |-> waiting[c] - IF c \in AnsweredBy(k, text) THEN 1 ELSE 0]

(* Mutant: the requests are answered but stay active.                          *)
CancelledOnly(k) ==
  /\ client' = [client EXCEPT !.conn[k].sock = FALSE]
  /\ waiting' = [c \in Channels |-> IF c \in client.conn[k].table /\ client.chan[c].active # None
                                    THEN waiting[c] - 1 ELSE waiting[c]]

(* mrcp_client_agent_disconnect_raise: active requests are cancelled; a        *)
(* session that waits for nothing is told.                                     *)
DisconnectRaise(k) ==
  LET cut == {c \in client.conn[k].table : client.chan[c].active # None} IN
  /\ client' = [client EXCEPT !.conn[k].sock = FALSE,
                              !.chan = [c \in Channels |-> IF c \in cut THEN Answered(@[c]) ELSE @[c]]]
  /\ waiting' = [c \in Channels |-> IF c \in cut THEN waiting[c] - 1 ELSE waiting[c]]

(* The connection stays in the list, and so will be found.                     *)
ClientPeerDisconnected(k) ==
  /\ client.conn[k].sock /\ ClientSeesEnd(k)
  /\ tcp' = Closed(tcp, k, "client")
  /\ DisconnectRaise(k)

(* mrcp_client_timer_proc                                                      *)
RequestTimedOut(c) ==
  /\ client.chan[c].timer
  /\ client' = [client EXCEPT !.chan[c] = Answered(@)]
  /\ waiting' = IF client.chan[c].active # None THEN [waiting EXCEPT ![c] = @ - 1] ELSE waiting
  /\ UNCHANGED tcp
=============================================================================
