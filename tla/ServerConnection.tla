-------------------------- MODULE ServerConnection --------------------------
(* The MRCPv2 connection agent of the server (mrcp_server_connection.c), one   *)
(* task.  All its clients have one address.  Messages are well formed.         *)
EXTENDS MrcpConnection

CONSTANTS ForceNew,             \* force_new_connection
          MaxSharedUse,         \* max_shared_use_count, 0 for no limit
          InactivityTimeout,    \* are the timeouts configured?
          TerminationTimeout

VARIABLES server,    \* the agent
          asked,     \* per channel: requests its session has to answer, in order
          dialog     \* per channel: is the SIP dialog of its session up?

(* mrcp_connection_find                                                        *)
Found == IF server.list = <<>> THEN None ELSE Head(server.list)

AnswerType(offer) ==
  IF /\ offer = "EXISTING" /\ ~ForceNew /\ Found # None
     /\ MaxSharedUse = 0 \/ server.conn[Found].use < MaxSharedUse
  THEN "EXISTING" ELSE "NEW"

ServerChannelAdd(c) == server' = [server EXCEPT !.pending = @ \cup {c}]

(* A connection is taken only while some channel waits for one.                *)
ConnectionAccept(k) ==
  /\ tcp[k].server = "backlog"
  /\ IF server.pending = {}
     THEN tcp' = Closed(tcp, k, "server") /\ UNCHANGED server
     ELSE /\ tcp' = [tcp EXCEPT ![k].server = "open"]
          /\ server' = [server EXCEPT !.conn[k] = [NewConnection EXCEPT !.inactivity = InactivityTimeout],
                                      !.list = Append(@, k)]

(* Mutant: the channel stays in the table of those that wait.                  *)
AssociateCopied(k, c) == IF c \in server.pending THEN ChannelAdd(server, k, c) ELSE server

(* mrcp_connection_channel_associate, for a channel that is not yet known      *)
Associate(k, c) ==
  IF c \in server.pending THEN ChannelAdd([server EXCEPT !.pending = @ \ {c}], k, c) ELSE server

ServerReceive(k) ==
  /\ server.conn[k].sock /\ ~tcp[k].broken /\ tcp[k].up # <<>>
  /\ tcp' = [tcp EXCEPT ![k].up = Tail(@)]
  /\ LET m == Head(tcp[k].up)
         known == m.channel \in server.conn[k].table
         found == IF known THEN server ELSE Associate(k, m.channel)
     IN IF known \/ m.channel \in server.pending
        THEN /\ server' = [found EXCEPT !.conn[k].inactivity = InactivityTimeout]
             /\ asked' = [asked EXCEPT ![m.channel] = Append(@, m.id)]
        ELSE UNCHANGED <<server, asked>>
  /\ UNCHANGED dialog

Unlisted(a, k) == [a EXCEPT !.list = Without(@, k), !.conn[k].inactivity = FALSE]

(* mrcp_connection_disconnect_raise: the sessions of the channels end.         *)
Disconnected(k) == dialog' = [c \in Channels |-> dialog[c] /\ c \notin server.conn[k].table]

(* Mutant: a connection that is timed out is closed without a word.            *)
ConnectionCloseSilent(k, timedout) ==
  LET closed == [Unlisted(server, k) EXCEPT !.conn[k].sock = FALSE] IN
  /\ tcp' = Closed(tcp, k, "server")
  /\ UNCHANGED dialog
  /\ server' = IF closed.conn[k].access = 0 THEN [closed EXCEPT !.conn[k] = Destroyed]
               ELSE [closed EXCEPT !.conn[k].termination = TerminationTimeout /\ ~timedout]

(* With channels left, their sessions are ended at once or, to let BYE come,   *)
(* after the termination timeout; the last of them takes the connection along. *)
ConnectionClose(k, timedout) ==
  LET closed == [Unlisted(server, k) EXCEPT !.conn[k].sock = FALSE] IN
  /\ tcp' = Closed(tcp, k, "server")
  /\ IF closed.conn[k].access = 0
     THEN server' = [closed EXCEPT !.conn[k] = Destroyed] /\ UNCHANGED dialog
     ELSE IF timedout THEN server' = closed /\ Disconnected(k)
     ELSE server' = [closed EXCEPT !.conn[k].termination = TerminationTimeout] /\ UNCHANGED dialog

ServerPeerDisconnected(k) == server.conn[k].sock /\ ServerSeesEnd(k) /\ ConnectionClose(k, FALSE)

InactivityTimedOut(k) == server.conn[k].inactivity /\ ConnectionClose(k, TRUE)

TerminationTimedOut(k) ==
  /\ server.conn[k].termination
  /\ server' = [server EXCEPT !.conn[k].termination = FALSE]
  /\ Disconnected(k)
  /\ UNCHANGED tcp

(* Mutant: the termination timer is not killed.                                *)
ServerChannelRemoveTimed(c) ==
  LET k == server.chan[c].connection
      left == ChannelRemove(server, k, c)
  IN  server' = IF k = None THEN [server EXCEPT !.pending = @ \ {c}]
                ELSE IF left.conn[k].access > 0 \/ left.conn[k].sock THEN left
                ELSE [left EXCEPT !.chan[c].connection = k, !.chan[c].removed = TRUE]

(* A connection that is open outlives its channels; one that is closed is left *)
(* to the last of them.                                                        *)
ServerChannelRemove(c) ==
  LET k == server.chan[c].connection
      left == ChannelRemove(server, k, c)
  IN  server' = IF k = None THEN [server EXCEPT !.pending = @ \ {c}]
                ELSE IF left.conn[k].access > 0 \/ left.conn[k].sock THEN left
                ELSE [left EXCEPT !.chan[c].connection = k, !.chan[c].removed = TRUE,
                                  !.conn[k].termination = FALSE]

(* mrcp_server_agent_messsage_send, to the connection the channel has by then  *)
ServerMessageSend(c, id) ==
  LET k == server.chan[c].connection
  IN  tcp' = IF k # None /\ server.conn[k].sock
             THEN [tcp EXCEPT ![k].down = Append(@, [channel |-> c, id |-> id])]
             ELSE tcp
=============================================================================
