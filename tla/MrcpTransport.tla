---------------------------- MODULE MrcpTransport ----------------------------
(* The two connection agents, TCP between them, and the sessions that use them *)
(* as ClientSession and ServerSession do: one channel each, one request at a   *)
(* time, ended by the client's BYE or by the server once a disconnect is       *)
(* raised.  A session is used once.                                            *)
EXTENDS ClientConnection, ServerConnection

ASSUME TransportAssumption ==
  /\ {OfferNew, RequestTimeout, ForceNew, InactivityTimeout, TerminationTimeout} \subseteq BOOLEAN
  /\ MaxSharedUse \in Nat

VARIABLES using,    \* the client's sessions
          hosted,   \* the server's sessions
          sdp,      \* per channel: the connection type last offered or answered
          sent      \* requests sent, whose number is the id of the last

vars == <<client, server, tcp, waiting, asked, dialog, using, hosted, sdp, sent>>

Phases == {"idle", "offering", "ready", "failed", "removed", "destroyed"}

TypeOK ==
  /\ client \in Agent /\ server \in Agent /\ TcpType
  /\ waiting \in [Channels -> Int]
  /\ asked \in [Channels -> Seq(1..MaxRequests)]
  /\ dialog \in [Channels -> BOOLEAN]
  /\ using \in [Channels -> Phases] /\ hosted \in [Channels -> Phases]
  /\ sdp \in [Channels -> {"NEW", "EXISTING"}]
  /\ sent \in 0..MaxRequests

Init ==
  /\ client = NewAgent /\ server = NewAgent
  /\ tcp = [k \in Links |-> NoTcp]
  /\ waiting = [c \in Channels |-> 0]
  /\ asked = [c \in Channels |-> <<>>]
  /\ dialog = [c \in Channels |-> FALSE]
  /\ using = [c \in Channels |-> "idle"] /\ hosted = using
  /\ sdp = [c \in Channels |-> "NEW"]
  /\ sent = 0

-------------------------------------------------------------------------------
(* The sessions of the client                                                  *)

Offer(c) ==
  /\ using[c] = "idle"
  /\ using' = [using EXCEPT ![c] = "offering"]
  /\ sdp' = [sdp EXCEPT ![c] = OfferedType]
  /\ dialog' = [dialog EXCEPT ![c] = TRUE]
  /\ UNCHANGED <<client, server, tcp, waiting, asked, hosted, sent>>

(* The answer of the server, when its session has added the channel.           *)
OnAnswer(c) ==
  /\ using[c] = "offering" /\ hosted[c] # "idle"
  /\ \E status \in BOOLEAN :
       /\ ClientChannelModify(c, sdp[c], status)
       /\ using' = [using EXCEPT ![c] = IF status THEN "ready" ELSE "failed"]
  /\ UNCHANGED <<server, waiting, asked, dialog, hosted, sdp, sent>>

Send(c) ==
  /\ using[c] = "ready" /\ waiting[c] = 0 /\ sent < MaxRequests
  /\ sent' = sent + 1
  /\ MessageSend(c, sent + 1)
  /\ UNCHANGED <<server, asked, dialog, using, hosted, sdp>>

(* BYE goes out while the channel is removed.                                  *)
Terminate(c) ==
  /\ using[c] \in {"ready", "failed"} /\ waiting[c] = 0
  /\ ClientChannelRemove(c)
  /\ using' = [using EXCEPT ![c] = "removed"]
  /\ dialog' = [dialog EXCEPT ![c] = FALSE]
  /\ UNCHANGED <<server, waiting, asked, hosted, sdp, sent>>

DestroyUsing(c) ==
  /\ using[c] = "removed"
  /\ client' = ChannelDestroy(client, c)
  /\ using' = [using EXCEPT ![c] = "destroyed"]
  /\ UNCHANGED <<server, tcp, waiting, asked, dialog, hosted, sdp, sent>>

-------------------------------------------------------------------------------
(* The sessions of the server                                                  *)

Host(c) ==
  /\ using[c] = "offering" /\ hosted[c] = "idle"
  /\ sdp' = [sdp EXCEPT ![c] = AnswerType(@)]
  /\ ServerChannelAdd(c)
  /\ hosted' = [hosted EXCEPT ![c] = "ready"]
  /\ UNCHANGED <<client, tcp, waiting, asked, dialog, using, sent>>

Answer(c) ==
  /\ hosted[c] = "ready" /\ asked[c] # <<>>
  /\ ServerMessageSend(c, Head(asked[c]))
  /\ asked' = [asked EXCEPT ![c] = Tail(@)]
  /\ UNCHANGED <<client, server, waiting, dialog, using, hosted, sdp, sent>>

(* The session has heard of the BYE, or ends on its own after a disconnect.    *)
Deactivate(c) ==
  /\ hosted[c] = "ready" /\ ~dialog[c]
  /\ ServerChannelRemove(c)
  /\ asked' = [asked EXCEPT ![c] = <<>>]
  /\ hosted' = [hosted EXCEPT ![c] = "removed"]
  /\ UNCHANGED <<client, tcp, waiting, dialog, using, sdp, sent>>

DestroyHosted(c) ==
  /\ hosted[c] = "removed"
  /\ server' = ChannelDestroy(server, c)
  /\ hosted' = [hosted EXCEPT ![c] = "destroyed"]
  /\ UNCHANGED <<client, tcp, waiting, asked, dialog, using, sdp, sent>>

-------------------------------------------------------------------------------
(* The tasks of the agents, and the network                                    *)

SessionsAsTheyAre == UNCHANGED <<using, hosted, sdp, sent>>

ClientTask(k) ==
  /\ ClientReceive(k) \/ ClientPeerDisconnected(k)
  /\ UNCHANGED <<server, asked, dialog>> /\ SessionsAsTheyAre

ClientTimer(c) ==
  /\ RequestTimedOut(c)
  /\ UNCHANGED <<server, asked, dialog>> /\ SessionsAsTheyAre

ServerTask(k) ==
  /\ \/ ConnectionAccept(k) /\ UNCHANGED <<asked, dialog>>
     \/ ServerReceive(k)
     \/ ServerPeerDisconnected(k) /\ UNCHANGED asked
  /\ UNCHANGED <<client, waiting>> /\ SessionsAsTheyAre

Inactivity(k) == InactivityTimedOut(k) /\ UNCHANGED <<client, waiting, asked>> /\ SessionsAsTheyAre

Termination(k) == TerminationTimedOut(k) /\ UNCHANGED <<client, waiting, asked>> /\ SessionsAsTheyAre

Network(k) == Break(k) /\ UNCHANGED <<client, server, waiting, asked, dialog>> /\ SessionsAsTheyAre

Next ==
  \/ \E c \in Channels : \/ Offer(c) \/ OnAnswer(c) \/ Send(c) \/ Terminate(c) \/ DestroyUsing(c)
                         \/ Host(c) \/ Answer(c) \/ Deactivate(c) \/ DestroyHosted(c)
                         \/ ClientTimer(c)
  \/ \E k \in Links : ClientTask(k) \/ ServerTask(k) \/ Inactivity(k) \/ Termination(k) \/ Network(k)

Spec == Init /\ [][Next]_vars

(* The client's task goes on and a timer that is not killed expires.  Nothing  *)
(* makes the server answer, or the network deliver.                            *)
Fairness == \A c \in Channels : WF_vars(ClientTimer(c))

FairSpec == Spec /\ Fairness

-------------------------------------------------------------------------------
(* Properties                                                                  *)

Holders(a, k) == {c \in Channels : a.chan[c].connection = k}

(* A connection lives as long as it is needed: its count is that of its        *)
(* channels, the list and the channels refer only to one that lives, and one   *)
(* that is neither in the list nor in use is held by the one channel whose     *)
(* session will destroy it.                                                    *)
Owned(a) ==
  \A k \in Links :
    LET conn == a.conn[k]
        listed == Listed(a, k)
    IN /\ conn.access = Cardinality(conn.table)
       /\ conn.state # "alive" => ~listed /\ Holders(a, k) = {}
       /\ conn.state = "alive" =>
            \/ conn.table # {} /\ Holders(a, k) = conn.table
            \/ conn.table = {} /\ listed /\ Holders(a, k) = {}
            \/ conn.table = {} /\ ~listed /\ \E c \in Channels : Holders(a, k) = {c} /\ a.chan[c].removed

ConnectionsAreOwned == Owned(client) /\ Owned(server)

(* A channel of the server waits for a connection or has one, not both, from   *)
(* the offer until its session removes it, and then neither table has it.      *)
OneHome ==
  \A c \in Channels :
    LET homes == {k \in Links : c \in server.conn[k].table}
    IN IF hosted[c] = "ready" THEN IF c \in server.pending THEN homes = {} ELSE Cardinality(homes) = 1
                              ELSE c \notin server.pending /\ homes = {}

(* A timer runs only for what is there: the request timer for the active       *)
(* request of a channel that is not removed, the inactivity timer for an open  *)
(* connection, the termination timer for a closed one with channels.  No timer *)
(* is left to fire into memory that a session took along.                      *)
TimersHaveOwners ==
  /\ \A c \in Channels : client.chan[c].timer => client.chan[c].active # None /\ using[c] = "ready"
  /\ \A k \in Links : /\ server.conn[k].inactivity => server.conn[k].sock
                      /\ server.conn[k].termination => ~server.conn[k].sock /\ server.conn[k].table # {}

(* Connections, their channels and their timers end together.                  *)
NothingIsLeftOver == ConnectionsAreOwned /\ TimersHaveOwners

(* A session waits for one response exactly while its request is active: no    *)
(* request is answered twice, by the server, the timer or a lost connection.   *)
AnsweredOnce == \A c \in Channels : waiting[c] = IF client.chan[c].active = None THEN 0 ELSE 1

(* A session of the server whose connection is gone does not stay for want of  *)
(* a BYE: it has been told, or the termination timer will tell it.             *)
OrphansAreTold ==
  \A k \in Links : \A c \in server.conn[k].table :
    server.conn[k].sock \/ server.conn[k].termination \/ ~dialog[c]

(* With the request timeout, every request is answered, whatever the server    *)
(* and the network do.                                                         *)
RequestIsAnswered == \A c \in Channels : waiting[c] # 0 ~> waiting[c] = 0
=============================================================================
