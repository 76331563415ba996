--------------------------- MODULE MrcpConnection ---------------------------
(* What the two agents of the MRCPv2 transport share: connections and control  *)
(* channels (mrcp_connection.c, mrcp_connection_types.h), and TCP between the  *)
(* agents, of which only what they see is modelled: what was sent arrives in   *)
(* order, a close is seen by the peer, and the network may break a connection. *)
EXTENDS Integers, Sequences, FiniteSets

CONSTANTS Channels,    \* control channels, each of a session of its own
          MaxLinks,    \* bound: connections ever made
          MaxBreaks,   \* bound: connections the network breaks
          MaxRequests  \* bound: requests of all channels

ASSUME ConnectionAssumption ==
  IsFiniteSet(Channels) /\ {MaxLinks, MaxBreaks, MaxRequests} \subseteq Nat

Links == 1..MaxLinks
None  == 0             \* a NULL connection, no active request

VARIABLE tcp           \* per connection: the two ends, what is on its way

-------------------------------------------------------------------------------
(* Connections and channels of an agent                                        *)

NewConnection == [state  |-> "alive", sock |-> TRUE,
                  table  |-> {}, access |-> 0, use |-> 0,   \* channel_table, access_count, use_count
                  inactivity |-> FALSE, termination |-> FALSE,   \* is the timer set?
                  stuck  |-> <<>>]   \* messages at the head of rx_stream that were not scrolled off

NoConnection == [NewConnection EXCEPT !.state = "none", !.sock = FALSE]
Destroyed    == [NoConnection EXCEPT !.state = "destroyed"]

NewChannel == [connection |-> None, active |-> None, timer |-> FALSE, removed |-> FALSE]

NewAgent == [conn |-> [k \in Links |-> NoConnection],
             chan |-> [c \in Channels |-> NewChannel],
             list |-> <<>>,      \* connection_list
             pending |-> {}]     \* pending_channel_table

Message == [channel : Channels, id : 1..MaxRequests]

Connection == [state : {"none", "alive", "destroyed"}, sock : BOOLEAN, table : SUBSET Channels,
               access : Nat, use : Nat, inactivity : BOOLEAN, termination : BOOLEAN, stuck : Seq(Message)]

Channel == [connection : Links \cup {None}, active : 0..MaxRequests, timer : BOOLEAN, removed : BOOLEAN]

Agent == [conn : [Links -> Connection], chan : [Channels -> Channel], list : Seq(Links), pending : SUBSET Channels]

Listed(a, k) == \E i \in DOMAIN a.list : a.list[i] = k

(* APR_RING_REMOVE                                                             *)
Without(list, k) ==
  LET i == CHOOSE i \in DOMAIN list : list[i] = k
  IN  SubSeq(list, 1, i - 1) \o SubSeq(list, i + 1, Len(list))

(* Mutant: only the uses are counted.                                          *)
ChannelAddUncounted(a, k, c) ==
  [a EXCEPT !.conn[k] = [a.conn[k] EXCEPT !.table = @ \cup {c}, !.use = @ + 1],
            !.chan[c].connection = k]

ChannelAdd(a, k, c) ==
  [a EXCEPT !.conn[k] = [a.conn[k] EXCEPT !.table = @ \cup {c}, !.access = @ + 1, !.use = @ + 1],
            !.chan[c].connection = k]

ChannelRemove(a, k, c) ==
  [a EXCEPT !.conn[k] = [a.conn[k] EXCEPT !.table = @ \ {c}, !.access = @ - 1],
            !.chan[c].connection = None]

(* The session is gone: a connection that was left to the channel goes too.    *)
ChannelDestroy(a, c) ==
  LET k == a.chan[c].connection
  IN  IF k # None /\ a.chan[c].removed
      THEN [a EXCEPT !.conn[k] = Destroyed, !.chan[c].connection = None]
      ELSE a

-------------------------------------------------------------------------------
(* TCP: what each end has sent and the other has not read                      *)

NoTcp == [client |-> "none", server |-> "none", up |-> <<>>, down |-> <<>>, broken |-> FALSE]

TcpType == tcp \in [Links -> [client : {"none", "open", "closed"}, server : {"none", "backlog", "open", "closed"},
                              up : Seq(Message), down : Seq(Message), broken : BOOLEAN]]

Connected(t, k) == [t EXCEPT ![k].client = "open", ![k].server = "backlog"]
Closed(t, k, end) == IF end = "client" THEN [t EXCEPT ![k].client = "closed"]
                                       ELSE [t EXCEPT ![k].server = "closed"]

(* A peer that closes without having read everything resets the connection:    *)
(* what it sent before may be lost.                                            *)
ClientSeesEnd(k) == \/ tcp[k].broken
                    \/ tcp[k].server = "closed" /\ (tcp[k].down = <<>> \/ tcp[k].up # <<>>)
ServerSeesEnd(k) == \/ tcp[k].broken
                    \/ tcp[k].client = "closed" /\ (tcp[k].up = <<>> \/ tcp[k].down # <<>>)

Break(k) == /\ tcp[k].client = "open" \/ tcp[k].server = "open"
            /\ ~tcp[k].broken
            /\ Cardinality({l \in Links : tcp[l].broken}) < MaxBreaks
            /\ tcp' = [tcp EXCEPT ![k].broken = TRUE]
=============================================================================
