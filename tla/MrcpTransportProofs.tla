------------------------ MODULE MrcpTransportProofs ------------------------
(* Proofs about the transport: any number of channels, connections, requests   *)
(* and breaks, any choice of what is configured.                               *)
(*                                                                             *)
(* The agents are alike in how they count: what an operation does to the       *)
(* connections and channels of either is a lemma about an agent, sound before  *)
(* and after (Sound).  What they differ in, and the sessions that use them,    *)
(* makes the rest of the inductive invariant.                                  *)
EXTENDS MrcpTransport, FiniteSetTheorems, SequenceTheorems, TLAPS

-------------------------------------------------------------------------------
(* The list of connections                                                     *)

Once(list) == \A i, j \in DOMAIN list : list[i] = list[j] => i = j

LEMMA ListAppended ==
  ASSUME NEW a \in Agent, NEW b \in Agent, NEW k \in Links, Once(a.list), ~Listed(a, k),
         b.list = Append(a.list, k)
  PROVE  /\ Once(b.list)
         /\ \A l \in Links : Listed(b, l) <=> Listed(a, l) \/ l = k
PROOF
  <1>1. a.list \in Seq(Links)
    BY DEF Agent
  <1>2. /\ Len(b.list) = Len(a.list) + 1
        /\ DOMAIN b.list = 1..(Len(a.list) + 1) /\ DOMAIN a.list = 1..Len(a.list)
        /\ \A i \in 1..Len(a.list) : b.list[i] = a.list[i]
        /\ b.list[Len(a.list) + 1] = k
        /\ Len(a.list) \in Nat
    BY <1>1
  <1> QED
    BY <1>2 DEF Once, Listed

LEMMA ListWithout ==
  ASSUME NEW a \in Agent, NEW k \in Links, Once(a.list), Listed(a, k)
  PROVE  LET list == Without(a.list, k)
         IN  /\ list \in Seq(Links)
             /\ Once(list)
             /\ \A l \in Links : (\E i \in DOMAIN list : list[i] = l) <=> Listed(a, l) /\ l # k
PROOF
  <1> DEFINE i == CHOOSE i \in DOMAIN a.list : a.list[i] = k
             n == Len(a.list)
             front == SubSeq(a.list, 1, i - 1)
             back == SubSeq(a.list, i + 1, n)
             list == front \o back
  <1>1. a.list \in Seq(Links) /\ n \in Nat /\ DOMAIN a.list = 1..n
    BY DEF Agent
  <1>2. i \in 1..n /\ a.list[i] = k
    BY <1>1 DEF Listed
  <1> HIDE DEF i
  <1>3. front \in Seq(Links) /\ Len(front) = i - 1 /\ \A j \in 1..(i - 1) : front[j] = a.list[j]
    BY <1>1, <1>2
  <1>4. back \in Seq(Links) /\ Len(back) = n - i /\ \A j \in 1..(n - i) : back[j] = a.list[i + j]
    BY <1>1, <1>2
  <1> HIDE DEF front, back
  <1>5. /\ list \in Seq(Links) /\ DOMAIN list = 1..(n - 1)
        /\ \A j \in 1..(n - 1) : list[j] = IF j < i THEN a.list[j] ELSE a.list[j + 1]
    BY <1>1, <1>2, <1>3, <1>4
  <1>6. list = Without(a.list, k)
    BY DEF Without, front, back, i
  <1> HIDE DEF list, n
  <1>7. Once(list)
    <2> DEFINE from(j) == IF j < i THEN j ELSE j + 1
    <2>1. ASSUME NEW j \in DOMAIN list
          PROVE  from(j) \in 1..n /\ list[j] = a.list[from(j)]
      BY <1>1, <1>2, <1>5
    <2>2. ASSUME NEW g \in DOMAIN list, NEW h \in DOMAIN list, list[g] = list[h]
          PROVE  g = h
      <3>1. from(g) = from(h)
        <4> HIDE DEF from
        <4> QED
          BY <1>1, <2>1, <2>2 DEF Once
      <3> QED
        BY <1>1, <1>2, <1>5, <3>1
    <2> QED
      BY <2>2 DEF Once
  <1>8. ASSUME NEW l \in Links
        PROVE  (\E j \in DOMAIN list : list[j] = l) <=> Listed(a, l) /\ l # k
    <2>1. ASSUME NEW j \in DOMAIN list, list[j] = l  PROVE Listed(a, l) /\ l # k
      <3>1. PICK h \in 1..n : h # i /\ list[j] = a.list[h]
        <4>1. j \in 1..(n - 1)
          BY <1>5, <2>1
        <4>2. CASE j < i
          <5>1. j \in 1..n /\ j # i /\ list[j] = a.list[j]
            BY <1>1, <1>2, <1>5, <4>1, <4>2
          <5> QED
            BY <5>1, Zenon
        <4>3. CASE ~(j < i)
          <5>1. j + 1 \in 1..n /\ j + 1 # i /\ list[j] = a.list[j + 1]
            BY <1>1, <1>2, <1>5, <4>1, <4>3
          <5> QED
            BY <5>1, Zenon
        <4> QED
          BY <4>2, <4>3
      <3> QED
        BY <1>1, <1>2, <2>1, <3>1 DEF Once, Listed
    <2>2. ASSUME NEW j \in 1..n, a.list[j] = l, l # k  PROVE \E h \in DOMAIN list : list[h] = l
      <3>1. CASE j < i
        <4>1. j \in DOMAIN list
          BY <1>1, <1>2, <1>5, <3>1
        <4>2. list[j] = l
          BY <1>1, <1>2, <1>5, <2>2, <3>1
        <4> QED
          BY <4>1, <4>2
      <3>2. CASE j > i
        <4>1. j - 1 \in 1..(n - 1) /\ (j - 1) + 1 = j /\ ~(j - 1 < i)
          BY <1>1, <1>2, <3>2
        <4>2. j - 1 \in DOMAIN list /\ list[j - 1] = l
          BY <1>5, <2>2, <4>1
        <4> QED
          BY <4>2
      <3> QED
        BY <1>1, <1>2, <2>2, <3>1, <3>2
    <2> QED
      BY <1>1, <2>1, <2>2 DEF Listed
  <1> QED
    BY <1>5, <1>6, <1>7, <1>8
-------------------------------------------------------------------------------
(* Connections and channels of an agent                                        *)

Holds(a, c, k) == a.chan[c].connection = k

\* counts are right, and what is listed or used is alive
ConnectionSound(a, k) ==
  LET conn == a.conn[k]
  IN  /\ conn.access = Cardinality(conn.table)
      /\ conn.sock => Listed(a, k)
      /\ Listed(a, k) \/ conn.table # {} => conn.state = "alive"
      /\ conn.state = "alive" => \/ Listed(a, k) \/ conn.table # {}
                                 \/ \E c \in Channels : Holds(a, c, k) /\ a.chan[c].removed

\* the table has the channels that hold the connection, or one that is removed
\* has it for itself
ChannelSound(a, c, k) ==
  /\ c \in a.conn[k].table <=> Holds(a, c, k) /\ ~a.chan[c].removed
  /\ Holds(a, c, k) /\ a.chan[c].removed =>
       /\ a.conn[k].state = "alive" /\ a.conn[k].table = {} /\ ~Listed(a, k)
       /\ \A d \in Channels : Holds(a, d, k) => d = c

Sound(a) ==
  /\ a \in Agent
  /\ Once(a.list)
  /\ \A k \in Links : ConnectionSound(a, k)
  /\ \A c \in Channels, k \in Links : ChannelSound(a, c, k)

LEMMA SoundIsOwned ==
  ASSUME NEW a, Sound(a)
  PROVE  Owned(a)
PROOF
  <1> SUFFICES ASSUME NEW k \in Links
               PROVE  /\ a.conn[k].access = Cardinality(a.conn[k].table)
                      /\ a.conn[k].state # "alive" => ~Listed(a, k) /\ Holders(a, k) = {}
                      /\ a.conn[k].state = "alive" =>
                           \/ a.conn[k].table # {} /\ Holders(a, k) = a.conn[k].table
                           \/ a.conn[k].table = {} /\ Listed(a, k) /\ Holders(a, k) = {}
                           \/ /\ a.conn[k].table = {} /\ ~Listed(a, k)
                              /\ \E c \in Channels : Holders(a, k) = {c} /\ a.chan[c].removed
    BY DEF Owned
  <1>1. ConnectionSound(a, k) /\ \A c \in Channels : ChannelSound(a, c, k)
    BY DEF Sound
  <1>2. a.conn[k].table \subseteq Channels
    BY DEF Sound, Agent, Connection
  <1>3. ASSUME a.conn[k].table # {}  PROVE Holders(a, k) = a.conn[k].table
    BY <1>1, <1>2, <1>3 DEF ChannelSound, Holders, Holds
  <1>4. ASSUME a.conn[k].table = {}, Listed(a, k) \/ a.conn[k].state # "alive"
        PROVE  Holders(a, k) = {}
    BY <1>1, <1>4 DEF ChannelSound, Holders, Holds
  <1>5. ASSUME a.conn[k].table = {}, ~Listed(a, k), a.conn[k].state = "alive"
        PROVE  \E c \in Channels : Holders(a, k) = {c} /\ a.chan[c].removed
    <2>1. PICK c \in Channels : Holds(a, c, k) /\ a.chan[c].removed
      BY <1>1, <1>5 DEF ConnectionSound
    <2>2. Holders(a, k) = {c}
      BY <1>1, <2>1 DEF ChannelSound, Holders, Holds
    <2> QED
      BY <2>1, <2>2
  <1> QED
    BY <1>1, <1>3, <1>4, <1>5 DEF ConnectionSound

(* Nothing that counts has changed; sockets may have been closed.              *)
LEMMA Unchanged ==
  ASSUME NEW a, Sound(a), NEW b \in Agent,
         b.list = a.list,
         \A k \in Links : /\ b.conn[k].state = a.conn[k].state
                          /\ b.conn[k].table = a.conn[k].table
                          /\ b.conn[k].access = a.conn[k].access
                          /\ b.conn[k].sock => a.conn[k].sock,
         \A c \in Channels : /\ b.chan[c].connection = a.chan[c].connection
                             /\ b.chan[c].removed = a.chan[c].removed
  PROVE  Sound(b)
  BY DEF Sound, ConnectionSound, ChannelSound, Holds, Listed

LEMMA TableIsFinite ==
  ASSUME NEW a \in Agent, NEW k \in Links
  PROVE  IsFiniteSet(a.conn[k].table)
  BY ConnectionAssumption, FS_Subset DEF Agent, Connection

\* what stays of every connection and channel
SameAgent(a, b) ==
  /\ b.list = a.list /\ b.pending = a.pending
  /\ \A l \in Links : /\ b.conn[l].state = a.conn[l].state /\ b.conn[l].sock = a.conn[l].sock
                      /\ b.conn[l].inactivity = a.conn[l].inactivity
                      /\ b.conn[l].termination = a.conn[l].termination
  /\ \A d \in Channels : /\ b.chan[d].active = a.chan[d].active /\ b.chan[d].timer = a.chan[d].timer
                         /\ b.chan[d].removed = a.chan[d].removed

\* what adding to the table changes
JoinedTable(a, b, k, c) ==
  /\ SameAgent(a, b)
  /\ \A l \in Links : b.conn[l].table = IF l = k THEN a.conn[k].table \cup {c} ELSE a.conn[l].table
  /\ \A d \in Channels : b.chan[d].connection = IF d = c THEN k ELSE a.chan[d].connection

(* A channel that holds none gets a connection that is listed.                 *)
LEMMA Added ==
  ASSUME NEW a, Sound(a), NEW k \in Links, NEW c \in Channels, Listed(a, k),
         Holds(a, c, None), ~a.chan[c].removed
  PROVE  LET b == ChannelAdd(a, k, c)
         IN  Sound(b) /\ JoinedTable(a, b, k, c)
PROOF
  <1> DEFINE b == ChannelAdd(a, k, c)
  <1>1. a \in Agent /\ a.conn[k] \in Connection /\ a.chan[c] \in Channel
    BY DEF Sound, Agent
  <1>2. /\ b \in Agent /\ b.list = a.list
        /\ \A l \in Links : /\ b.conn[l].table = IF l = k THEN a.conn[k].table \cup {c} ELSE a.conn[l].table
                            /\ b.conn[l].access = IF l = k THEN a.conn[k].access + 1 ELSE a.conn[l].access
        /\ \A d \in Channels : b.chan[d].connection = IF d = c THEN k ELSE a.chan[d].connection
        /\ SameAgent(a, b)
    <2> DEFINE conn == [a.conn[k] EXCEPT !.table = @ \cup {c}, !.access = @ + 1, !.use = @ + 1]
               chan == [a.chan[c] EXCEPT !.connection = k]
    <2>1. a.conn[k].access + 1 \in Nat /\ a.conn[k].use + 1 \in Nat
      BY <1>1 DEF Connection
    <2>2. conn \in Connection /\ conn.table = a.conn[k].table \cup {c} /\ conn.access = a.conn[k].access + 1
          /\ conn.state = a.conn[k].state /\ conn.sock = a.conn[k].sock
          /\ conn.inactivity = a.conn[k].inactivity /\ conn.termination = a.conn[k].termination
      BY <1>1, <2>1 DEF Connection
    <2>3. chan \in Channel /\ chan.connection = k /\ chan.removed = a.chan[c].removed
          /\ chan.active = a.chan[c].active /\ chan.timer = a.chan[c].timer
      BY <1>1 DEF Channel
    <2>4. b = [a EXCEPT !.conn[k] = conn, !.chan[c] = chan]
      BY <1>1 DEF ChannelAdd, Agent
    <2> HIDE DEF conn, chan, b
    <2>5. /\ b \in Agent /\ b.list = a.list /\ b.pending = a.pending
          /\ \A l \in Links : b.conn[l] = IF l = k THEN conn ELSE a.conn[l]
          /\ \A d \in Channels : b.chan[d] = IF d = c THEN chan ELSE a.chan[d]
      BY <1>1, <2>2, <2>3, <2>4 DEF Agent
    <2> QED
      BY <2>2, <2>3, <2>5 DEF SameAgent
  <1> HIDE DEF b
  <1>3. \A l \in Links : None # l
    BY DEF None, Links
  <1>4. \A l \in Links : Listed(b, l) <=> Listed(a, l)
    BY <1>2 DEF Listed, SameAgent
  <1>5. c \notin a.conn[k].table
    BY <1>3 DEF Sound, ChannelSound, Holds
  <1>6. Cardinality(b.conn[k].table) = Cardinality(a.conn[k].table) + 1
    BY <1>1, <1>2, <1>5, TableIsFinite, FS_AddElement
  <1>7. ASSUME NEW l \in Links  PROVE ConnectionSound(b, l)
    <2>1. ConnectionSound(a, l) /\ \A d \in Channels : ChannelSound(a, d, l)
      BY DEF Sound
    <2>2. b.conn[l].access = Cardinality(b.conn[l].table)
      BY <1>2, <1>6, <2>1 DEF ConnectionSound
    <2>3. b.conn[l].state = "alive" => \/ Listed(b, l) \/ b.conn[l].table # {}
                                       \/ \E d \in Channels : Holds(b, d, l) /\ b.chan[d].removed
      BY <1>2, <1>4, <2>1 DEF ConnectionSound, Holds, SameAgent
    <2> QED
      BY <1>2, <1>4, <2>1, <2>2, <2>3 DEF ConnectionSound, SameAgent
  <1>8. ASSUME NEW d \in Channels, NEW l \in Links  PROVE ChannelSound(b, d, l)
    <2>1. ChannelSound(a, d, l) /\ ChannelSound(a, d, k) /\ ChannelSound(a, c, l)
      BY DEF Sound
    <2> QED
      BY <1>2, <1>3, <1>4, <2>1 DEF ChannelSound, Holds, SameAgent
  <1>9. Once(b.list)
    BY <1>2 DEF Sound, SameAgent
  <1> QED
    BY <1>2, <1>7, <1>8, <1>9 DEF Sound, JoinedTable, b

LEMMA NewOnes ==
  /\ NewConnection \in Connection /\ NoConnection \in Connection /\ Destroyed \in Connection
  /\ NewConnection.table = {} /\ NewConnection.access = 0 /\ NewConnection.state = "alive"
  /\ NoConnection.table = {} /\ NoConnection.access = 0 /\ NoConnection.state = "none"
  /\ Destroyed.table = {} /\ Destroyed.access = 0 /\ Destroyed.state = "destroyed"
  /\ NewConnection.sock /\ ~NoConnection.sock /\ ~Destroyed.sock
  /\ ~NewConnection.termination /\ ~NoConnection.termination /\ ~Destroyed.termination
  /\ ~NewConnection.inactivity /\ ~NoConnection.inactivity /\ ~Destroyed.inactivity
PROOF
  <1>1. NewConnection \in Connection
    BY EmptySeq DEF NewConnection, Connection
  <1>2. NoConnection \in Connection
    BY <1>1 DEF NoConnection, Connection
  <1>3. Destroyed \in Connection
    BY <1>2 DEF Destroyed, Connection
  <1> QED
    BY <1>1, <1>2, <1>3 DEF NewConnection, NoConnection, Destroyed

(* A connection is made, or accepted.                                          *)
LEMMA Opened ==
  ASSUME NEW a, Sound(a), NEW b \in Agent, NEW k \in Links, a.conn[k].state # "alive",
         b.list = Append(a.list, k),
         b.conn[k].state = "alive", b.conn[k].table = {}, b.conn[k].access = 0,
         \A l \in Links : l # k => b.conn[l] = a.conn[l],
         b.chan = a.chan
  PROVE  Sound(b) /\ Listed(b, k)
PROOF
  <1>1. a \in Agent /\ Once(a.list) /\ ~Listed(a, k)
    BY DEF Sound, ConnectionSound
  <1>2. Once(b.list) /\ \A l \in Links : Listed(b, l) <=> Listed(a, l) \/ l = k
    BY <1>1, ListAppended
  <1>3. Cardinality({}) = 0
    BY FS_EmptySet
  <1>4. ASSUME NEW l \in Links  PROVE ConnectionSound(b, l)
    <2>1. ConnectionSound(a, l)
      BY DEF Sound
    <2>2. CASE l = k
      BY <1>2, <1>3, <2>2 DEF ConnectionSound
    <2>3. CASE l # k
      BY <1>2, <2>1, <2>3 DEF ConnectionSound, Holds
    <2> QED
      BY <2>2, <2>3
  <1>5. ASSUME NEW c \in Channels, NEW l \in Links  PROVE ChannelSound(b, c, l)
    <2>1. ChannelSound(a, c, l) /\ ConnectionSound(a, l)
      BY DEF Sound
    <2>2. CASE l = k
      BY <2>1, <2>2 DEF ChannelSound, ConnectionSound, Holds
    <2>3. CASE l # k
      BY <1>2, <2>1, <2>3 DEF ChannelSound, Holds
    <2> QED
      BY <2>2, <2>3
  <1> QED
    BY <1>2, <1>4, <1>5 DEF Sound

\* what removal from the table changes
LeftTable(a, b, k, c) ==
  \A l \in Links :
    /\ b.conn[l].table = IF l = k THEN a.conn[k].table \ {c} ELSE a.conn[l].table
    /\ b.conn[l].access = IF l = k THEN a.conn[k].access - 1 ELSE a.conn[l].access
    /\ b.conn[l].state = a.conn[l].state
    /\ b.conn[l].sock => a.conn[l].sock

(* A channel leaves a connection that others use, or that is still listed.     *)
LEMMA LeftToOthers ==
  ASSUME NEW a, Sound(a), NEW b \in Agent, NEW k \in Links, NEW c \in Channels,
         Holds(a, c, k), ~a.chan[c].removed,
         LeftTable(a, b, k, c), b.list = a.list,
         \A d \in Channels : /\ b.chan[d].connection = IF d = c THEN None ELSE a.chan[d].connection
                             /\ b.chan[d].removed = a.chan[d].removed,
         Listed(a, k) \/ a.conn[k].access - 1 > 0
  PROVE  Sound(b)
PROOF
  <1>1. a \in Agent /\ \A l \in Links : None # l
    BY DEF Sound, None, Links
  <1>2. \A l \in Links : Listed(b, l) <=> Listed(a, l)
    BY DEF Listed
  <1>3. c \in a.conn[k].table
    BY DEF Sound, ChannelSound
  <1>4. Cardinality(b.conn[k].table) = Cardinality(a.conn[k].table) - 1
    BY <1>1, <1>3, TableIsFinite, FS_RemoveElement DEF LeftTable
  <1>5. Listed(a, k) \/ b.conn[k].table # {}
    <2>1. IsFiniteSet(b.conn[k].table) /\ ConnectionSound(a, k)
      BY TableIsFinite DEF Sound
    <2>2. a.conn[k].access - 1 > 0 => Cardinality(b.conn[k].table) > 0
      BY <1>4, <2>1 DEF ConnectionSound
    <2> QED
      BY <2>1, <2>2, FS_EmptySet
  <1>6. ASSUME NEW l \in Links  PROVE ConnectionSound(b, l)
    <2>1. ConnectionSound(a, l) /\ ConnectionSound(a, k)
      BY DEF Sound
    <2>2. CASE l = k
      BY <1>2, <1>3, <1>4, <1>5, <2>1, <2>2 DEF ConnectionSound, LeftTable
    <2>3. CASE l # k
      <3>1. \A d \in Channels : Holds(a, d, l) => Holds(b, d, l)
        BY <2>3 DEF Holds
      <3> QED
        BY <1>2, <2>1, <2>3, <3>1 DEF ConnectionSound, LeftTable
    <2> QED
      BY <2>2, <2>3
  <1>7. ASSUME NEW d \in Channels, NEW l \in Links  PROVE ChannelSound(b, d, l)
    <2>1. ChannelSound(a, d, l) /\ ChannelSound(a, d, k) /\ ChannelSound(a, c, l)
      BY DEF Sound
    <2> QED
      BY <1>1, <1>2, <1>3, <2>1 DEF ChannelSound, Holds, LeftTable
  <1>8. Once(b.list)
    BY DEF Sound
  <1> QED
    BY <1>6, <1>7, <1>8 DEF Sound

(* The last channel leaves a connection, and keeps it to take it along.        *)
LEMMA LeftAlone ==
  ASSUME NEW a, Sound(a), NEW b \in Agent, NEW k \in Links, NEW c \in Channels,
         Holds(a, c, k), ~a.chan[c].removed,
         LeftTable(a, b, k, c), ~(a.conn[k].access - 1 > 0), ~b.conn[k].sock,
         Once(b.list), \A l \in Links : Listed(b, l) <=> Listed(a, l) /\ l # k,
         \A d \in Channels : /\ b.chan[d].connection = a.chan[d].connection
                             /\ b.chan[d].removed <=> d = c \/ a.chan[d].removed
  PROVE  Sound(b)
PROOF
  <1>1. a \in Agent /\ ConnectionSound(a, k)
    BY DEF Sound
  <1>2. c \in a.conn[k].table
    BY DEF Sound, ChannelSound
  <1>3. /\ IsFiniteSet(a.conn[k].table) /\ IsFiniteSet(b.conn[k].table)
        /\ Cardinality(b.conn[k].table) = Cardinality(a.conn[k].table) - 1
        /\ Cardinality(a.conn[k].table) \in Nat /\ Cardinality(b.conn[k].table) \in Nat
    BY <1>1, <1>2, TableIsFinite, FS_RemoveElement, FS_CardinalityType DEF LeftTable
  <1>4. b.conn[k].table = {} /\ Cardinality(b.conn[k].table) = a.conn[k].access - 1
    <2>1. Cardinality(b.conn[k].table) = 0
      BY <1>1, <1>3 DEF ConnectionSound
    <2> QED
      BY <1>1, <1>3, <2>1, FS_EmptySet DEF ConnectionSound
  <1>5. a.conn[k].table = {c}
    BY <1>2, <1>4 DEF LeftTable
  <1>6. ASSUME NEW l \in Links  PROVE ConnectionSound(b, l)
    <2>1. ConnectionSound(a, l)
      BY DEF Sound
    <2>2. CASE l = k
      BY <1>2, <1>4, <2>1, <2>2 DEF ConnectionSound, LeftTable, Holds
    <2>3. CASE l # k
      <3>1. \A d \in Channels : Holds(a, d, l) /\ a.chan[d].removed => Holds(b, d, l) /\ b.chan[d].removed
        BY DEF Holds
      <3> QED
        BY <2>1, <2>3, <3>1 DEF ConnectionSound, LeftTable
    <2> QED
      BY <2>2, <2>3
  <1>7. ASSUME NEW d \in Channels, NEW l \in Links  PROVE ChannelSound(b, d, l)
    <2>1. ChannelSound(a, d, l) /\ ChannelSound(a, d, k) /\ ChannelSound(a, c, l) /\ ConnectionSound(a, l)
      BY DEF Sound
    <2>2. CASE l = k
      <3>1. \A e \in Channels : Holds(b, e, k) => e = c
        BY <1>2, <1>5 DEF Sound, ChannelSound, Holds
      <3>2. b.chan[c].removed /\ b.conn[k].state = "alive" /\ ~Listed(b, k)
        BY <1>1, <1>2 DEF ConnectionSound, LeftTable
      <3> QED
        BY <1>4, <2>2, <3>1, <3>2 DEF ChannelSound
    <2>3. CASE l # k
      BY <1>1, <1>2, <2>1, <2>3 DEF ChannelSound, Holds, LeftTable
    <2> QED
      BY <2>2, <2>3
  <1> QED
    BY <1>6, <1>7 DEF Sound

(* A listed connection is closed: destroyed without channels, or left to them. *)
LEMMA ClosedSound ==
  ASSUME NEW a, Sound(a), NEW b \in Agent, NEW k \in Links, Listed(a, k),
         Once(b.list), \A l \in Links : Listed(b, l) <=> Listed(a, l) /\ l # k,
         ~b.conn[k].sock,
         b.conn[k].table = a.conn[k].table, b.conn[k].access = a.conn[k].access,
         b.conn[k].state = IF a.conn[k].access = 0 THEN "destroyed" ELSE a.conn[k].state,
         \A l \in Links : l # k => b.conn[l] = a.conn[l],
         b.chan = a.chan
  PROVE  Sound(b)
PROOF
  <1>1. /\ a \in Agent /\ ConnectionSound(a, k) /\ IsFiniteSet(a.conn[k].table)
        /\ a.conn[k].access = 0 <=> a.conn[k].table = {}
    BY TableIsFinite, FS_EmptySet DEF Sound, ConnectionSound
  <1>2. ASSUME NEW l \in Links  PROVE ConnectionSound(b, l)
    <2>1. ConnectionSound(a, l)
      BY DEF Sound
    <2>2. CASE l = k
      BY <1>1, <2>1, <2>2 DEF ConnectionSound
    <2>3. CASE l # k
      BY <2>1, <2>3 DEF ConnectionSound, Holds
    <2> QED
      BY <2>2, <2>3
  <1>3. ASSUME NEW d \in Channels, NEW l \in Links  PROVE ChannelSound(b, d, l)
    <2>1. ChannelSound(a, d, l)
      BY DEF Sound
    <2>2. CASE l = k
      BY <2>1, <2>2 DEF ChannelSound, Holds
    <2>3. CASE l # k
      BY <2>1, <2>3 DEF ChannelSound, Holds
    <2> QED
      BY <2>2, <2>3
  <1> QED
    BY <1>2, <1>3 DEF Sound

(* The session of a channel is destroyed.                                      *)
LEMMA ChannelDestroyed ==
  ASSUME NEW a, Sound(a), NEW c \in Channels
  PROVE  LET b == ChannelDestroy(a, c)
         IN  /\ Sound(b)
             /\ b.list = a.list /\ b.pending = a.pending
             /\ \A k \in Links : \/ b.conn[k] = a.conn[k]
                                 \/ /\ b.conn[k] = Destroyed
                                    /\ a.conn[k].state = "alive" /\ a.conn[k].table = {} /\ ~Listed(a, k)
             /\ \A d \in Channels : /\ d # c => b.chan[d] = a.chan[d]
                                    /\ b.chan[d].active = a.chan[d].active
                                    /\ b.chan[d].timer = a.chan[d].timer
                                    /\ b.chan[d].removed = a.chan[d].removed
             /\ \/ b.chan[c].connection = a.chan[c].connection
                \/ b.chan[c].connection = None /\ a.chan[c].removed
PROOF
  <1> DEFINE k == a.chan[c].connection
             b == ChannelDestroy(a, c)
  <1>1. a \in Agent /\ a.chan[c] \in Channel /\ k \in Links \cup {None} /\ \A l \in Links : None # l
    BY DEF Sound, Agent, Channel, None, Links
  <1>2. CASE ~(k # None /\ a.chan[c].removed)
    BY <1>2 DEF ChannelDestroy
  <1>3. CASE k # None /\ a.chan[c].removed
    <2> DEFINE chan == [a.chan[c] EXCEPT !.connection = None]
    <2>1. chan \in Channel /\ chan.connection = None /\ chan.removed = a.chan[c].removed
          /\ chan.active = a.chan[c].active /\ chan.timer = a.chan[c].timer
      BY <1>1 DEF Channel
    <2>2. b = [a EXCEPT !.conn[k] = Destroyed, !.chan[c] = chan]
      BY <1>1, <1>3 DEF ChannelDestroy, Agent
    <2>3. k \in Links
      BY <1>1, <1>3
    <2> HIDE DEF chan, b
    <2>4. /\ b \in Agent /\ b.list = a.list /\ b.pending = a.pending
          /\ b.conn = [a.conn EXCEPT ![k] = Destroyed] /\ b.chan = [a.chan EXCEPT ![c] = chan]
      BY <1>1, <2>1, <2>2, <2>3, NewOnes DEF Agent
    <2>5. /\ \A l \in Links : b.conn[l] = IF l = k THEN Destroyed ELSE a.conn[l]
          /\ \A d \in Channels : b.chan[d] = IF d = c THEN chan ELSE a.chan[d]
      BY <1>1, <2>3, <2>4 DEF Agent
    <2>6. /\ a.conn[k].state = "alive" /\ a.conn[k].table = {} /\ ~Listed(a, k)
          /\ \A d \in Channels : Holds(a, d, k) => d = c
      BY <1>3, <2>3 DEF Sound, ChannelSound, Holds
    <2>7. \A l \in Links : Listed(b, l) <=> Listed(a, l)
      BY <2>4 DEF Listed
    <2>8. ASSUME NEW l \in Links  PROVE ConnectionSound(b, l)
      <3>1. ConnectionSound(a, l)
        BY DEF Sound
      <3>2. CASE l = k
        BY <2>5, <2>6, <2>7, <3>2, NewOnes, FS_EmptySet DEF ConnectionSound
      <3>3. CASE l # k
        <4>1. \A d \in Channels : Holds(a, d, l) => d # c
          BY <3>3 DEF Holds
        <4>2. \A d \in Channels : Holds(a, d, l) => Holds(b, d, l) /\ b.chan[d] = a.chan[d]
          BY <2>5, <4>1 DEF Holds
        <4> QED
          BY <2>5, <2>7, <3>1, <3>3, <4>2 DEF ConnectionSound
      <3> QED
        BY <3>2, <3>3
    <2>9. ASSUME NEW d \in Channels, NEW l \in Links  PROVE ChannelSound(b, d, l)
      <3>1. ChannelSound(a, d, l) /\ ChannelSound(a, c, l)
        BY DEF Sound
      <3>2. CASE l = k
        BY <1>1, <2>1, <2>5, <2>6, <2>7, <3>1, <3>2, NewOnes DEF ChannelSound, Holds
      <3>3. CASE l # k
        BY <1>1, <2>1, <2>5, <2>7, <3>1, <3>3 DEF ChannelSound, Holds
      <3> QED
        BY <3>2, <3>3
    <2>10. Sound(b)
      BY <2>4, <2>8, <2>9 DEF Sound
    <2> QED
      BY <1>3, <2>1, <2>4, <2>5, <2>6, <2>10 DEF b
  <1> QED
    BY <1>2, <1>3

-------------------------------------------------------------------------------
(* TCP                                                                         *)

\* an end that is made is not unmade
TcpGoesOn ==
  \A k \in Links : /\ tcp[k].client # "none" => tcp'[k].client # "none"
                   /\ tcp[k].server \in {"open", "closed"} => tcp'[k].server \in {"open", "closed"}

TcpEnd == [client : {"none", "open", "closed"}, server : {"none", "backlog", "open", "closed"},
           up : Seq(Message), down : Seq(Message), broken : BOOLEAN]

LEMMA TcpStep ==
  ASSUME TcpType, NEW k \in Links, NEW new \in TcpEnd, tcp' = [tcp EXCEPT ![k] = new],
         tcp[k].client # "none" => new.client # "none",
         tcp[k].server \in {"open", "closed"} => new.server \in {"open", "closed"}
  PROVE  TcpType' /\ TcpGoesOn
PROOF
  <1>1. tcp \in [Links -> TcpEnd]
    BY DEF TcpType, TcpEnd
  <1>2. tcp' \in [Links -> TcpEnd]
    BY <1>1
  <1>3. TcpType'
    BY <1>2 DEF TcpType, TcpEnd
  <1> QED
    BY <1>1, <1>3 DEF TcpGoesOn

LEMMA TcpUnchanged ==
  ASSUME TcpType, UNCHANGED tcp
  PROVE  TcpType' /\ TcpGoesOn
  BY DEF TcpType, TcpGoesOn

LEMMA TcpClosed ==
  ASSUME TcpType, NEW k \in Links, NEW end \in {"client", "server"}, tcp' = Closed(tcp, k, end)
  PROVE  TcpType' /\ TcpGoesOn
PROOF
  <1> DEFINE new == IF end = "client" THEN [tcp[k] EXCEPT !.client = "closed"] ELSE [tcp[k] EXCEPT !.server = "closed"]
  <1>1. tcp[k] \in TcpEnd
    BY DEF TcpType, TcpEnd
  <1>2. new \in TcpEnd /\ tcp' = [tcp EXCEPT ![k] = new]
    BY <1>1 DEF TcpEnd, Closed
  <1>3. /\ tcp[k].client # "none" => new.client # "none"
        /\ tcp[k].server \in {"open", "closed"} => new.server \in {"open", "closed"}
    BY <1>1 DEF TcpEnd
  <1> HIDE DEF new
  <1> QED
    BY <1>2, <1>3, TcpStep

LEMMA TcpSent ==
  ASSUME TcpType, NEW k \in Links, NEW c \in Channels, NEW id \in 1..MaxRequests,
         \/ tcp' = [tcp EXCEPT ![k].up = Append(@, [channel |-> c, id |-> id])]
         \/ tcp' = [tcp EXCEPT ![k].down = Append(@, [channel |-> c, id |-> id])]
  PROVE  TcpType' /\ TcpGoesOn
PROOF
  <1> DEFINE m == [channel |-> c, id |-> id]
  <1>1. tcp[k] \in TcpEnd /\ m \in Message
    BY DEF TcpType, TcpEnd, Message
  <1> HIDE DEF m
  <1>4. Append(tcp[k].up, m) \in Seq(Message) /\ Append(tcp[k].down, m) \in Seq(Message)
    BY <1>1 DEF TcpEnd
  <1>2. CASE tcp' = [tcp EXCEPT ![k].up = Append(@, m)]
    <2> DEFINE new == [tcp[k] EXCEPT !.up = Append(@, m)]
    <2>1. new \in TcpEnd /\ new.client = tcp[k].client /\ new.server = tcp[k].server
          /\ tcp' = [tcp EXCEPT ![k] = new]
      BY <1>1, <1>2, <1>4 DEF TcpEnd
    <2> HIDE DEF new
    <2> QED
      BY <2>1, TcpStep
  <1>3. CASE tcp' = [tcp EXCEPT ![k].down = Append(@, m)]
    <2> DEFINE new == [tcp[k] EXCEPT !.down = Append(@, m)]
    <2>1. new \in TcpEnd /\ new.client = tcp[k].client /\ new.server = tcp[k].server
          /\ tcp' = [tcp EXCEPT ![k] = new]
      BY <1>1, <1>3, <1>4 DEF TcpEnd
    <2> HIDE DEF new
    <2> QED
      BY <2>1, TcpStep
  <1> QED
    BY <1>2, <1>3 DEF m

LEMMA TcpRead ==
  ASSUME TcpType, NEW k \in Links,
         \/ tcp[k].up # <<>> /\ tcp' = [tcp EXCEPT ![k].up = Tail(@)]
         \/ \E n \in 1..Len(tcp[k].down) : tcp' = [tcp EXCEPT ![k].down = SubSeq(@, n + 1, Len(@))]
  PROVE  TcpType' /\ TcpGoesOn
PROOF
  <1>1. tcp[k] \in TcpEnd
    BY DEF TcpType, TcpEnd
  <1>2. CASE tcp[k].up # <<>> /\ tcp' = [tcp EXCEPT ![k].up = Tail(@)]
    <2> DEFINE new == [tcp[k] EXCEPT !.up = Tail(@)]
    <2>1. Tail(tcp[k].up) \in Seq(Message)
      BY <1>1, <1>2 DEF TcpEnd
    <2>2. new \in TcpEnd /\ new.client = tcp[k].client /\ new.server = tcp[k].server
          /\ tcp' = [tcp EXCEPT ![k] = new]
      BY <1>1, <1>2, <2>1 DEF TcpEnd
    <2> HIDE DEF new
    <2> QED
      BY <2>2, TcpStep
  <1>3. ASSUME NEW n \in 1..Len(tcp[k].down), tcp' = [tcp EXCEPT ![k].down = SubSeq(@, n + 1, Len(@))]
        PROVE  TcpType' /\ TcpGoesOn
    <2> DEFINE new == [tcp[k] EXCEPT !.down = SubSeq(@, n + 1, Len(@))]
    <2>1. SubSeq(tcp[k].down, n + 1, Len(tcp[k].down)) \in Seq(Message)
      BY <1>1 DEF TcpEnd
    <2>2. new \in TcpEnd /\ new.client = tcp[k].client /\ new.server = tcp[k].server
          /\ tcp' = [tcp EXCEPT ![k] = new]
      BY <1>1, <1>3, <2>1 DEF TcpEnd
    <2> HIDE DEF new
    <2> QED
      BY <2>2, TcpStep
  <1> QED
    BY <1>2, <1>3

LEMMA TcpConnected ==
  ASSUME TcpType, NEW k \in Links, tcp[k] = NoTcp, tcp' = Connected(tcp, k)
  PROVE  TcpType' /\ TcpGoesOn /\ tcp'[k].client # "none"
PROOF
  <1> DEFINE new == [tcp[k] EXCEPT !.client = "open", !.server = "backlog"]
  <1>1. tcp[k] \in TcpEnd
    BY DEF TcpType, TcpEnd
  <1>2. new \in TcpEnd /\ new.client = "open" /\ new.server = "backlog"
    BY <1>1 DEF TcpEnd
  <1>5. tcp[k].server = "none"
    BY DEF NoTcp
  <1>3. tcp' = [tcp EXCEPT ![k] = new]
    BY DEF Connected, TcpType
  <1> HIDE DEF new
  <1>4. tcp'[k] = new
    BY <1>3 DEF TcpType
  <1> QED
    BY <1>2, <1>3, <1>4, <1>5, TcpStep

LEMMA TcpAccepted ==
  ASSUME TcpType, NEW k \in Links, tcp[k].server = "backlog", tcp' = [tcp EXCEPT ![k].server = "open"]
  PROVE  TcpType' /\ TcpGoesOn /\ tcp'[k].server = "open"
PROOF
  <1> DEFINE new == [tcp[k] EXCEPT !.server = "open"]
  <1>1. tcp[k] \in TcpEnd
    BY DEF TcpType, TcpEnd
  <1>2. new \in TcpEnd /\ new.client = tcp[k].client /\ new.server = "open" /\ tcp' = [tcp EXCEPT ![k] = new]
    BY <1>1 DEF TcpEnd
  <1> HIDE DEF new
  <1> QED
    BY <1>2, TcpStep DEF TcpType

LEMMA TcpBroken ==
  ASSUME TcpType, NEW k \in Links, Break(k)
  PROVE  TcpType' /\ TcpGoesOn
PROOF
  <1> DEFINE new == [tcp[k] EXCEPT !.broken = TRUE]
  <1>1. tcp[k] \in TcpEnd
    BY DEF TcpType, TcpEnd
  <1>2. new \in TcpEnd /\ new.client = tcp[k].client /\ new.server = tcp[k].server
        /\ tcp' = [tcp EXCEPT ![k] = new]
    BY <1>1 DEF TcpEnd, Break
  <1> HIDE DEF new
  <1> QED
    BY <1>2, TcpStep

-------------------------------------------------------------------------------
(* A channel leaves its connection                                             *)

LEMMA Removed ==
  ASSUME NEW a, Sound(a), NEW k \in Links, NEW c \in Channels, Holds(a, c, k), ~a.chan[c].removed
  PROVE  LET b == ChannelRemove(a, k, c)
         IN  /\ b \in Agent /\ SameAgent(a, b) /\ LeftTable(a, b, k, c)
             /\ \A d \in Channels : b.chan[d].connection = IF d = c THEN None ELSE a.chan[d].connection
PROOF
  <1> DEFINE b == ChannelRemove(a, k, c)
             conn == [a.conn[k] EXCEPT !.table = @ \ {c}, !.access = @ - 1]
             chan == [a.chan[c] EXCEPT !.connection = None]
  <1>1. a \in Agent /\ a.conn[k] \in Connection /\ a.chan[c] \in Channel
    BY DEF Sound, Agent
  <1>2. a.conn[k].access - 1 \in Nat
    <2>1. c \in a.conn[k].table /\ a.conn[k].access = Cardinality(a.conn[k].table)
      BY DEF Sound, ChannelSound, ConnectionSound
    <2>2. IsFiniteSet(a.conn[k].table \ {c}) /\ Cardinality(a.conn[k].table \ {c}) = a.conn[k].access - 1
      <3>1. IsFiniteSet(a.conn[k].table)
        BY <1>1, TableIsFinite
      <3> QED
        BY <2>1, <3>1, FS_RemoveElement
    <2> QED
      BY <2>2, FS_CardinalityType
  <1>3. /\ conn \in Connection /\ conn.table = a.conn[k].table \ {c} /\ conn.access = a.conn[k].access - 1
        /\ conn.state = a.conn[k].state /\ conn.sock = a.conn[k].sock
        /\ conn.inactivity = a.conn[k].inactivity /\ conn.termination = a.conn[k].termination
    BY <1>1, <1>2 DEF Connection
  <1>4. /\ chan \in Channel /\ chan.connection = None /\ chan.removed = a.chan[c].removed
        /\ chan.active = a.chan[c].active /\ chan.timer = a.chan[c].timer
    BY <1>1 DEF Channel
  <1>5. b = [a EXCEPT !.conn[k] = conn, !.chan[c] = chan]
    BY <1>1 DEF ChannelRemove, Agent
  <1> HIDE DEF conn, chan, b
  <1>6. /\ b \in Agent /\ b.list = a.list /\ b.pending = a.pending
        /\ \A l \in Links : b.conn[l] = IF l = k THEN conn ELSE a.conn[l]
        /\ \A d \in Channels : b.chan[d] = IF d = c THEN chan ELSE a.chan[d]
    BY <1>1, <1>3, <1>4, <1>5 DEF Agent
  <1> QED
    BY <1>3, <1>4, <1>6 DEF SameAgent, LeftTable, b

-------------------------------------------------------------------------------
(* The client                                                                  *)

\* a connection is new only once, and stays in the list with its channels
ClientLink(k) ==
  /\ client.conn[k].state # "none" => tcp[k].client # "none"
  /\ client.conn[k].table # {} => Listed(client, k)

\* a session has no connection before the answer; it waits for its active request
ClientUse(c) ==
  /\ using[c] \in {"idle", "offering"} => Holds(client, c, None)
  /\ using[c] \notin {"removed", "destroyed"} => ~client.chan[c].removed
  /\ waiting[c] = IF client.chan[c].active = None THEN 0 ELSE 1
  /\ client.chan[c].timer => client.chan[c].active # None /\ using[c] = "ready"

ClientInv ==
  /\ Sound(client)
  /\ waiting \in [Channels -> Int] /\ using \in [Channels -> Phases]
  /\ \A k \in Links : ClientLink(k)
  /\ \A c \in Channels : ClientUse(c)

LEMMA ClientFrame ==
  ASSUME ClientInv, UNCHANGED <<client, waiting, using>>, TcpGoesOn
  PROVE  ClientInv'
  BY DEF ClientInv, ClientLink, ClientUse, TcpGoesOn, Holds, Listed, Sound, Once, ConnectionSound, ChannelSound

(* The channel leaves, or takes the connection.                                *)
LEMMA ClientLeaves ==
  ASSUME ClientInv, TcpType, NEW c \in Channels, ~client.chan[c].removed, ClientChannelRemove(c)
  PROVE  /\ Sound(client') /\ TcpType' /\ TcpGoesOn
         /\ \A l \in Links : /\ client'.conn[l].state = client.conn[l].state
                             /\ client'.conn[l].table # {} => Listed(client', l)
         /\ \A d \in Channels : /\ client'.chan[d].active = client.chan[d].active
                                /\ client'.chan[d].timer = client.chan[d].timer
                                /\ d # c => /\ client'.chan[d].connection = client.chan[d].connection
                                            /\ client'.chan[d].removed = client.chan[d].removed
PROOF
  <1> DEFINE k == client.chan[c].connection
             left == ChannelRemove(client, k, c)
  <1>1. /\ Sound(client) /\ client \in Agent /\ client.chan[c] \in Channel /\ k \in Links \cup {None}
        /\ \A l \in Links : ClientLink(l)
    BY DEF ClientInv, Sound, Agent, Channel
  <1>2. CASE k = None
    BY <1>1, <1>2, TcpUnchanged DEF ClientChannelRemove, ClientLink
  <1>3. CASE k # None
    <2>1. k \in Links /\ Holds(client, c, k)
      BY <1>1, <1>3 DEF Holds
    <2>2. /\ left \in Agent /\ SameAgent(client, left) /\ LeftTable(client, left, k, c)
          /\ \A d \in Channels : left.chan[d].connection = IF d = c THEN None ELSE client.chan[d].connection
      BY <1>1, <2>1, Removed
    <2>3. c \in client.conn[k].table /\ Listed(client, k)
      BY <1>1, <2>1 DEF Sound, ChannelSound, ClientLink
    <2> HIDE DEF left
    <2>4. left.conn[k].access = client.conn[k].access - 1
      BY <2>1, <2>2 DEF LeftTable
    <2>5. CASE left.conn[k].access > 0
      <3>1. client' = left /\ UNCHANGED tcp
        BY <1>3, <2>5 DEF ClientChannelRemove, left
      <3>2. Sound(left)
        BY <1>1, <2>1, <2>2, <2>3, LeftToOthers DEF SameAgent
      <3>3. \A l \in Links : left.conn[l].table # {} => Listed(left, l)
        BY <1>1, <2>1, <2>2, <2>3 DEF SameAgent, LeftTable, Listed, ClientLink
      <3> QED
        BY <2>2, <3>1, <3>2, <3>3, TcpUnchanged DEF SameAgent
    <2>6. CASE ~(left.conn[k].access > 0)
      <3> DEFINE conn == [left.conn[k] EXCEPT !.sock = FALSE]
                 chan == [left.chan[c] EXCEPT !.connection = k, !.removed = TRUE]
                 list == Without(client.list, k)
      <3>1. left.conn[k] \in Connection /\ left.chan[c] \in Channel /\ left.list = client.list
        BY <2>1, <2>2 DEF Agent, SameAgent
      <3>2. /\ conn \in Connection /\ ~conn.sock /\ conn.table = left.conn[k].table
            /\ conn.access = left.conn[k].access /\ conn.state = left.conn[k].state
        BY <3>1 DEF Connection
      <3>3. /\ chan \in Channel /\ chan.connection = k /\ chan.removed
            /\ chan.active = left.chan[c].active /\ chan.timer = left.chan[c].timer
        BY <2>1, <3>1 DEF Channel
      <3>4. /\ list \in Seq(Links) /\ Once(list)
            /\ \A l \in Links : (\E i \in DOMAIN list : list[i] = l) <=> Listed(client, l) /\ l # k
        BY <1>1, <2>1, <2>3, ListWithout DEF Sound
      <3>5. /\ client' = ConnectionRemove([left EXCEPT !.chan[c].connection = k, !.chan[c].removed = TRUE], k)
            /\ tcp' = Closed(tcp, k, "client")
        BY <1>3, <2>6 DEF ClientChannelRemove, left
      <3>6. client' = [left EXCEPT !.chan[c] = chan, !.list = list, !.conn[k] = conn]
        BY <2>1, <2>2, <3>1, <3>5 DEF ConnectionRemove, Agent
      <3> HIDE DEF conn, chan, list
      <3>7. /\ client' \in Agent /\ client'.list = list
            /\ \A l \in Links : client'.conn[l] = IF l = k THEN conn ELSE left.conn[l]
            /\ \A d \in Channels : client'.chan[d] = IF d = c THEN chan ELSE left.chan[d]
        BY <2>1, <2>2, <3>2, <3>3, <3>4, <3>6 DEF Agent
      <3>8. Once(client'.list) /\ \A l \in Links : Listed(client', l) <=> Listed(client, l) /\ l # k
        BY <3>4, <3>7 DEF Listed
      <3>9. LeftTable(client, client', k, c)
        <4> SUFFICES ASSUME NEW l \in Links
                     PROVE  /\ client'.conn[l].table = IF l = k THEN client.conn[k].table \ {c}
                                                               ELSE client.conn[l].table
                            /\ client'.conn[l].access = IF l = k THEN client.conn[k].access - 1
                                                                ELSE client.conn[l].access
                            /\ client'.conn[l].state = client.conn[l].state
                            /\ client'.conn[l].sock => client.conn[l].sock
          BY DEF LeftTable
        <4>1. CASE l = k
          BY <2>1, <2>2, <3>2, <3>7, <4>1 DEF LeftTable
        <4>2. CASE l # k
          BY <2>1, <2>2, <3>7, <4>2 DEF LeftTable
        <4> QED
          BY <4>1, <4>2
      <3>10. \A d \in Channels : /\ client'.chan[d].connection = client.chan[d].connection
                                 /\ client'.chan[d].removed <=> d = c \/ client.chan[d].removed
        BY <2>2, <3>3, <3>7 DEF SameAgent
      <3>11. Sound(client')
        <4>1. ~(client.conn[k].access - 1 > 0) /\ ~client'.conn[k].sock
          BY <2>1, <2>4, <2>6, <3>2, <3>7
        <4>2. client' \in Agent /\ ~client.chan[c].removed
          BY <2>1, <3>7 DEF Holds
        <4> QED
          BY <1>1, <2>1, <3>8, <3>9, <3>10, <4>1, <4>2, LeftAlone, Zenon
      <3>12. client'.conn[k].table = {}
        BY <2>1, <3>3, <3>7, <3>11 DEF Sound, ChannelSound, Holds
      <3>13. \A l \in Links : /\ client'.conn[l].state = client.conn[l].state
                              /\ client'.conn[l].table # {} => Listed(client', l)
        BY <1>1, <3>8, <3>9, <3>12 DEF LeftTable, ClientLink
      <3>14. \A d \in Channels : /\ client'.chan[d].active = client.chan[d].active
                                 /\ client'.chan[d].timer = client.chan[d].timer
                                 /\ d # c => client'.chan[d].removed = client.chan[d].removed
        BY <2>2, <3>3, <3>7 DEF SameAgent
      <3> QED
        BY <2>1, <3>5, <3>10, <3>11, <3>13, <3>14, TcpClosed
    <2> QED
      BY <2>5, <2>6
  <1> QED
    BY <1>2, <1>3

(* The channel gets the connection that is there, a new one, or none.          *)
LEMMA ClientJoins ==
  ASSUME ClientInv, TcpType, NEW c \in Channels, Holds(client, c, None), ~client.chan[c].removed,
         NEW type, NEW status, ClientChannelModify(c, type, status)
  PROVE  /\ Sound(client') /\ TcpType' /\ TcpGoesOn
         /\ \A l \in Links : ClientLink(l)'
         /\ \A d \in Channels : /\ client'.chan[d].active = client.chan[d].active
                                /\ client'.chan[d].timer = client.chan[d].timer
                                /\ client'.chan[d].removed = client.chan[d].removed
                                /\ d # c => client'.chan[d].connection = client.chan[d].connection
PROOF
  <1>1. Sound(client) /\ client \in Agent /\ client.list \in Seq(Links) /\ \A l \in Links : ClientLink(l)
    BY DEF ClientInv, Sound, Agent
  <1>2. CASE UNCHANGED <<client, tcp>>
    BY <1>1, <1>2, TcpUnchanged DEF ClientLink, Listed
  <1>3. CASE ConnectionFind # None /\ ConnectionExisting(c)
    <2>1. PICK k \in Links : k = ConnectionFind /\ Listed(client, k)
      BY <1>1, <1>3 DEF ConnectionFind, Listed
    <2> DEFINE joined == ChannelAdd(client, k, c)
    <2>2. client' = joined /\ UNCHANGED tcp
      BY <1>3, <2>1 DEF ConnectionExisting
    <2>3. Sound(client') /\ JoinedTable(client, client', k, c)
      <3>1. Sound(joined) /\ JoinedTable(client, joined, k, c)
        <4>1. Sound(client) /\ Listed(client, k) /\ Holds(client, c, None) /\ ~client.chan[c].removed
          BY <1>1, <2>1
        <4> QED
          BY <4>1, Added
      <3> HIDE DEF joined
      <3> QED
        BY <2>2, <3>1
    <2> HIDE DEF joined
    <2>4. ASSUME NEW l \in Links  PROVE ClientLink(l)'
      <3>1. Listed(client', l) <=> Listed(client, l)
        BY <2>3 DEF SameAgent, JoinedTable, Listed
      <3>2. client'.conn[l].state = client.conn[l].state /\ (client'.conn[l].table # {} => Listed(client', l))
        BY <1>1, <2>1, <2>3, <3>1 DEF SameAgent, JoinedTable, ClientLink
      <3> QED
        BY <1>1, <2>2, <3>2 DEF ClientLink, Listed
    <2> QED
      BY <2>2, <2>3, <2>4, TcpUnchanged DEF SameAgent, JoinedTable
  <1>4. CASE ConnectionCreate(c)
    <2>1. PICK k \in Links :
            /\ tcp[k] = NoTcp /\ tcp' = Connected(tcp, k)
            /\ client' = ChannelAdd([client EXCEPT !.conn[k] = NewConnection, !.list = Append(@, k)], k, c)
      BY <1>4 DEF ConnectionCreate
    <2>12. PICK opened : opened = [client EXCEPT !.conn[k] = NewConnection, !.list = Append(@, k)]
      OBVIOUS
    <2>2. tcp[k].client = "none"
      BY <2>1 DEF NoTcp
    <2>3. client.conn[k].state = "none" /\ ~Listed(client, k)
      BY <1>1, <2>2 DEF ClientLink, Sound, ConnectionSound
    <2>4. Append(client.list, k) \in Seq(Links)
      BY <1>1
    <2>5. /\ opened \in Agent /\ opened.list = Append(client.list, k) /\ opened.chan = client.chan
          /\ opened.conn[k] = NewConnection
          /\ \A l \in Links : l # k => opened.conn[l] = client.conn[l]
      BY <1>1, <2>4, <2>12, NewOnes DEF Agent
    <2> DEFINE joined == ChannelAdd(opened, k, c)
    <2>6. client' = joined
      BY <2>1, <2>12
    <2>7. Sound(opened) /\ Listed(opened, k)
      BY <1>1, <2>3, <2>5, NewOnes, Opened
    <2>8. Sound(client') /\ JoinedTable(opened, client', k, c)
      <3>1. Holds(opened, c, None) /\ ~opened.chan[c].removed
        BY <2>5 DEF Holds
      <3>2. Sound(joined) /\ JoinedTable(opened, joined, k, c)
        <4>1. Sound(opened) /\ Listed(opened, k) /\ Holds(opened, c, None) /\ ~opened.chan[c].removed
          BY <2>7, <3>1
        <4> QED
          BY <4>1, Added
      <3> HIDE DEF joined
      <3> QED
        BY <2>6, <3>2
    <2> HIDE DEF joined
    <2>9. TcpType' /\ TcpGoesOn /\ tcp'[k].client # "none"
      BY <2>1, TcpConnected
    <2>10. \A l \in Links : Listed(client', l) <=> Listed(client, l) \/ l = k
      <3>1. \A l \in Links : Listed(opened, l) <=> Listed(client, l) \/ l = k
        BY <1>1, <2>3, <2>5, ListAppended DEF Sound
      <3> QED
        BY <2>8, <3>1 DEF SameAgent, JoinedTable, Listed
    <2>11. ASSUME NEW l \in Links  PROVE ClientLink(l)'
      <3>1. CASE l = k
        BY <2>9, <2>10, <3>1 DEF ClientLink, Listed
      <3>2. CASE l # k
        <4>1. client'.conn[l].state = client.conn[l].state /\ client'.conn[l].table = client.conn[l].table
          BY <2>5, <2>8, <3>2 DEF SameAgent, JoinedTable
        <4> QED
          BY <1>1, <2>9, <2>10, <4>1 DEF ClientLink, TcpGoesOn, Listed
      <3> QED
        BY <3>1, <3>2
    <2> QED
      BY <2>5, <2>8, <2>9, <2>11 DEF SameAgent, JoinedTable
  <1> QED
    BY <1>2, <1>3, <1>4 DEF ClientChannelModify

\* nothing that ClientInv says of connections has changed
Quiet(a, b) ==
  /\ b.list = a.list
  /\ \A k \in Links : /\ b.conn[k].state = a.conn[k].state /\ b.conn[k].table = a.conn[k].table
                      /\ b.conn[k].access = a.conn[k].access
                      /\ b.conn[k].sock => a.conn[k].sock
  /\ \A c \in Channels : /\ b.chan[c].connection = a.chan[c].connection
                         /\ b.chan[c].removed = a.chan[c].removed

LEMMA ClientQuiet ==
  ASSUME ClientInv, TcpGoesOn, client' \in Agent, Quiet(client, client')
  PROVE  Sound(client') /\ \A l \in Links : ClientLink(l)'
PROOF
  <1>1. Sound(client)
    BY DEF ClientInv
  <1>2. Sound(client')
    BY <1>1, Unchanged DEF Quiet
  <1>3. ASSUME NEW l \in Links  PROVE ClientLink(l)'
    <2>1. Listed(client', l) <=> Listed(client, l)
      BY DEF Quiet, Listed
    <2>2. client'.conn[l].state # "none" => tcp'[l].client # "none"
      BY DEF Quiet, ClientInv, ClientLink, TcpGoesOn
    <2>3. client'.conn[l].table # {} => Listed(client', l)
      BY <2>1 DEF Quiet, ClientInv, ClientLink
    <2> QED
      BY <2>2, <2>3 DEF ClientLink, Listed
  <1> QED
    BY <1>2, <1>3

LEMMA AnsweredChannel ==
  ASSUME NEW chan \in Channel
  PROVE  /\ Answered(chan) \in Channel
         /\ Answered(chan).active = None /\ ~Answered(chan).timer
         /\ Answered(chan).connection = chan.connection /\ Answered(chan).removed = chan.removed
PROOF
  <1>1. None \in 0..MaxRequests
    BY ConnectionAssumption DEF None
  <1> QED
    BY <1>1 DEF Answered, Channel

\* the two agents are typed and the client's is as it should be
ClientGoesOn == TcpType' /\ TcpGoesOn /\ ClientInv'

LEMMA OfferClient ==
  ASSUME ClientInv, TcpType, NEW c \in Channels, Offer(c)
  PROVE  ClientGoesOn
PROOF
  <1>1. using' = [using EXCEPT ![c] = "offering"] /\ using[c] = "idle" /\ UNCHANGED <<client, tcp, waiting>>
    BY DEF Offer
  <1>2. TcpType' /\ TcpGoesOn
    BY <1>1, TcpUnchanged
  <1>3. using' \in [Channels -> Phases]
    BY <1>1 DEF ClientInv, Phases
  <1>4. \A d \in Channels : ClientUse(d)'
    BY <1>1 DEF ClientInv, ClientUse, Holds
  <1>5. Sound(client') /\ (\A l \in Links : ClientLink(l)') /\ waiting' \in [Channels -> Int]
    BY <1>1 DEF ClientInv, ClientLink, Listed
  <1> QED
    BY <1>2, <1>3, <1>4, <1>5 DEF ClientGoesOn, ClientInv

LEMMA OnAnswerClient ==
  ASSUME ClientInv, TcpType, NEW c \in Channels, OnAnswer(c)
  PROVE  ClientGoesOn
PROOF
  <1>1. PICK status \in BOOLEAN : /\ ClientChannelModify(c, sdp[c], status)
                                  /\ using' = [using EXCEPT ![c] = IF status THEN "ready" ELSE "failed"]
    BY DEF OnAnswer
  <1>2. using[c] = "offering" /\ UNCHANGED waiting
    BY DEF OnAnswer
  <1>3. ClientUse(c) /\ Holds(client, c, None) /\ ~client.chan[c].removed
    BY <1>2 DEF ClientInv, ClientUse
  <1>4. /\ Sound(client') /\ TcpType' /\ TcpGoesOn
        /\ \A l \in Links : ClientLink(l)'
        /\ \A d \in Channels : /\ client'.chan[d].active = client.chan[d].active
                               /\ client'.chan[d].timer = client.chan[d].timer
                               /\ client'.chan[d].removed = client.chan[d].removed
                               /\ d # c => client'.chan[d].connection = client.chan[d].connection
    BY <1>1, <1>3, ClientJoins
  <1>5. using' \in [Channels -> Phases] /\ waiting' \in [Channels -> Int]
    BY <1>1, <1>2 DEF ClientInv, Phases
  <1>6. ASSUME NEW d \in Channels  PROVE ClientUse(d)'
    <2>1. ClientUse(d)
      BY DEF ClientInv
    <2>2. CASE d = c
      BY <1>1, <1>2, <1>4, <2>1, <2>2 DEF ClientUse, ClientInv
    <2>3. CASE d # c
      BY <1>1, <1>2, <1>4, <2>1, <2>3 DEF ClientUse, Holds, ClientInv
    <2> QED
      BY <2>2, <2>3
  <1> QED
    BY <1>4, <1>5, <1>6 DEF ClientGoesOn, ClientInv

LEMMA SendClient ==
  ASSUME ClientInv, TcpType, sent \in 0..MaxRequests, NEW c \in Channels, Send(c)
  PROVE  ClientGoesOn
PROOF
  <1> DEFINE id == sent + 1
             k == client.chan[c].connection
  <1>1. /\ using[c] = "ready" /\ waiting[c] = 0 /\ sent < MaxRequests
        /\ MessageSend(c, id) /\ UNCHANGED using
    BY DEF Send
  <1>2. id \in 1..MaxRequests /\ id # None /\ id \in 0..MaxRequests
    BY <1>1, ConnectionAssumption DEF None
  <1>3. /\ client \in Agent /\ client.chan[c] \in Channel /\ k \in Links \cup {None}
        /\ waiting \in [Channels -> Int] /\ using \in [Channels -> Phases] /\ Sound(client)
    BY DEF ClientInv, Sound, Agent, Channel
  <1>4. CASE UNCHANGED <<client, tcp, waiting>>
    <2>1. TcpType' /\ TcpGoesOn
      BY <1>4, TcpUnchanged
    <2>2. UNCHANGED <<client, waiting, using>>
      BY <1>1, <1>4
    <2> QED
      BY <2>1, <2>2, ClientFrame DEF ClientGoesOn
  <1>5. CASE /\ k # None /\ client.conn[k].sock
             /\ tcp' = [tcp EXCEPT ![k].up = Append(@, [channel |-> c, id |-> id])]
             /\ client' = [client EXCEPT !.chan[c].active = id, !.chan[c].timer = RequestTimeout]
             /\ waiting' = [waiting EXCEPT ![c] = @ + 1]
    <2>1. TcpType' /\ TcpGoesOn
      BY <1>2, <1>3, <1>5, TcpSent
    <2> DEFINE chan == [client.chan[c] EXCEPT !.active = id, !.timer = RequestTimeout]
    <2>2. /\ chan \in Channel /\ chan.active = id
          /\ chan.connection = k /\ chan.removed = client.chan[c].removed
      BY <1>2, <1>3, TransportAssumption DEF Channel
    <2>3. client' = [client EXCEPT !.chan[c] = chan]
      BY <1>3, <1>5 DEF Agent
    <2> HIDE DEF chan, id
    <2>4. /\ client' \in Agent /\ client'.list = client.list /\ client'.conn = client.conn
          /\ \A d \in Channels : client'.chan[d] = IF d = c THEN chan ELSE client.chan[d]
      BY <1>3, <2>2, <2>3 DEF Agent
    <2>5. Quiet(client, client')
      BY <2>2, <2>4 DEF Quiet
    <2>6. Sound(client') /\ \A l \in Links : ClientLink(l)'
      BY <2>1, <2>4, <2>5, ClientQuiet
    <2>7. waiting' \in [Channels -> Int] /\ using' \in [Channels -> Phases]
      BY <1>1, <1>3, <1>5
    <2>8. ASSUME NEW d \in Channels  PROVE ClientUse(d)'
      <3>1. ClientUse(d)
        BY DEF ClientInv
      <3>2. CASE d = c
        <4>1. using'[c] = "ready" /\ waiting'[c] = 1 /\ client'.chan[c] = chan
          <5>1. waiting' = [waiting EXCEPT ![c] = @ + 1] /\ waiting \in [Channels -> Int] /\ waiting[c] = 0
            BY <1>1, <1>3, <1>5
          <5>2. waiting'[c] = 1
            BY <5>1
          <5> QED
            BY <1>1, <2>4, <5>2
        <4>2. ~client.chan[c].removed
          BY <1>1, <3>1, <3>2 DEF ClientUse
        <4> QED
          BY <1>2, <2>2, <3>2, <4>1, <4>2 DEF ClientUse
      <3>3. CASE d # c
        BY <1>1, <1>3, <1>5, <2>4, <3>1, <3>3 DEF ClientUse, Holds
      <3> QED
        BY <3>2, <3>3
    <2> QED
      BY <2>1, <2>6, <2>7, <2>8 DEF ClientGoesOn, ClientInv
  <1> QED
    BY <1>1, <1>4, <1>5 DEF MessageSend

LEMMA TerminateClient ==
  ASSUME ClientInv, TcpType, NEW c \in Channels, Terminate(c)
  PROVE  ClientGoesOn
PROOF
  <1>1. /\ using[c] \in {"ready", "failed"} /\ waiting[c] = 0 /\ ClientChannelRemove(c)
        /\ using' = [using EXCEPT ![c] = "removed"] /\ UNCHANGED waiting
    BY DEF Terminate
  <1>2. ClientUse(c) /\ ~client.chan[c].removed
    BY <1>1 DEF ClientInv, ClientUse
  <1>3. /\ Sound(client') /\ TcpType' /\ TcpGoesOn
        /\ \A l \in Links : /\ client'.conn[l].state = client.conn[l].state
                            /\ client'.conn[l].table # {} => Listed(client', l)
        /\ \A d \in Channels : /\ client'.chan[d].active = client.chan[d].active
                               /\ client'.chan[d].timer = client.chan[d].timer
                               /\ d # c => /\ client'.chan[d].connection = client.chan[d].connection
                                           /\ client'.chan[d].removed = client.chan[d].removed
    BY <1>1, <1>2, ClientLeaves
  <1>4. ASSUME NEW l \in Links  PROVE ClientLink(l)'
    <2>1. ClientLink(l)
      BY DEF ClientInv
    <2> QED
      BY <1>3, <2>1 DEF ClientLink, TcpGoesOn, Listed
  <1>5. using' \in [Channels -> Phases] /\ waiting' \in [Channels -> Int]
    BY <1>1 DEF ClientInv, Phases
  <1>6. ASSUME NEW d \in Channels  PROVE ClientUse(d)'
    <2>1. ClientUse(d)
      BY DEF ClientInv
    <2>2. CASE d = c
      BY <1>1, <1>2, <1>3, <2>2 DEF ClientUse, ClientInv
    <2>3. CASE d # c
      BY <1>1, <1>3, <2>1, <2>3 DEF ClientUse, Holds, ClientInv
    <2> QED
      BY <2>2, <2>3
  <1> QED
    BY <1>3, <1>4, <1>5, <1>6 DEF ClientGoesOn, ClientInv

LEMMA DestroyUsingClient ==
  ASSUME ClientInv, TcpType, NEW c \in Channels, DestroyUsing(c)
  PROVE  ClientGoesOn
PROOF
  <1> DEFINE b == ChannelDestroy(client, c)
  <1>1. /\ using[c] = "removed" /\ client' = b /\ using' = [using EXCEPT ![c] = "destroyed"]
        /\ UNCHANGED <<tcp, waiting>>
    BY DEF DestroyUsing
  <1>2. Sound(client) /\ (\A l \in Links : ClientLink(l)) /\ \A d \in Channels : ClientUse(d)
    BY DEF ClientInv
  <1>3. /\ Sound(b) /\ b.list = client.list
        /\ \A k \in Links : \/ b.conn[k] = client.conn[k]
                            \/ /\ b.conn[k] = Destroyed
                               /\ client.conn[k].state = "alive" /\ client.conn[k].table = {}
                               /\ ~Listed(client, k)
        /\ \A d \in Channels : /\ d # c => b.chan[d] = client.chan[d]
                               /\ b.chan[d].active = client.chan[d].active
                               /\ b.chan[d].timer = client.chan[d].timer
                               /\ b.chan[d].removed = client.chan[d].removed
    BY <1>2, ChannelDestroyed
  <1> HIDE DEF b
  <1>4. TcpType' /\ TcpGoesOn
    BY <1>1, TcpUnchanged
  <1>5. ASSUME NEW l \in Links  PROVE ClientLink(l)'
    <2>1. ClientLink(l)
      BY <1>2
    <2>2. client'.conn[l].state # "none" => client.conn[l].state # "none"
      BY <1>1, <1>3, NewOnes
    <2>3. client'.conn[l].table # {} => Listed(client', l)
      BY <1>1, <1>3, <2>1, NewOnes DEF ClientLink, Listed
    <2> QED
      BY <1>1, <2>1, <2>2, <2>3 DEF ClientLink, Listed
  <1>6. ASSUME NEW d \in Channels  PROVE ClientUse(d)'
    <2>1. ClientUse(d) /\ using \in [Channels -> Phases]
      BY <1>2 DEF ClientInv
    <2>2. CASE d = c
      <3>1. using'[c] = "destroyed" /\ ~client.chan[c].timer
        BY <1>1, <1>2, <2>1 DEF ClientUse
      <3> QED
        BY <1>1, <1>3, <2>1, <2>2, <3>1 DEF ClientUse
    <2>3. CASE d # c
      BY <1>1, <1>3, <2>1, <2>3 DEF ClientUse, Holds
    <2> QED
      BY <2>2, <2>3
  <1>7. using' \in [Channels -> Phases] /\ waiting' \in [Channels -> Int]
    BY <1>1 DEF ClientInv, Phases
  <1> QED
    BY <1>1, <1>3, <1>4, <1>5, <1>6, <1>7 DEF ClientGoesOn, ClientInv

UsesGoOn ==
  /\ waiting' \in [Channels -> Int] /\ using' \in [Channels -> Phases]
  /\ \A c \in Channels : ClientUse(c)'
  /\ \A c \in Channels : /\ client'.chan[c] \in Channel
                         /\ client'.chan[c].connection = client.chan[c].connection
                         /\ client'.chan[c].removed = client.chan[c].removed

\* what the requests that are answered change
EndsRequests(answered) ==
  /\ \A c \in answered : client.chan[c].active # None
  /\ \A c \in Channels : client'.chan[c] = IF c \in answered THEN Answered(client.chan[c]) ELSE client.chan[c]
  /\ waiting' \in [Channels -> Int]
  /\ \A c \in Channels : waiting'[c] = waiting[c] - IF c \in answered THEN 1 ELSE 0

\* active requests that end are answered: the session waits no longer
LEMMA AnsweredUses ==
  ASSUME ClientInv, NEW answered \in SUBSET Channels, EndsRequests(answered), UNCHANGED using
  PROVE  UsesGoOn
PROOF
  <1>1. /\ client \in Agent /\ waiting \in [Channels -> Int] /\ using \in [Channels -> Phases]
        /\ \A c \in Channels : client.chan[c] \in Channel /\ ClientUse(c)
    BY DEF ClientInv, Sound, Agent
  <1>2. waiting' \in [Channels -> Int] /\ using' \in [Channels -> Phases]
    BY <1>1 DEF EndsRequests
  <1>3. ASSUME NEW c \in Channels
        PROVE  /\ client'.chan[c] \in Channel
               /\ client'.chan[c].connection = client.chan[c].connection
               /\ client'.chan[c].removed = client.chan[c].removed
    BY <1>1, AnsweredChannel DEF EndsRequests
  <1>4. ASSUME NEW c \in Channels  PROVE ClientUse(c)'
    <2>1. client.chan[c] \in Channel /\ ClientUse(c) /\ waiting[c] \in Int
      BY <1>1
    <2>2. CASE c \in answered
      <3>1. waiting[c] = 1 /\ waiting'[c] = waiting[c] - 1
        BY <1>1, <2>1, <2>2 DEF ClientUse, EndsRequests
      <3>2. waiting'[c] = 0 /\ client'.chan[c].active = None /\ ~client'.chan[c].timer
        BY <2>1, <2>2, <3>1, AnsweredChannel DEF EndsRequests
      <3> QED
        BY <1>3, <2>1, <3>2 DEF ClientUse, Holds
    <2>3. CASE c \notin answered
      <3>1. waiting'[c] = waiting[c] /\ client'.chan[c] = client.chan[c]
        BY <2>1, <2>3 DEF EndsRequests
      <3> QED
        BY <2>1, <3>1 DEF ClientUse, Holds
    <2> QED
      BY <2>2, <2>3
  <1> QED
    BY <1>2, <1>3, <1>4 DEF UsesGoOn

LEMMA ClientTimerClient ==
  ASSUME ClientInv, TcpType, NEW c \in Channels, ClientTimer(c)
  PROVE  ClientGoesOn
PROOF
  <1> DEFINE chan == Answered(client.chan[c])
  <1>1. /\ client.chan[c].timer /\ client' = [client EXCEPT !.chan[c] = chan]
        /\ UNCHANGED <<tcp, using>>
    BY DEF ClientTimer, RequestTimedOut, SessionsAsTheyAre
  <1>2. /\ client \in Agent /\ client.chan[c] \in Channel /\ ClientUse(c) /\ waiting \in [Channels -> Int]
        /\ client.chan[c].active # None
    BY <1>1 DEF ClientInv, Sound, Agent, ClientUse
  <1>3. waiting' = [waiting EXCEPT ![c] = @ - 1]
    BY <1>2 DEF ClientTimer, RequestTimedOut
  <1>4. waiting' \in [Channels -> Int] /\ \A d \in Channels : waiting'[d] = waiting[d] - IF d \in {c} THEN 1 ELSE 0
    BY <1>2, <1>3
  <1>5. /\ chan \in Channel
    BY <1>2, AnsweredChannel
  <1> HIDE DEF chan
  <1>6. /\ client' \in Agent /\ client'.list = client.list /\ client'.conn = client.conn
        /\ \A d \in Channels : client'.chan[d] = IF d = c THEN chan ELSE client.chan[d]
    BY <1>1, <1>2, <1>5 DEF Agent
  <1>7. \A d \in Channels : client'.chan[d] = IF d \in {c} THEN Answered(client.chan[d]) ELSE client.chan[d]
    BY <1>6 DEF chan
  <1>8. UsesGoOn
    <2>1. EndsRequests({c})
      BY <1>2, <1>4, <1>7 DEF EndsRequests
    <2> QED
      BY <1>1, <2>1, AnsweredUses
  <1>9. TcpType' /\ TcpGoesOn
    BY <1>1, TcpUnchanged
  <1>10. Sound(client') /\ \A l \in Links : ClientLink(l)'
    <2>1. Quiet(client, client')
      BY <1>6, <1>8 DEF Quiet, UsesGoOn
    <2> QED
      BY <1>6, <1>9, <2>1, ClientQuiet
  <1> QED
    BY <1>8, <1>9, <1>10 DEF ClientGoesOn, ClientInv, UsesGoOn

\* the agent after messages were read, or a disconnect
LEMMA ClientAnswers ==
  ASSUME ClientInv, TcpType', TcpGoesOn, UNCHANGED using, NEW k \in Links, NEW conn \in Connection,
         conn.state = client.conn[k].state, conn.table = client.conn[k].table,
         conn.access = client.conn[k].access, conn.sock => client.conn[k].sock,
         NEW answered \in SUBSET Channels, \A c \in answered : client.chan[c].active # None,
         waiting' = [c \in Channels |-> waiting[c] - IF c \in answered THEN 1 ELSE 0],
         NEW chan,
         chan = [c \in Channels |-> IF c \in answered THEN Answered(client.chan[c]) ELSE client.chan[c]],
         client' = [client EXCEPT !.conn[k] = conn, !.chan = chan]
  PROVE  ClientGoesOn
PROOF
  <1>1. /\ client \in Agent /\ waiting \in [Channels -> Int]
        /\ \A c \in Channels : client.chan[c] \in Channel
    BY DEF ClientInv, Sound, Agent
  <1>2. chan \in [Channels -> Channel]
    BY <1>1, AnsweredChannel
  <1>3. \A c \in Channels : chan[c] = IF c \in answered THEN Answered(client.chan[c]) ELSE client.chan[c]
    OBVIOUS
  <1>4. waiting' \in [Channels -> Int] /\ \A c \in Channels : waiting'[c] = waiting[c] - IF c \in answered THEN 1 ELSE 0
    BY <1>1
  <1>5. /\ client' \in Agent /\ client'.list = client.list /\ client'.chan = chan
        /\ \A l \in Links : client'.conn[l] = IF l = k THEN conn ELSE client.conn[l]
    BY <1>1, <1>2 DEF Agent
  <1>6. UsesGoOn
    <2>1. EndsRequests(answered)
      BY <1>3, <1>4, <1>5 DEF EndsRequests
    <2> QED
      BY <2>1, AnsweredUses
  <1>7. Sound(client') /\ \A l \in Links : ClientLink(l)'
    <2>1. Quiet(client, client')
      BY <1>5, <1>6 DEF Quiet, UsesGoOn
    <2> QED
      BY <1>5, <2>1, ClientQuiet
  <1> QED
    BY <1>6, <1>7 DEF ClientGoesOn, ClientInv, UsesGoOn

LEMMA TextTyped ==
  ASSUME ClientInv, TcpType, NEW k \in Links, NEW n \in 1..Len(tcp[k].down)
  PROVE  Text(k, n) \in Seq(Message)
PROOF
  <1>1. client.conn[k].stuck \in Seq(Message)
    BY DEF ClientInv, Sound, Agent, Connection
  <1>2. tcp[k].down \in Seq(Message)
    BY DEF TcpType
  <1>3. SubSeq(tcp[k].down, 1, n) \in Seq(Message)
    BY <1>2
  <1> QED
    BY <1>1, <1>3 DEF Text

\* what is left on the stream has been read
LEMMA UnscrolledIsRead ==
  ASSUME NEW k \in Links, NEW text \in Seq(Message), Unexpected(k, text) # {}
  PROVE  Cardinality(Taken(k, text)) + 1 \in 1..Len(text)
PROOF
  <1>1. PICK j : j \in Unexpected(k, text)
    OBVIOUS
  <1>2. j \in 1..Len(text) /\ Len(text) \in Nat
    BY <1>1 DEF Unexpected
  <1>3. IsFiniteSet(1..Len(text)) /\ Cardinality(1..Len(text)) = Len(text)
    BY <1>2, FS_Interval
  <1>4. IsFiniteSet((1..Len(text)) \ {j}) /\ Cardinality((1..Len(text)) \ {j}) = Len(text) - 1
    BY <1>2, <1>3, FS_RemoveElement
  <1>5. Taken(k, text) \in SUBSET ((1..Len(text)) \ {j})
    BY <1>1, <1>2 DEF Taken
  <1>6. IsFiniteSet(Taken(k, text)) /\ Cardinality(Taken(k, text)) <= Len(text) - 1
    BY <1>4, <1>5, FS_Subset
  <1>7. Cardinality(Taken(k, text)) \in Nat
    BY <1>6, FS_CardinalityType
  <1> QED
    BY <1>2, <1>6, <1>7

\* a response is taken only for the active request of its channel
LEMMA TakenIsActive ==
  ASSUME NEW k \in Links, NEW text \in Seq(Message), NEW c \in AnsweredBy(k, text)
  PROVE  client.chan[c].active # None
PROOF
  <1>1. PICK i \in Taken(k, text) : text[i].channel = c /\ c \in client.conn[k].table
    BY DEF AnsweredBy
  <1>2. i \in DOMAIN text /\ i \in Int
    BY DEF Taken
  <1>3. i \notin Unexpected(k, text)
    BY <1>2 DEF Taken
  <1>4. client.chan[c].active = text[i].id
    BY <1>1, <1>2, <1>3 DEF Unexpected
  <1>5. text[i] \in Message
    BY <1>2
  <1> QED
    BY <1>4, <1>5 DEF Message, None

LEMMA ClientReceiveClient ==
  ASSUME ClientInv, TcpType, NEW k \in Links, ClientReceive(k), UNCHANGED using
  PROVE  ClientGoesOn
PROOF
  <1>1. PICK n \in 1..Len(tcp[k].down) :
          LET text == Text(k, n)
              unscrolled == IF Unexpected(k, text) = {} THEN 0 ELSE Cardinality(Taken(k, text)) + 1
          IN /\ tcp' = [tcp EXCEPT ![k].down = SubSeq(@, n + 1, Len(@))]
             /\ client' = [client EXCEPT !.conn[k].stuck = SubSeq(text, 1, unscrolled),
                                         !.chan = ChannelsRead(k, text)]
             /\ waiting' = [c \in Channels |-> waiting[c] - IF c \in AnsweredBy(k, text) THEN 1 ELSE 0]
    BY DEF ClientReceive
  <1> DEFINE text == Text(k, n)
             unscrolled == IF Unexpected(k, text) = {} THEN 0 ELSE Cardinality(Taken(k, text)) + 1
             stuck == SubSeq(text, 1, unscrolled)
             conn == [client.conn[k] EXCEPT !.stuck = stuck]
             answered == AnsweredBy(k, text)
             chan == ChannelsRead(k, text)
  <1>2. TcpType' /\ TcpGoesOn
    BY <1>1, TcpRead
  <1>3. text \in Seq(Message)
    BY TextTyped
  <1>4. client \in Agent /\ client.conn[k] \in Connection
    BY DEF ClientInv, Sound, Agent
  <1>5. tcp' = [tcp EXCEPT ![k].down = SubSeq(@, n + 1, Len(@))]
    BY <1>1
  <1>6. client' = [client EXCEPT !.conn[k].stuck = stuck, !.chan = chan]
    BY <1>1
  <1>7. waiting' = [c \in Channels |-> waiting[c] - IF c \in answered THEN 1 ELSE 0]
    BY <1>1
  <1>8. chan = [c \in Channels |-> IF c \in answered THEN Answered(client.chan[c]) ELSE client.chan[c]]
    BY DEF ChannelsRead
  <1> HIDE DEF text, chan
  <1>9. stuck \in Seq(Message)
    <2>1. unscrolled \in 0..Len(text) /\ Len(text) \in Nat
      BY <1>3, UnscrolledIsRead
    <2> HIDE DEF unscrolled
    <2> QED
      BY <1>3, <2>1
  <1>10. answered \in SUBSET Channels /\ \A c \in answered : client.chan[c].active # None
    <2>1. answered \in SUBSET Channels
      BY <1>4 DEF AnsweredBy, Connection
    <2> QED
      BY <1>3, <2>1, TakenIsActive
  <1> HIDE DEF unscrolled, stuck, answered
  <1>11. /\ conn \in Connection
         /\ conn.state = client.conn[k].state /\ conn.table = client.conn[k].table
         /\ conn.access = client.conn[k].access /\ conn.sock = client.conn[k].sock
    BY <1>4, <1>9 DEF Connection
  <1>12. client' = [client EXCEPT !.conn[k] = conn, !.chan = chan]
    BY <1>4, <1>6 DEF Agent
  <1> HIDE DEF conn
  <1> QED
    BY <1>2, <1>7, <1>8, <1>10, <1>11, <1>12, ClientAnswers

LEMMA ClientPeerDisconnectedClient ==
  ASSUME ClientInv, TcpType, NEW k \in Links, ClientPeerDisconnected(k), UNCHANGED using
  PROVE  ClientGoesOn
PROOF
  <1> DEFINE cut == {c \in client.conn[k].table : client.chan[c].active # None}
             conn == [client.conn[k] EXCEPT !.sock = FALSE]
             chan == [c \in Channels |-> IF c \in cut THEN Answered(client.chan[c]) ELSE client.chan[c]]
  <1>1. tcp' = Closed(tcp, k, "client") /\ DisconnectRaise(k)
    BY DEF ClientPeerDisconnected
  <1>2. TcpType' /\ TcpGoesOn
    BY <1>1, TcpClosed
  <1>3. client \in Agent /\ client.conn[k] \in Connection /\ waiting \in [Channels -> Int]
    BY DEF ClientInv, Sound, Agent
  <1>4. cut \in SUBSET Channels /\ \A c \in cut : client.chan[c].active # None
    BY <1>3 DEF Connection
  <1>5. waiting' = [c \in Channels |-> waiting[c] - IF c \in cut THEN 1 ELSE 0]
    <2>1. waiting' = [c \in Channels |-> IF c \in cut THEN waiting[c] - 1 ELSE waiting[c]]
      BY <1>1 DEF DisconnectRaise
    <2> QED
      BY <1>3, <2>1
  <1>6. /\ conn \in Connection
        /\ conn.state = client.conn[k].state /\ conn.table = client.conn[k].table
        /\ conn.access = client.conn[k].access /\ ~conn.sock
    BY <1>3 DEF Connection
  <1>7. client' = [client EXCEPT !.conn[k] = conn, !.chan = chan]
    <2>1. client' = [client EXCEPT !.conn[k].sock = FALSE,
                       !.chan = [c \in Channels |-> IF c \in cut THEN Answered(client.chan[c]) ELSE client.chan[c]]]
      BY <1>1, <1>3 DEF DisconnectRaise, Agent
    <2> HIDE DEF cut
    <2> QED
      BY <1>3, <2>1 DEF Agent
  <1> HIDE DEF cut, conn
  <1>8. chan = [c \in Channels |-> IF c \in cut THEN Answered(client.chan[c]) ELSE client.chan[c]]
    OBVIOUS
  <1> HIDE DEF chan
  <1> QED
    BY <1>2, <1>4, <1>5, <1>6, <1>7, <1>8, ClientAnswers

-------------------------------------------------------------------------------
(* The server                                                                  *)

\* a connection is open as long as it is listed; its timers run for what is there
ServerLink(k) ==
  /\ server.conn[k].state # "none" => tcp[k].server \in {"open", "closed"}
  /\ server.conn[k].sock <=> Listed(server, k)
  /\ server.conn[k].inactivity => server.conn[k].sock
  /\ server.conn[k].termination => ~server.conn[k].sock /\ server.conn[k].table # {}

\* a channel waits for a connection or has one, for its session
ServerUse(c) ==
  /\ hosted[c] = "ready" => ~server.chan[c].removed /\ (c \in server.pending <=> Holds(server, c, None))
  /\ hosted[c] # "ready" => c \notin server.pending /\ (Holds(server, c, None) \/ server.chan[c].removed)
  /\ hosted[c] = "idle" => ~server.chan[c].removed
  /\ using[c] = "idle" => hosted[c] = "idle"

\* a session is told of what happened to its connection
IsTold(c, k) ==
  c \in server.conn[k].table => server.conn[k].sock \/ server.conn[k].termination \/ ~dialog[c]

SessionTypes ==
  /\ using \in [Channels -> Phases] /\ hosted \in [Channels -> Phases]
  /\ dialog \in [Channels -> BOOLEAN] /\ asked \in [Channels -> Seq(1..MaxRequests)]

ServerInv ==
  /\ Sound(server) /\ SessionTypes
  /\ \A k \in Links : ServerLink(k)
  /\ \A c \in Channels : ServerUse(c)
  /\ TerminationTimeout => \A c \in Channels, k \in Links : IsTold(c, k)

LEMMA IdleIsUnknown ==
  ASSUME ServerInv, NEW c \in Channels, hosted[c] = "idle", NEW k \in Links
  PROVE  c \notin server.conn[k].table
PROOF
  <1>1. Holds(server, c, None) /\ ChannelSound(server, c, k)
    BY DEF ServerInv, ServerUse, Sound
  <1> QED
    BY <1>1 DEF ChannelSound, Holds, None, Links

ServerGoesOn == TcpType' /\ TcpGoesOn /\ ServerInv'

LEMMA ServerFrame ==
  ASSUME ServerInv, UNCHANGED <<server, hosted>>, TcpType', TcpGoesOn, SessionTypes',
         \A c \in Channels : /\ using'[c] = "idle" => using[c] = "idle"
                             /\ dialog'[c] => dialog[c] \/ hosted[c] = "idle"
  PROVE  ServerGoesOn
PROOF
  <1>1. Sound(server')
    BY DEF ServerInv
  <1>2. ASSUME NEW k \in Links  PROVE ServerLink(k)'
    BY DEF ServerInv, ServerLink, TcpGoesOn, Listed
  <1>3. ASSUME NEW c \in Channels  PROVE ServerUse(c)'
    BY DEF ServerInv, ServerUse, Holds
  <1>4. ASSUME TerminationTimeout, NEW c \in Channels, NEW k \in Links  PROVE IsTold(c, k)'
    <2>1. IsTold(c, k)
      BY <1>4 DEF ServerInv
    <2> QED
      BY <2>1, IdleIsUnknown DEF IsTold
  <1> QED
    BY <1>1, <1>2, <1>3, <1>4 DEF ServerGoesOn, ServerInv

LEMMA ClientStepServer ==
  ASSUME ServerInv, TcpType', TcpGoesOn, NEW c \in Channels,
         Offer(c) \/ OnAnswer(c) \/ Terminate(c) \/ DestroyUsing(c)
  PROVE  ServerGoesOn
PROOF
  <1>1. UNCHANGED <<server, hosted, asked>> /\ SessionTypes /\ ServerUse(c)
    BY DEF Offer, OnAnswer, Terminate, DestroyUsing, ServerInv
  <1>2. CASE Offer(c)
    <2>1. /\ using[c] = "idle" /\ using' = [using EXCEPT ![c] = "offering"]
          /\ dialog' = [dialog EXCEPT ![c] = TRUE]
      BY <1>2 DEF Offer
    <2>2. SessionTypes' /\ hosted[c] = "idle"
      BY <1>1, <2>1 DEF SessionTypes, Phases, ServerUse
    <2> QED
      BY <1>1, <2>1, <2>2, ServerFrame DEF SessionTypes
  <1>3. CASE OnAnswer(c)
    <2>1. PICK phase \in {"ready", "failed"} : using' = [using EXCEPT ![c] = phase] /\ UNCHANGED dialog
      BY <1>3 DEF OnAnswer
    <2>2. SessionTypes'
      BY <1>1, <2>1 DEF SessionTypes, Phases
    <2> QED
      BY <1>1, <2>1, <2>2, ServerFrame DEF SessionTypes
  <1>4. CASE Terminate(c)
    <2>1. using' = [using EXCEPT ![c] = "removed"] /\ dialog' = [dialog EXCEPT ![c] = FALSE]
      BY <1>4 DEF Terminate
    <2>2. SessionTypes'
      BY <1>1, <2>1 DEF SessionTypes, Phases
    <2> QED
      BY <1>1, <2>1, <2>2, ServerFrame DEF SessionTypes
  <1>5. CASE DestroyUsing(c)
    <2>1. using' = [using EXCEPT ![c] = "destroyed"] /\ UNCHANGED dialog
      BY <1>5 DEF DestroyUsing
    <2>2. SessionTypes'
      BY <1>1, <2>1 DEF SessionTypes, Phases
    <2> QED
      BY <1>1, <2>1, <2>2, ServerFrame DEF SessionTypes
  <1> QED
    BY <1>2, <1>3, <1>4, <1>5

LEMMA HostServer ==
  ASSUME ServerInv, TcpType, NEW c \in Channels, Host(c)
  PROVE  ServerGoesOn
PROOF
  <1>1. /\ using[c] = "offering" /\ hosted[c] = "idle" /\ hosted' = [hosted EXCEPT ![c] = "ready"]
        /\ server' = [server EXCEPT !.pending = @ \cup {c}]
        /\ UNCHANGED <<tcp, using, dialog, asked>>
    BY DEF Host, ServerChannelAdd
  <1>2. server \in Agent /\ Sound(server) /\ SessionTypes
    BY DEF ServerInv, Sound
  <1>3. /\ server' \in Agent /\ server'.list = server.list /\ server'.conn = server.conn
        /\ server'.chan = server.chan /\ server'.pending = server.pending \cup {c}
    BY <1>1, <1>2 DEF Agent
  <1>4. Sound(server')
    BY <1>2, <1>3, Unchanged
  <1>5. TcpType' /\ TcpGoesOn
    BY <1>1, TcpUnchanged
  <1>6. SessionTypes'
    BY <1>1, <1>2 DEF SessionTypes, Phases
  <1>7. ASSUME NEW k \in Links  PROVE ServerLink(k)'
    BY <1>1, <1>3 DEF ServerInv, ServerLink, Listed
  <1>8. ASSUME NEW d \in Channels  PROVE ServerUse(d)'
    <2>1. ServerUse(d)
      BY DEF ServerInv
    <2>2. CASE d = c
      BY <1>1, <1>2, <1>3, <2>1, <2>2 DEF ServerUse, Holds, SessionTypes
    <2>3. CASE d # c
      BY <1>1, <1>2, <1>3, <2>1, <2>3 DEF ServerUse, Holds, SessionTypes
    <2> QED
      BY <2>2, <2>3
  <1>9. ASSUME TerminationTimeout, NEW d \in Channels, NEW k \in Links  PROVE IsTold(d, k)'
    BY <1>1, <1>3, <1>9 DEF ServerInv, IsTold
  <1> QED
    BY <1>4, <1>5, <1>6, <1>7, <1>8, <1>9 DEF ServerGoesOn, ServerInv

LEMMA AnswerServer ==
  ASSUME ServerInv, TcpType, NEW c \in Channels, Answer(c)
  PROVE  ServerGoesOn
PROOF
  <1> DEFINE k == server.chan[c].connection
             id == Head(asked[c])
  <1>1. /\ asked[c] # <<>> /\ asked' = [asked EXCEPT ![c] = Tail(@)] /\ ServerMessageSend(c, id)
        /\ UNCHANGED <<server, hosted, using, dialog>>
    BY DEF Answer
  <1>2. SessionTypes /\ asked[c] \in Seq(1..MaxRequests)
    BY DEF ServerInv, SessionTypes
  <1>3. id \in 1..MaxRequests /\ Tail(asked[c]) \in Seq(1..MaxRequests)
    BY <1>1, <1>2, HeadTailProperties
  <1>4. k \in Links \cup {None}
    BY DEF ServerInv, Sound, Agent, Channel
  <1>5. TcpType' /\ TcpGoesOn
    <2>1. CASE k # None /\ server.conn[k].sock
      <3> HIDE DEF id
      <3>1. k \in Links /\ tcp' = [tcp EXCEPT ![k].down = Append(@, [channel |-> c, id |-> id])]
        BY <1>1, <1>4, <2>1 DEF ServerMessageSend
      <3> QED
        BY <1>3, <3>1, TcpSent
    <2>2. CASE ~(k # None /\ server.conn[k].sock)
      BY <1>1, <2>2, TcpUnchanged DEF ServerMessageSend
    <2> QED
      BY <2>1, <2>2
  <1>6. SessionTypes'
    BY <1>1, <1>2, <1>3 DEF SessionTypes
  <1> QED
    BY <1>1, <1>5, <1>6, ServerFrame

LEMMA DestroyHostedServer ==
  ASSUME ServerInv, TcpType, NEW c \in Channels, DestroyHosted(c)
  PROVE  ServerGoesOn
PROOF
  <1> DEFINE b == ChannelDestroy(server, c)
  <1>1. /\ hosted[c] = "removed" /\ server' = b /\ hosted' = [hosted EXCEPT ![c] = "destroyed"]
        /\ UNCHANGED <<tcp, using, dialog, asked>>
    BY DEF DestroyHosted
  <1>2. Sound(server) /\ SessionTypes /\ (\A l \in Links : ServerLink(l)) /\ \A d \in Channels : ServerUse(d)
    BY DEF ServerInv
  <1>3. /\ Sound(b) /\ b.list = server.list /\ b.pending = server.pending
        /\ \A k \in Links : \/ b.conn[k] = server.conn[k]
                            \/ /\ b.conn[k] = Destroyed
                               /\ server.conn[k].state = "alive" /\ server.conn[k].table = {}
                               /\ ~Listed(server, k)
        /\ \A d \in Channels : /\ d # c => b.chan[d] = server.chan[d]
                               /\ b.chan[d].removed = server.chan[d].removed
        /\ \/ b.chan[c].connection = server.chan[c].connection
           \/ b.chan[c].connection = None /\ server.chan[c].removed
    BY <1>2, ChannelDestroyed
  <1> HIDE DEF b
  <1>4. TcpType' /\ TcpGoesOn
    BY <1>1, TcpUnchanged
  <1>5. ASSUME NEW l \in Links  PROVE ServerLink(l)'
    <2>1. ServerLink(l)
      BY <1>2
    <2>2. Listed(server', l) <=> Listed(server, l)
      BY <1>1, <1>3 DEF Listed
    <2>3. CASE b.conn[l] = server.conn[l]
      BY <1>1, <2>1, <2>2, <2>3 DEF ServerLink, Listed
    <2>4. CASE /\ b.conn[l] = Destroyed
               /\ server.conn[l].state = "alive" /\ server.conn[l].table = {} /\ ~Listed(server, l)
      <3>1. /\ tcp'[l].server \in {"open", "closed"} /\ ~server'.conn[l].sock /\ ~Listed(server', l)
            /\ ~server'.conn[l].inactivity /\ ~server'.conn[l].termination
        BY <1>1, <2>1, <2>2, <2>4, NewOnes DEF ServerLink
      <3> QED
        BY <3>1 DEF ServerLink, Listed
    <2> QED
      BY <1>3, <2>3, <2>4
  <1>6. ASSUME NEW d \in Channels  PROVE ServerUse(d)'
    <2>1. ServerUse(d)
      BY <1>2
    <2>2. CASE d = c
      BY <1>1, <1>2, <1>3, <2>1, <2>2 DEF ServerUse, Holds, SessionTypes
    <2>3. CASE d # c
      BY <1>1, <1>2, <1>3, <2>1, <2>3 DEF ServerUse, Holds, SessionTypes
    <2> QED
      BY <2>2, <2>3
  <1>7. SessionTypes'
    BY <1>1, <1>2 DEF SessionTypes, Phases
  <1>8. ASSUME TerminationTimeout, NEW d \in Channels, NEW k \in Links  PROVE IsTold(d, k)'
    <2>1. IsTold(d, k)
      BY <1>8 DEF ServerInv
    <2> QED
      BY <1>1, <1>3, <2>1, NewOnes DEF IsTold
  <1> QED
    BY <1>1, <1>3, <1>4, <1>5, <1>6, <1>7, <1>8 DEF ServerGoesOn, ServerInv

LEMMA AcceptServer ==
  ASSUME ServerInv, TcpType, NEW k \in Links, ConnectionAccept(k), UNCHANGED <<asked, dialog, using, hosted>>
  PROVE  ServerGoesOn
PROOF
  <1>1. Sound(server) /\ server \in Agent /\ SessionTypes /\ tcp[k].server = "backlog"
    BY DEF ServerInv, Sound, ConnectionAccept
  <1>2. CASE server.pending = {}
    <2>1. tcp' = Closed(tcp, k, "server") /\ UNCHANGED server
      BY <1>2 DEF ConnectionAccept
    <2>2. TcpType' /\ TcpGoesOn
      BY <2>1, TcpClosed
    <2>3. SessionTypes'
      BY <1>1 DEF SessionTypes
    <2> QED
      BY <2>1, <2>2, <2>3, ServerFrame
  <1>3. CASE server.pending # {}
    <2> DEFINE conn == [NewConnection EXCEPT !.inactivity = InactivityTimeout]
    <2>1. tcp' = [tcp EXCEPT ![k].server = "open"]
          /\ server' = [server EXCEPT !.conn[k] = conn, !.list = Append(@, k)]
      BY <1>3 DEF ConnectionAccept
    <2>2. TcpType' /\ TcpGoesOn /\ tcp'[k].server = "open"
      BY <1>1, <2>1, TcpAccepted
    <2>3. /\ conn \in Connection /\ conn.state = "alive" /\ conn.table = {} /\ conn.access = 0
          /\ conn.sock /\ ~conn.termination
      <3>1. InactivityTimeout \in BOOLEAN
        BY TransportAssumption
      <3> QED
        BY <3>1, NewOnes DEF Connection
    <2>4. Append(server.list, k) \in Seq(Links) /\ server.list \in Seq(Links)
      BY <1>1 DEF Agent
    <2> HIDE DEF conn
    <2>5. /\ server' \in Agent /\ server'.list = Append(server.list, k) /\ server'.chan = server.chan
          /\ server'.pending = server.pending
          /\ server'.conn[k] = conn /\ \A l \in Links : l # k => server'.conn[l] = server.conn[l]
      BY <1>1, <2>1, <2>3, <2>4 DEF Agent
    <2>6. server.conn[k].state = "none" /\ ~Listed(server, k)
      BY <1>1 DEF ServerInv, ServerLink, Sound, ConnectionSound
    <2>7. Sound(server') /\ Listed(server', k)
      BY <1>1, <2>3, <2>5, <2>6, Opened
    <2>8. \A l \in Links : Listed(server', l) <=> Listed(server, l) \/ l = k
      BY <1>1, <2>5, <2>6, ListAppended DEF Sound
    <2>9. ASSUME NEW l \in Links  PROVE ServerLink(l)'
      <3>1. CASE l = k
        BY <2>2, <2>3, <2>5, <2>7, <3>1 DEF ServerLink, Listed
      <3>2. CASE l # k
        <4>1. ServerLink(l) /\ server'.conn[l] = server.conn[l] /\ (Listed(server', l) <=> Listed(server, l))
          BY <2>5, <2>8, <3>2 DEF ServerInv
        <4> QED
          BY <2>2, <4>1 DEF ServerLink, Listed, TcpGoesOn
      <3> QED
        BY <3>1, <3>2
    <2>10. ASSUME NEW c \in Channels  PROVE ServerUse(c)'
      BY <2>5 DEF ServerInv, ServerUse, Holds
    <2>11. SessionTypes'
      BY <1>1 DEF SessionTypes
    <2>12. ASSUME TerminationTimeout, NEW c \in Channels, NEW l \in Links  PROVE IsTold(c, l)'
      <3>1. IsTold(c, l)
        BY <2>12 DEF ServerInv
      <3> QED
        BY <2>3, <2>5, <3>1 DEF IsTold
    <2> QED
      BY <2>2, <2>7, <2>9, <2>10, <2>11, <2>12 DEF ServerGoesOn, ServerInv
  <1> QED
    BY <1>2, <1>3

\* the connection of the channel of a message: it had it, or gets it now
LEMMA ChannelFound ==
  ASSUME ServerInv, NEW k \in Links, server.conn[k].sock, NEW c \in Channels,
         c \in server.conn[k].table \/ c \in server.pending
  PROVE  LET waits == [server EXCEPT !.pending = @ \ {c}]
             found == IF c \in server.conn[k].table THEN server ELSE Associate(k, c)
         IN  Sound(found) /\ JoinedTable(waits, found, k, c) /\ hosted[c] = "ready"
PROOF
  <1>1. /\ Sound(server) /\ server \in Agent /\ Listed(server, k) /\ ServerUse(c)
        /\ hosted[c] = "ready" => ~server.chan[c].removed
    BY DEF ServerInv, Sound, ServerLink, ServerUse
  <1>2. PICK waits : waits = [server EXCEPT !.pending = @ \ {c}]
    OBVIOUS
  <1>3. /\ waits \in Agent /\ waits.list = server.list /\ waits.conn = server.conn
        /\ waits.chan = server.chan /\ waits.pending = server.pending \ {c}
    BY <1>1, <1>2 DEF Agent
  <1>4. CASE c \in server.conn[k].table
    <2>1. Holds(server, c, k) /\ ~server.chan[c].removed /\ k # None
      BY <1>1, <1>4 DEF Sound, ChannelSound, None, Links
    <2>2. hosted[c] = "ready" /\ c \notin server.pending
      BY <1>1, <2>1 DEF ServerUse, Holds
    <2>3. JoinedTable(waits, server, k, c)
      BY <1>3, <1>4, <2>1, <2>2 DEF JoinedTable, SameAgent, Holds
    <2> QED
      BY <1>1, <1>2, <1>4, <2>2, <2>3
  <1>5. CASE c \notin server.conn[k].table
    <2>1. c \in server.pending
      BY <1>5
    <2>2. hosted[c] = "ready" /\ Holds(server, c, None) /\ ~server.chan[c].removed
      BY <1>1, <2>1 DEF ServerUse
    <2>3. Sound(waits)
      BY <1>1, <1>3, Unchanged
    <2> DEFINE joined == ChannelAdd(waits, k, c)
    <2>4. Associate(k, c) = joined
      BY <1>2, <2>1 DEF Associate
    <2>5. Sound(joined) /\ JoinedTable(waits, joined, k, c)
      <3>1. Listed(waits, k) /\ Holds(waits, c, None) /\ ~waits.chan[c].removed
        BY <1>1, <1>3, <2>2 DEF Listed, Holds
      <3> QED
        BY <2>3, <3>1, Added
    <2> HIDE DEF joined
    <2> QED
      BY <1>2, <1>5, <2>2, <2>4, <2>5
  <1> QED
    BY <1>4, <1>5

LEMMA ReceiveServer ==
  ASSUME ServerInv, TcpType, NEW k \in Links, ServerReceive(k), UNCHANGED <<using, hosted>>
  PROVE  ServerGoesOn
PROOF
  <1> DEFINE m == Head(tcp[k].up)
  <1>1. /\ server.conn[k].sock /\ tcp[k].up # <<>> /\ tcp' = [tcp EXCEPT ![k].up = Tail(@)]
        /\ UNCHANGED dialog
    BY DEF ServerReceive
  <1>2. Sound(server) /\ server \in Agent /\ SessionTypes
    BY DEF ServerInv, Sound
  <1>3. m \in Message
    <2>1. tcp[k].up \in Seq(Message)
      BY DEF TcpType
    <2> QED
      BY <1>1, <2>1, HeadTailProperties
  <1>4. TcpType' /\ TcpGoesOn
    BY <1>1, TcpRead
  <1>5. CASE ~(m.channel \in server.conn[k].table \/ m.channel \in server.pending)
    <2>1. UNCHANGED <<server, asked>>
      BY <1>5 DEF ServerReceive
    <2>2. SessionTypes'
      BY <1>1, <1>2, <2>1 DEF SessionTypes
    <2> QED
      BY <1>1, <1>4, <2>1, <2>2, ServerFrame
  <1>6. CASE m.channel \in server.conn[k].table \/ m.channel \in server.pending
    <2>1. PICK c \in Channels : c = m.channel
      BY <1>3 DEF Message
    <2>2. PICK found : found = IF c \in server.conn[k].table THEN server ELSE Associate(k, c)
      OBVIOUS
    <2>3. PICK waits : waits = [server EXCEPT !.pending = @ \ {c}]
      OBVIOUS
    <2>4. Sound(found) /\ JoinedTable(waits, found, k, c) /\ hosted[c] = "ready"
      BY <1>1, <1>6, <2>1, <2>2, <2>3, ChannelFound
    <2>5. /\ waits.list = server.list /\ waits.conn = server.conn /\ waits.chan = server.chan
          /\ waits.pending = server.pending \ {c}
      BY <1>2, <2>3 DEF Agent
    <2>6. /\ server' = [found EXCEPT !.conn[k].inactivity = InactivityTimeout]
          /\ asked' = [asked EXCEPT ![c] = Append(@, m.id)]
      BY <1>6, <2>1, <2>2 DEF ServerReceive
    <2>7. asked' \in [Channels -> Seq(1..MaxRequests)]
      <3>1. m.id \in 1..MaxRequests /\ asked[c] \in Seq(1..MaxRequests)
        BY <1>2, <1>3 DEF Message, SessionTypes
      <3>2. Append(asked[c], m.id) \in Seq(1..MaxRequests)
        BY <3>1, AppendProperties
      <3> QED
        BY <1>2, <2>6, <3>2 DEF SessionTypes
    <2> HIDE DEF m
    <2> DEFINE conn == [found.conn[k] EXCEPT !.inactivity = InactivityTimeout]
    <2>8. found \in Agent /\ found.conn[k] \in Connection
      BY <2>4 DEF Sound, Agent
    <2>9. /\ conn \in Connection /\ conn.state = found.conn[k].state /\ conn.table = found.conn[k].table
          /\ conn.access = found.conn[k].access /\ conn.sock = found.conn[k].sock
          /\ conn.termination = found.conn[k].termination
      BY <2>8, TransportAssumption DEF Connection
    <2>10. server' = [found EXCEPT !.conn[k] = conn]
      BY <2>6, <2>8 DEF Agent
    <2> HIDE DEF conn
    <2>11. /\ server' \in Agent /\ server'.list = found.list /\ server'.chan = found.chan
           /\ server'.pending = found.pending
           /\ \A l \in Links : server'.conn[l] = IF l = k THEN conn ELSE found.conn[l]
      BY <2>8, <2>9, <2>10 DEF Agent
    <2>12. Sound(server')
      BY <2>4, <2>9, <2>11, Unchanged
    <2>13. /\ server'.list = server.list /\ server'.pending = server.pending \ {c}
           /\ \A l \in Links : /\ server'.conn[l].state = server.conn[l].state
                               /\ server'.conn[l].sock = server.conn[l].sock
                               /\ server'.conn[l].termination = server.conn[l].termination
                               /\ l # k => server'.conn[l].inactivity = server.conn[l].inactivity
                               /\ server'.conn[l].table = IF l = k THEN server.conn[k].table \cup {c}
                                                                   ELSE server.conn[l].table
           /\ \A d \in Channels : /\ server'.chan[d].removed = server.chan[d].removed
                                  /\ server'.chan[d].connection = IF d = c THEN k ELSE server.chan[d].connection
      <3>1. ASSUME NEW l \in Links
            PROVE  /\ server'.conn[l].state = server.conn[l].state
                   /\ server'.conn[l].sock = server.conn[l].sock
                   /\ server'.conn[l].termination = server.conn[l].termination
                   /\ l # k => server'.conn[l].inactivity = server.conn[l].inactivity
                   /\ server'.conn[l].table = IF l = k THEN server.conn[k].table \cup {c}
                                                       ELSE server.conn[l].table
        <4>1. /\ found.conn[l].state = server.conn[l].state
              /\ found.conn[l].sock = server.conn[l].sock
              /\ found.conn[l].termination = server.conn[l].termination
              /\ found.conn[l].inactivity = server.conn[l].inactivity
              /\ found.conn[l].table = IF l = k THEN server.conn[k].table \cup {c} ELSE server.conn[l].table
          BY <2>4, <2>5 DEF JoinedTable, SameAgent
        <4>2. CASE l = k
          BY <2>9, <2>11, <4>1, <4>2
        <4>3. CASE l # k
          BY <2>11, <4>1, <4>3
        <4> QED
          BY <4>2, <4>3
      <3>2. server'.list = server.list /\ server'.pending = server.pending \ {c}
        BY <2>4, <2>5, <2>11 DEF JoinedTable, SameAgent
      <3>3. \A d \in Channels : /\ server'.chan[d].removed = server.chan[d].removed
                               /\ server'.chan[d].connection = IF d = c THEN k ELSE server.chan[d].connection
        BY <2>4, <2>5, <2>11 DEF JoinedTable, SameAgent
      <3> QED
        BY <3>1, <3>2, <3>3
    <2>14. ASSUME NEW l \in Links  PROVE ServerLink(l)'
      <3>1. ServerLink(l) /\ (Listed(server', l) <=> Listed(server, l))
        BY <2>13 DEF ServerInv, Listed
      <3>2. CASE l = k
        <4>1. /\ server'.conn[k].sock /\ ~server'.conn[k].termination /\ Listed(server', k)
              /\ server'.conn[k].state # "none" => tcp'[k].server \in {"open", "closed"}
          BY <1>1, <1>4, <2>13, <3>1, <3>2 DEF ServerLink, TcpGoesOn
        <4> QED
          BY <3>2, <4>1 DEF ServerLink, Listed
      <3>3. CASE l # k
        BY <1>4, <2>13, <3>1, <3>3 DEF ServerLink, Listed, TcpGoesOn
      <3> QED
        BY <3>2, <3>3
    <2>15. ASSUME NEW d \in Channels  PROVE ServerUse(d)'
      <3>1. ServerUse(d) /\ ServerUse(c)
        BY DEF ServerInv
      <3>2. k # None
        BY DEF Links, None
      <3>3. CASE d = c
        BY <2>4, <2>13, <3>1, <3>2, <3>3 DEF ServerUse, Holds
      <3>4. CASE d # c
        BY <2>13, <3>1, <3>4 DEF ServerUse, Holds
      <3> QED
        BY <3>3, <3>4
    <2>16. ASSUME TerminationTimeout, NEW d \in Channels, NEW l \in Links  PROVE IsTold(d, l)'
      <3>1. IsTold(d, l)
        BY <2>16 DEF ServerInv
      <3> QED
        BY <1>1, <2>13, <3>1 DEF IsTold
    <2>17. SessionTypes'
      BY <1>1, <1>2, <2>7 DEF SessionTypes
    <2> QED
      BY <1>4, <2>12, <2>14, <2>15, <2>16, <2>17 DEF ServerGoesOn, ServerInv
  <1> QED
    BY <1>5, <1>6

LEMMA DeactivateServer ==
  ASSUME ServerInv, TcpType, NEW c \in Channels, Deactivate(c)
  PROVE  ServerGoesOn
PROOF
  <1> DEFINE k == server.chan[c].connection
             left == ChannelRemove(server, k, c)
  <1>1. /\ hosted[c] = "ready" /\ hosted' = [hosted EXCEPT ![c] = "removed"]
        /\ asked' = [asked EXCEPT ![c] = <<>>] /\ ServerChannelRemove(c)
        /\ UNCHANGED <<tcp, using, dialog>>
    BY DEF Deactivate
  <1>2. /\ Sound(server) /\ server \in Agent /\ SessionTypes /\ server.chan[c] \in Channel
        /\ k \in Links \cup {None} /\ ServerUse(c)
    BY DEF ServerInv, Sound, Agent, Channel
  <1>3. TcpType' /\ TcpGoesOn
    BY <1>1, TcpUnchanged
  <1>4. SessionTypes' /\ hosted'[c] = "removed" /\ \A d \in Channels : d # c => hosted'[d] = hosted[d]
    <2>1. <<>> \in Seq(1..MaxRequests)
      BY EmptySeq
    <2> QED
      BY <1>1, <1>2, <2>1 DEF SessionTypes, Phases
  <1>5. ~server.chan[c].removed /\ (c \in server.pending <=> k = None)
    BY <1>1, <1>2 DEF ServerUse, Holds
  <1>6. CASE k = None
    <2>1. server' = [server EXCEPT !.pending = @ \ {c}]
      BY <1>1, <1>6 DEF ServerChannelRemove
    <2>2. /\ server' \in Agent /\ server'.list = server.list /\ server'.conn = server.conn
          /\ server'.chan = server.chan /\ server'.pending = server.pending \ {c}
      BY <1>2, <2>1 DEF Agent
    <2>3. Sound(server')
      BY <1>2, <2>2, Unchanged
    <2>4. ASSUME NEW l \in Links  PROVE ServerLink(l)'
      BY <1>1, <2>2 DEF ServerInv, ServerLink, Listed
    <2>5. ASSUME NEW d \in Channels  PROVE ServerUse(d)'
      <3>1. ServerUse(d)
        BY DEF ServerInv
      <3>2. CASE d = c
        <4>1. hosted'[d] = "removed" /\ d \notin server'.pending /\ Holds(server', d, None)
          BY <1>4, <1>6, <2>2, <3>2 DEF Holds
        <4>2. using'[d] # "idle"
          BY <1>1, <3>1, <3>2 DEF ServerUse
        <4> QED
          BY <4>1, <4>2 DEF ServerUse, Holds
      <3>3. CASE d # c
        BY <1>1, <1>4, <2>2, <3>1, <3>3 DEF ServerUse, Holds
      <3> QED
        BY <3>2, <3>3
    <2>6. ASSUME TerminationTimeout, NEW d \in Channels, NEW l \in Links  PROVE IsTold(d, l)'
      BY <1>1, <2>2, <2>6 DEF ServerInv, IsTold
    <2> QED
      BY <1>3, <1>4, <2>3, <2>4, <2>5, <2>6 DEF ServerGoesOn, ServerInv
  <1>7. CASE k # None
    <2>1. k \in Links /\ Holds(server, c, k) /\ c \notin server.pending /\ \A l \in Links : None # l
      BY <1>2, <1>5, <1>7 DEF Holds, None, Links
    <2>2. /\ left \in Agent /\ SameAgent(server, left) /\ LeftTable(server, left, k, c)
          /\ \A d \in Channels : left.chan[d].connection = IF d = c THEN None ELSE server.chan[d].connection
      BY <1>2, <1>5, <2>1, Removed
    <2> HIDE DEF left
    <2>3. left.conn[k].access = server.conn[k].access - 1 /\ left.conn[k].sock = server.conn[k].sock
      BY <2>1, <2>2 DEF LeftTable, SameAgent
    <2>4. server.conn[k].sock <=> Listed(server, k)
      BY <2>1 DEF ServerInv, ServerLink
    <2>5. CASE left.conn[k].access > 0 \/ left.conn[k].sock
      <3>1. server' = left
        BY <1>1, <1>7, <2>5 DEF ServerChannelRemove, left
      <3>2. Sound(left)
        BY <1>2, <1>5, <2>1, <2>2, <2>3, <2>4, <2>5, LeftToOthers DEF SameAgent
      <3>3. left.conn[k].sock \/ left.conn[k].table # {}
        <4>1. left.conn[k].access = Cardinality(left.conn[k].table)
          BY <2>1, <3>2 DEF Sound, ConnectionSound
        <4>2. left.conn[k].table = {} => left.conn[k].access = 0
          BY <4>1, FS_EmptySet
        <4> QED
          BY <2>5, <4>2
      <3>4. ASSUME NEW l \in Links  PROVE ServerLink(l)'
        <4>1. ServerLink(l) /\ (Listed(left, l) <=> Listed(server, l))
          BY <2>2 DEF ServerInv, SameAgent, Listed
        <4>2. left.conn[l].termination => ~left.conn[l].sock /\ left.conn[l].table # {}
          BY <2>2, <3>3, <4>1 DEF ServerLink, SameAgent, LeftTable
        <4> QED
          BY <1>1, <2>2, <3>1, <4>1, <4>2 DEF ServerLink, SameAgent, Listed
      <3>5. ASSUME NEW d \in Channels  PROVE ServerUse(d)'
        <4>1. ServerUse(d)
          BY DEF ServerInv
        <4>2. CASE d = c
          <5>1. d \notin server'.pending /\ Holds(server', d, None)
            BY <2>1, <2>2, <3>1, <4>2 DEF SameAgent, Holds
          <5>2. using'[d] # "idle"
            BY <1>1, <4>1, <4>2 DEF ServerUse
          <5> QED
            BY <1>4, <4>2, <5>1, <5>2 DEF ServerUse, Holds
        <4>3. CASE d # c
          BY <1>1, <1>4, <2>2, <3>1, <4>1, <4>3 DEF ServerUse, Holds, SameAgent
        <4> QED
          BY <4>2, <4>3
      <3>6. ASSUME TerminationTimeout, NEW d \in Channels, NEW l \in Links  PROVE IsTold(d, l)'
        <4>1. IsTold(d, l)
          BY <3>6 DEF ServerInv
        <4> QED
          BY <1>1, <2>2, <3>1, <4>1 DEF IsTold, SameAgent, LeftTable
      <3> QED
        BY <1>3, <1>4, <3>1, <3>2, <3>4, <3>5, <3>6 DEF ServerGoesOn, ServerInv
    <2>6. CASE ~(left.conn[k].access > 0 \/ left.conn[k].sock)
      <3> DEFINE conn == [left.conn[k] EXCEPT !.termination = FALSE]
                 chan == [left.chan[c] EXCEPT !.connection = k, !.removed = TRUE]
      <3>1. left.conn[k] \in Connection /\ left.chan[c] \in Channel
        BY <2>1, <2>2 DEF Agent
      <3>2. /\ conn \in Connection /\ ~conn.termination /\ conn.table = left.conn[k].table
            /\ conn.access = left.conn[k].access /\ conn.state = left.conn[k].state
            /\ conn.sock = left.conn[k].sock /\ conn.inactivity = left.conn[k].inactivity
        BY <3>1 DEF Connection
      <3>3. chan \in Channel /\ chan.connection = k /\ chan.removed
        BY <2>1, <3>1 DEF Channel
      <3>4. server' = [left EXCEPT !.chan[c] = chan, !.conn[k] = conn]
        BY <1>1, <1>7, <2>1, <2>2, <2>6, <3>1 DEF ServerChannelRemove, left, Agent
      <3> HIDE DEF conn, chan
      <3>5. /\ server' \in Agent /\ server'.list = left.list /\ server'.pending = left.pending
            /\ \A l \in Links : server'.conn[l] = IF l = k THEN conn ELSE left.conn[l]
            /\ \A d \in Channels : server'.chan[d] = IF d = c THEN chan ELSE left.chan[d]
        BY <2>1, <2>2, <3>2, <3>3, <3>4 DEF Agent
      <3>6. server'.list = server.list /\ server'.pending = server.pending
        BY <2>2, <3>5 DEF SameAgent
      <3>7. /\ LeftTable(server, server', k, c)
            /\ \A l \in Links : /\ server'.conn[l].sock = server.conn[l].sock
                                /\ server'.conn[l].inactivity = server.conn[l].inactivity
                                /\ server'.conn[l].termination => server.conn[l].termination /\ l # k
        <4> SUFFICES ASSUME NEW l \in Links
                     PROVE  /\ server'.conn[l].table = IF l = k THEN server.conn[k].table \ {c}
                                                               ELSE server.conn[l].table
                            /\ server'.conn[l].access = IF l = k THEN server.conn[k].access - 1
                                                                ELSE server.conn[l].access
                            /\ server'.conn[l].state = server.conn[l].state
                            /\ server'.conn[l].sock = server.conn[l].sock
                            /\ server'.conn[l].inactivity = server.conn[l].inactivity
                            /\ server'.conn[l].termination => server.conn[l].termination /\ l # k
          BY DEF LeftTable
        <4>1. CASE l = k
          <5>1. server'.conn[l] = conn
            BY <3>5, <4>1
          <5>2. /\ left.conn[k].table = server.conn[k].table \ {c}
                /\ left.conn[k].access = server.conn[k].access - 1
                /\ left.conn[k].state = server.conn[k].state
            BY <2>1, <2>2 DEF LeftTable
          <5>3. /\ left.conn[k].sock = server.conn[k].sock
                /\ left.conn[k].inactivity = server.conn[k].inactivity
            BY <2>1, <2>2 DEF SameAgent
          <5> QED
            BY <3>2, <4>1, <5>1, <5>2, <5>3
        <4>2. CASE l # k
          BY <2>1, <2>2, <3>5, <4>2 DEF LeftTable, SameAgent
        <4> QED
          BY <4>1, <4>2
      <3>8. \A d \in Channels : /\ server'.chan[d].connection = server.chan[d].connection
                                /\ server'.chan[d].removed <=> d = c \/ server.chan[d].removed
        BY <2>2, <3>3, <3>5 DEF SameAgent
      <3>9. ~server'.conn[k].sock /\ ~(server.conn[k].access - 1 > 0) /\ ~Listed(server, k)
        BY <2>1, <2>3, <2>4, <2>6, <3>7
      <3>10. Once(server'.list) /\ \A l \in Links : Listed(server', l) <=> Listed(server, l) /\ l # k
        BY <1>2, <3>6, <3>9 DEF Sound, Listed
      <3>11. Sound(server')
        BY <1>2, <1>5, <2>1, <3>5, <3>7, <3>8, <3>9, <3>10, LeftAlone
      <3>12. server'.conn[k].table = {}
        BY <1>2, <2>1, <3>8, <3>11 DEF Sound, ChannelSound, Holds
      <3>13. ASSUME NEW l \in Links  PROVE ServerLink(l)'
        <4>1. ServerLink(l) /\ (Listed(server', l) <=> Listed(server, l))
          BY <3>6 DEF ServerInv, Listed
        <4>2. server'.conn[l].termination => ~server'.conn[l].sock /\ server'.conn[l].table # {}
          BY <3>7, <4>1 DEF ServerLink, LeftTable
        <4> QED
          BY <1>1, <3>7, <4>1, <4>2 DEF ServerLink, LeftTable, Listed
      <3>14. ASSUME NEW d \in Channels  PROVE ServerUse(d)'
        <4>1. ServerUse(d)
          BY DEF ServerInv
        <4>2. CASE d = c
          <5>1. using'[d] # "idle" /\ d \notin server'.pending /\ server'.chan[d].removed
            BY <1>1, <2>1, <3>6, <3>8, <4>1, <4>2 DEF ServerUse
          <5> QED
            BY <1>4, <4>2, <5>1 DEF ServerUse
        <4>3. CASE d # c
          BY <1>1, <1>4, <3>6, <3>8, <4>1, <4>3 DEF ServerUse, Holds
        <4> QED
          BY <4>2, <4>3
      <3>15. ASSUME TerminationTimeout, NEW d \in Channels, NEW l \in Links  PROVE IsTold(d, l)'
        <4>1. IsTold(d, l)
          BY <3>15 DEF ServerInv
        <4>2. CASE l = k
          BY <3>12, <4>2 DEF IsTold
        <4>3. CASE l # k
          <5>1. server'.conn[l] = left.conn[l]
            BY <3>5, <4>3
          <5> QED
            BY <1>1, <2>2, <4>1, <4>3, <5>1 DEF IsTold, LeftTable, SameAgent
        <4> QED
          BY <4>2, <4>3
      <3> QED
        BY <1>3, <1>4, <3>11, <3>13, <3>14, <3>15 DEF ServerGoesOn, ServerInv
    <2> QED
      BY <2>5, <2>6
  <1> QED
    BY <1>6, <1>7

\* how a connection looks that is closed: what becomes of it is in termination
ClosedConnection(conn, k, termination) ==
  /\ conn \in Connection /\ ~conn.sock /\ ~conn.inactivity
  /\ conn.table = server.conn[k].table /\ conn.access = server.conn[k].access
  /\ conn.state = IF server.conn[k].access = 0 THEN "destroyed" ELSE server.conn[k].state
  /\ conn.termination <=> termination /\ server.conn[k].access # 0

LEMMA CloseEffect ==
  ASSUME ServerInv, NEW k \in Links, server.conn[k].sock, NEW timedout \in BOOLEAN, ConnectionClose(k, timedout)
  PROVE  /\ \E conn : /\ ClosedConnection(conn, k, TerminationTimeout /\ ~timedout)
                      /\ server' = [server EXCEPT !.list = Without(server.list, k), !.conn[k] = conn]
         /\ tcp' = Closed(tcp, k, "server")
         /\ dialog' = [c \in Channels |-> dialog[c] /\ ~(timedout /\ c \in server.conn[k].table)]
PROOF
  <1> DEFINE list == Without(server.list, k)
             conn == [server.conn[k] EXCEPT !.inactivity = FALSE, !.sock = FALSE]
             ending == [server.conn[k] EXCEPT !.inactivity = FALSE, !.sock = FALSE, !.termination = TerminationTimeout]
             closed == [Unlisted(server, k) EXCEPT !.conn[k].sock = FALSE]
  <1>1. /\ server \in Agent /\ server.conn[k] \in Connection /\ ~server.conn[k].termination
        /\ server.conn[k].access = Cardinality(server.conn[k].table)
        /\ SessionTypes
    BY DEF ServerInv, Sound, Agent, ServerLink, ConnectionSound
  <1>2. /\ IsFiniteSet(server.conn[k].table)
        /\ server.conn[k].access = 0 <=> server.conn[k].table = {}
    BY <1>1, TableIsFinite, FS_EmptySet
  <1>3. /\ conn \in Connection /\ ~conn.sock /\ ~conn.inactivity /\ ~conn.termination
        /\ conn.table = server.conn[k].table /\ conn.access = server.conn[k].access
        /\ conn.state = server.conn[k].state
    BY <1>1 DEF Connection
  <1>4. /\ ending \in Connection /\ ~ending.sock /\ ~ending.inactivity /\ ending.termination = TerminationTimeout
        /\ ending.table = server.conn[k].table /\ ending.access = server.conn[k].access
        /\ ending.state = server.conn[k].state
    BY <1>1, TransportAssumption DEF Connection
  <1>5. closed = [server EXCEPT !.list = list, !.conn[k] = conn]
    BY <1>1 DEF Unlisted, Agent
  <1>6. closed.conn[k].access = server.conn[k].access
    <2>1. closed.conn[k] = conn
      BY <1>1, <1>5 DEF Agent
    <2> QED
      BY <1>3, <2>1, Zenon
  <1>7. tcp' = Closed(tcp, k, "server")
    BY DEF ConnectionClose
  <1>8. CASE server.conn[k].access = 0
    <2>1. server' = [closed EXCEPT !.conn[k] = Destroyed] /\ UNCHANGED dialog
      BY <1>6, <1>8 DEF ConnectionClose
    <2>2. server' = [server EXCEPT !.list = list, !.conn[k] = Destroyed]
      <3> HIDE DEF list, conn, closed
      <3> QED
        BY <1>1, <1>5, <2>1 DEF Agent
    <2>3. ClosedConnection(Destroyed, k, TerminationTimeout /\ ~timedout)
      BY <1>2, <1>8, NewOnes DEF ClosedConnection
    <2>4. dialog' = [c \in Channels |-> dialog[c] /\ ~(timedout /\ c \in server.conn[k].table)]
      BY <1>1, <1>2, <1>8, <2>1 DEF SessionTypes
    <2> QED
      BY <1>7, <2>2, <2>3, <2>4
  <1>9. CASE server.conn[k].access # 0 /\ timedout
    <2>1. server' = closed /\ dialog' = [c \in Channels |-> dialog[c] /\ c \notin server.conn[k].table]
      BY <1>6, <1>9 DEF ConnectionClose, Disconnected
    <2>2. ClosedConnection(conn, k, TerminationTimeout /\ ~timedout)
      BY <1>3, <1>9 DEF ClosedConnection
    <2>3. dialog' = [c \in Channels |-> dialog[c] /\ ~(timedout /\ c \in server.conn[k].table)]
      BY <1>9, <2>1
    <2> QED
      BY <1>5, <1>7, <2>1, <2>2, <2>3
  <1>10. CASE server.conn[k].access # 0 /\ ~timedout
    <2>1. server' = [closed EXCEPT !.conn[k].termination = TerminationTimeout] /\ UNCHANGED dialog
      BY <1>6, <1>10 DEF ConnectionClose
    <2>2. server' = [server EXCEPT !.list = list, !.conn[k] = ending]
      <3>1. ending = [conn EXCEPT !.termination = TerminationTimeout]
        BY <1>1 DEF Connection
      <3> HIDE DEF list, conn, ending, closed
      <3>2. closed.conn[k] = conn /\ closed.conn \in [Links -> Connection]
        BY <1>1, <1>3, <1>5 DEF Agent
      <3>3. server' = [closed EXCEPT !.conn[k] = ending]
        BY <2>1, <3>1, <3>2
      <3> QED
        BY <1>1, <1>5, <3>3 DEF Agent
    <2>3. ClosedConnection(ending, k, TerminationTimeout /\ ~timedout)
      BY <1>4, <1>10 DEF ClosedConnection
    <2>4. dialog' = [c \in Channels |-> dialog[c] /\ ~(timedout /\ c \in server.conn[k].table)]
      BY <1>1, <1>10, <2>1 DEF SessionTypes
    <2> QED
      BY <1>7, <2>2, <2>3, <2>4
  <1> QED
    BY <1>8, <1>9, <1>10

LEMMA CloseServer ==
  ASSUME ServerInv, TcpType, NEW k \in Links, server.conn[k].sock, NEW timedout \in BOOLEAN,
         ConnectionClose(k, timedout), UNCHANGED <<asked, using, hosted>>
  PROVE  ServerGoesOn
PROOF
  <1> DEFINE list == Without(server.list, k)
  <1>1. PICK conn : /\ ClosedConnection(conn, k, TerminationTimeout /\ ~timedout)
                    /\ server' = [server EXCEPT !.list = list, !.conn[k] = conn]
    BY CloseEffect
  <1>2. /\ tcp' = Closed(tcp, k, "server")
        /\ dialog' = [c \in Channels |-> dialog[c] /\ ~(timedout /\ c \in server.conn[k].table)]
    BY CloseEffect
  <1>3. TcpType' /\ TcpGoesOn
    BY <1>2, TcpClosed
  <1>4. /\ Sound(server) /\ server \in Agent /\ Once(server.list) /\ Listed(server, k) /\ SessionTypes
        /\ server.conn[k].state = "alive" /\ server.conn[k].access = Cardinality(server.conn[k].table)
    BY DEF ServerInv, Sound, ServerLink, ConnectionSound
  <1>5. /\ list \in Seq(Links) /\ Once(list)
        /\ \A l \in Links : (\E i \in DOMAIN list : list[i] = l) <=> Listed(server, l) /\ l # k
    BY <1>4, ListWithout
  <1> HIDE DEF list
  <1>6. /\ server' \in Agent /\ server'.list = list /\ server'.chan = server.chan
        /\ server'.pending = server.pending
        /\ server'.conn[k] = conn /\ \A l \in Links : l # k => server'.conn[l] = server.conn[l]
    BY <1>1, <1>4, <1>5 DEF Agent, ClosedConnection
  <1>7. \A l \in Links : Listed(server', l) <=> Listed(server, l) /\ l # k
    BY <1>5, <1>6 DEF Listed
  <1>8. Sound(server')
    <2>1. /\ Once(server'.list) /\ ~server'.conn[k].sock
          /\ server'.conn[k].table = server.conn[k].table /\ server'.conn[k].access = server.conn[k].access
          /\ server'.conn[k].state = IF server.conn[k].access = 0 THEN "destroyed" ELSE server.conn[k].state
      BY <1>1, <1>5, <1>6 DEF ClosedConnection
    <2> QED
      BY <1>4, <1>6, <1>7, <2>1, ClosedSound
  <1>9. ASSUME NEW l \in Links  PROVE ServerLink(l)'
    <2>1. ServerLink(l)
      BY DEF ServerInv
    <2>2. CASE l = k
      <3>1. tcp'[k].server \in {"open", "closed"}
        BY <1>3, <1>4, <2>1, <2>2 DEF ServerLink, TcpGoesOn
      <3>2. server.conn[k].access # 0 => server.conn[k].table # {}
        BY <1>4, FS_EmptySet
      <3>3. /\ ~server'.conn[k].sock /\ ~server'.conn[k].inactivity /\ ~Listed(server', k)
            /\ server'.conn[k].termination => server'.conn[k].table # {}
        BY <1>1, <1>6, <1>7, <3>2 DEF ClosedConnection
      <3> QED
        BY <2>2, <3>1, <3>3 DEF ServerLink, Listed
    <2>3. CASE l # k
      <3>1. server'.conn[l] = server.conn[l] /\ (Listed(server', l) <=> Listed(server, l))
        BY <1>6, <1>7, <2>3
      <3> QED
        BY <1>3, <2>1, <3>1 DEF ServerLink, TcpGoesOn, Listed
    <2> QED
      BY <2>2, <2>3
  <1>10. ASSUME NEW c \in Channels  PROVE ServerUse(c)'
    BY <1>6 DEF ServerInv, ServerUse, Holds
  <1>11. SessionTypes'
    BY <1>2, <1>4 DEF SessionTypes
  <1>12. ASSUME TerminationTimeout, NEW c \in Channels, NEW l \in Links  PROVE IsTold(c, l)'
    <2>1. IsTold(c, l)
      BY <1>12 DEF ServerInv
    <2>2. CASE l = k
      <3>1. ASSUME c \in server'.conn[k].table  PROVE server'.conn[k].termination \/ ~dialog'[c]
        <4>1. c \in server.conn[k].table /\ server.conn[k].access # 0
          <5>1. IsFiniteSet(server.conn[k].table)
            BY <1>4, TableIsFinite
          <5> QED
            BY <1>1, <1>4, <1>6, <3>1, <5>1, FS_EmptySet DEF ClosedConnection
        <4>2. CASE timedout
          BY <1>2, <4>1, <4>2
        <4>3. CASE ~timedout
          BY <1>1, <1>6, <1>12, <4>1, <4>3 DEF ClosedConnection
        <4> QED
          BY <4>2, <4>3
      <3> QED
        BY <2>2, <3>1 DEF IsTold
    <2>3. CASE l # k
      BY <1>2, <1>6, <2>1, <2>3 DEF IsTold
    <2> QED
      BY <2>2, <2>3
  <1> QED
    BY <1>3, <1>8, <1>9, <1>10, <1>11, <1>12 DEF ServerGoesOn, ServerInv

LEMMA TerminationServer ==
  ASSUME ServerInv, TcpType, NEW k \in Links, TerminationTimedOut(k), UNCHANGED <<asked, using, hosted>>
  PROVE  ServerGoesOn
PROOF
  <1> DEFINE conn == [server.conn[k] EXCEPT !.termination = FALSE]
  <1>1. /\ server.conn[k].termination /\ UNCHANGED tcp
        /\ dialog' = [c \in Channels |-> dialog[c] /\ c \notin server.conn[k].table]
    BY DEF TerminationTimedOut, Disconnected
  <1>2. Sound(server) /\ server \in Agent /\ server.conn[k] \in Connection /\ SessionTypes
    BY DEF ServerInv, Sound, Agent
  <1>3. server' = [server EXCEPT !.conn[k] = conn]
    BY <1>2 DEF TerminationTimedOut, Agent
  <1>4. /\ conn \in Connection /\ ~conn.termination /\ conn.table = server.conn[k].table
        /\ conn.access = server.conn[k].access /\ conn.state = server.conn[k].state
        /\ conn.sock = server.conn[k].sock /\ conn.inactivity = server.conn[k].inactivity
    BY <1>2 DEF Connection
  <1> HIDE DEF conn
  <1>5. /\ server' \in Agent /\ server'.list = server.list /\ server'.chan = server.chan
        /\ server'.pending = server.pending
        /\ server'.conn[k] = conn /\ \A l \in Links : l # k => server'.conn[l] = server.conn[l]
    BY <1>2, <1>3, <1>4 DEF Agent
  <1>6. Sound(server')
    <2>1. \A l \in Links : /\ server'.conn[l].state = server.conn[l].state
                           /\ server'.conn[l].table = server.conn[l].table
                           /\ server'.conn[l].access = server.conn[l].access
                           /\ server'.conn[l].sock = server.conn[l].sock
      BY <1>4, <1>5
    <2> QED
      BY <1>2, <1>5, <2>1, Unchanged
  <1>7. TcpType' /\ TcpGoesOn
    BY <1>1, TcpUnchanged
  <1>8. ASSUME NEW l \in Links  PROVE ServerLink(l)'
    <2>1. ServerLink(l) /\ (Listed(server', l) <=> Listed(server, l))
      BY <1>5 DEF ServerInv, Listed
    <2>2. CASE l = k
      BY <1>1, <1>4, <1>5, <2>1, <2>2 DEF ServerLink, Listed
    <2>3. CASE l # k
      BY <1>1, <1>5, <2>1, <2>3 DEF ServerLink, Listed
    <2> QED
      BY <2>2, <2>3
  <1>9. ASSUME NEW c \in Channels  PROVE ServerUse(c)'
    BY <1>5 DEF ServerInv, ServerUse, Holds
  <1>10. SessionTypes'
    BY <1>1, <1>2 DEF SessionTypes
  <1>11. ASSUME TerminationTimeout, NEW c \in Channels, NEW l \in Links  PROVE IsTold(c, l)'
    <2>1. IsTold(c, l)
      BY <1>11 DEF ServerInv
    <2>2. CASE l = k
      <3>1. c \in server'.conn[k].table => ~dialog'[c]
        BY <1>1, <1>4, <1>5
      <3> QED
        BY <2>2, <3>1 DEF IsTold
    <2>3. CASE l # k
      BY <1>1, <1>5, <2>1, <2>3 DEF IsTold
    <2> QED
      BY <2>2, <2>3
  <1> QED
    BY <1>6, <1>7, <1>8, <1>9, <1>10, <1>11 DEF ServerGoesOn, ServerInv

-------------------------------------------------------------------------------
(* The transport                                                               *)

\* the inductive invariant
Inv ==
  /\ TcpType /\ ClientInv /\ ServerInv
  /\ sent \in 0..MaxRequests /\ sdp \in [Channels -> {"NEW", "EXISTING"}]

LEMMA NewAgentSound ==
  /\ Sound(NewAgent) /\ \A k \in Links : ~Listed(NewAgent, k) /\ NewAgent.conn[k] = NoConnection
  /\ \A c \in Channels : NewAgent.chan[c] = NewChannel
  /\ NewAgent.pending = {}
PROOF
  <1>1. NewChannel \in Channel /\ NewChannel.connection = None /\ NewChannel.active = None
        /\ ~NewChannel.removed /\ ~NewChannel.timer
    <2>1. None \in 0..MaxRequests
      BY ConnectionAssumption DEF None
    <2> QED
      BY <2>1 DEF NewChannel, Channel
  <1>2. NewAgent \in Agent
    BY <1>1, NewOnes, EmptySeq DEF NewAgent, Agent
  <1>3. /\ \A k \in Links : NewAgent.conn[k] = NoConnection
        /\ \A c \in Channels : NewAgent.chan[c] = NewChannel
        /\ NewAgent.list = <<>> /\ NewAgent.pending = {}
    BY DEF NewAgent
  <1>4. DOMAIN NewAgent.list = {}
    BY <1>3
  <1>5. ASSUME NEW k \in Links  PROVE ConnectionSound(NewAgent, k)
    BY <1>3, <1>4, NewOnes, FS_EmptySet DEF ConnectionSound, Listed
  <1>6. ASSUME NEW c \in Channels, NEW k \in Links  PROVE ChannelSound(NewAgent, c, k)
    <2>1. None # k
      BY DEF None, Links
    <2> QED
      BY <1>1, <1>3, <2>1, NewOnes DEF ChannelSound, Holds
  <1> QED
    BY <1>2, <1>3, <1>4, <1>5, <1>6 DEF Sound, Once, Listed

LEMMA InvInit ==
  Init => Inv
PROOF
  <1> SUFFICES ASSUME Init  PROVE Inv
    OBVIOUS
  <1>1. /\ client = NewAgent /\ server = NewAgent
        /\ tcp = [k \in Links |-> NoTcp]
    BY DEF Init
  <1>2. TcpType
    <2>1. NoTcp \in TcpEnd
      BY EmptySeq DEF NoTcp, TcpEnd
    <2>2. tcp \in [Links -> TcpEnd]
      BY <1>1, <2>1
    <2> QED
      BY <2>2 DEF TcpType, TcpEnd
  <1>3. SessionTypes /\ waiting \in [Channels -> Int] /\ \A c \in Channels : waiting[c] = 0
    BY EmptySeq DEF Init, SessionTypes, Phases
  <1>4. \A c \in Channels : using[c] = "idle" /\ hosted[c] = "idle"
    BY DEF Init
  <1>5. \A c \in Channels : /\ NewChannel.connection = None /\ NewChannel.active = None
                            /\ ~NewChannel.removed /\ ~NewChannel.timer
    BY DEF NewChannel
  <1>6. ClientInv
    <2>1. \A k \in Links : ClientLink(k)
      BY <1>1, NewAgentSound, NewOnes DEF ClientLink
    <2>2. \A c \in Channels : ClientUse(c)
      BY <1>1, <1>3, <1>4, <1>5, NewAgentSound DEF ClientUse, Holds
    <2> QED
      BY <1>1, <1>3, <2>1, <2>2, NewAgentSound DEF ClientInv, SessionTypes
  <1>7. ServerInv
    <2>1. \A k \in Links : ServerLink(k)
      BY <1>1, NewAgentSound, NewOnes DEF ServerLink
    <2>2. \A c \in Channels : ServerUse(c)
      BY <1>1, <1>4, <1>5, NewAgentSound DEF ServerUse, Holds
    <2>3. \A c \in Channels, k \in Links : IsTold(c, k)
      BY <1>1, NewAgentSound, NewOnes DEF IsTold
    <2> QED
      BY <1>1, <1>3, <2>1, <2>2, <2>3, NewAgentSound DEF ServerInv
  <1>8. sent \in 0..MaxRequests /\ sdp \in [Channels -> {"NEW", "EXISTING"}]
    BY ConnectionAssumption DEF Init
  <1> QED
    BY <1>2, <1>6, <1>7, <1>8 DEF Inv

LEMMA TypesStep ==
  ASSUME Inv, Next
  PROVE  sent' \in 0..MaxRequests /\ sdp' \in [Channels -> {"NEW", "EXISTING"}]
PROOF
  <1>1. sent \in 0..MaxRequests /\ sdp \in [Channels -> {"NEW", "EXISTING"}]
    BY DEF Inv
  <1>2. ASSUME NEW c \in Channels, Offer(c)
        PROVE  sent' \in 0..MaxRequests /\ sdp' \in [Channels -> {"NEW", "EXISTING"}]
    BY <1>1, <1>2 DEF Offer, OfferedType
  <1>3. ASSUME NEW c \in Channels, Host(c)
        PROVE  sent' \in 0..MaxRequests /\ sdp' \in [Channels -> {"NEW", "EXISTING"}]
    BY <1>1, <1>3 DEF Host, AnswerType
  <1>4. ASSUME NEW c \in Channels, Send(c)
        PROVE  sent' \in 0..MaxRequests /\ sdp' \in [Channels -> {"NEW", "EXISTING"}]
    BY <1>1, <1>4, ConnectionAssumption DEF Send
  <1>5. ASSUME NEW c \in Channels,
               OnAnswer(c) \/ Terminate(c) \/ DestroyUsing(c) \/ Answer(c) \/ Deactivate(c)
                 \/ DestroyHosted(c) \/ ClientTimer(c)
        PROVE  UNCHANGED <<sent, sdp>>
    BY <1>5 DEF OnAnswer, Terminate, DestroyUsing, Answer, Deactivate, DestroyHosted, ClientTimer, SessionsAsTheyAre
  <1>6. ASSUME NEW k \in Links, ClientTask(k) \/ ServerTask(k) \/ Inactivity(k) \/ Termination(k) \/ Network(k)
        PROVE  UNCHANGED <<sent, sdp>>
    BY <1>6 DEF ClientTask, ServerTask, Inactivity, Termination, Network, SessionsAsTheyAre
  <1> QED
    BY <1>1, <1>2, <1>3, <1>4, <1>5, <1>6 DEF Next

\* a step of one side leaves the other as it should be
LEMMA ServerStays ==
  ASSUME ServerInv, ClientGoesOn, UNCHANGED <<server, hosted, using, dialog, asked>>
  PROVE  ServerGoesOn
PROOF
  <1>1. SessionTypes'
    BY DEF ServerInv, SessionTypes
  <1> QED
    BY <1>1, ServerFrame DEF ClientGoesOn

LEMMA ClientStays ==
  ASSUME ClientInv, ServerGoesOn, UNCHANGED <<client, waiting, using>>
  PROVE  ClientGoesOn
  BY ClientFrame DEF ServerGoesOn, ClientGoesOn

LEMMA InvNext ==
  Inv /\ [Next]_vars => Inv'
PROOF
  <1> SUFFICES ASSUME Inv, [Next]_vars  PROVE Inv'
    OBVIOUS
  <1>1. TcpType /\ ClientInv /\ ServerInv /\ sent \in 0..MaxRequests
    BY DEF Inv
  <1>2. ASSUME ClientGoesOn, ServerGoesOn, Next  PROVE Inv'
    BY <1>2, TypesStep DEF ClientGoesOn, ServerGoesOn, Inv
  <1>3. ASSUME NEW c \in Channels, Offer(c)  PROVE ClientGoesOn /\ ServerGoesOn
    <2>1. ClientGoesOn
      BY <1>1, <1>3, OfferClient
    <2> QED
      BY <1>1, <1>3, <2>1, ClientStepServer DEF ClientGoesOn
  <1>4. ASSUME NEW c \in Channels, OnAnswer(c)  PROVE ClientGoesOn /\ ServerGoesOn
    <2>1. ClientGoesOn
      BY <1>1, <1>4, OnAnswerClient
    <2> QED
      BY <1>1, <1>4, <2>1, ClientStepServer DEF ClientGoesOn
  <1>5. ASSUME NEW c \in Channels, Send(c)  PROVE ClientGoesOn /\ ServerGoesOn
    <2>1. ClientGoesOn
      BY <1>1, <1>5, SendClient
    <2>2. UNCHANGED <<server, hosted, using, dialog, asked>>
      BY <1>5 DEF Send
    <2> QED
      BY <1>1, <2>1, <2>2, ServerStays
  <1>6. ASSUME NEW c \in Channels, Terminate(c)  PROVE ClientGoesOn /\ ServerGoesOn
    <2>1. ClientGoesOn
      BY <1>1, <1>6, TerminateClient
    <2> QED
      BY <1>1, <1>6, <2>1, ClientStepServer DEF ClientGoesOn
  <1>7. ASSUME NEW c \in Channels, DestroyUsing(c)  PROVE ClientGoesOn /\ ServerGoesOn
    <2>1. ClientGoesOn
      BY <1>1, <1>7, DestroyUsingClient
    <2> QED
      BY <1>1, <1>7, <2>1, ClientStepServer DEF ClientGoesOn
  <1>8. ASSUME NEW c \in Channels, Host(c) \/ Answer(c) \/ Deactivate(c) \/ DestroyHosted(c)
        PROVE  ClientGoesOn /\ ServerGoesOn
    <2>1. ServerGoesOn
      BY <1>1, <1>8, HostServer, AnswerServer, DeactivateServer, DestroyHostedServer
    <2>2. UNCHANGED <<client, waiting, using>>
      BY <1>8 DEF Host, Answer, Deactivate, DestroyHosted
    <2> QED
      BY <1>1, <2>1, <2>2, ClientStays
  <1>9. ASSUME NEW c \in Channels, ClientTimer(c)  PROVE ClientGoesOn /\ ServerGoesOn
    <2>1. ClientGoesOn
      BY <1>1, <1>9, ClientTimerClient
    <2>2. UNCHANGED <<server, hosted, using, dialog, asked>>
      BY <1>9 DEF ClientTimer, SessionsAsTheyAre
    <2> QED
      BY <1>1, <2>1, <2>2, ServerStays
  <1>10. ASSUME NEW k \in Links, ClientTask(k)  PROVE ClientGoesOn /\ ServerGoesOn
    <2>1. UNCHANGED <<server, hosted, using, dialog, asked>>
      BY <1>10 DEF ClientTask, SessionsAsTheyAre
    <2>2. ClientReceive(k) \/ ClientPeerDisconnected(k)
      BY <1>10 DEF ClientTask
    <2>3. ClientGoesOn
      BY <1>1, <2>1, <2>2, ClientReceiveClient, ClientPeerDisconnectedClient
    <2> QED
      BY <1>1, <2>1, <2>3, ServerStays
  <1>11. ASSUME NEW k \in Links, ServerTask(k)  PROVE ClientGoesOn /\ ServerGoesOn
    <2>1. UNCHANGED <<client, waiting, using, hosted>>
      BY <1>11 DEF ServerTask, SessionsAsTheyAre
    <2>2. CASE ConnectionAccept(k) /\ UNCHANGED <<asked, dialog>>
      BY <1>1, <2>1, <2>2, AcceptServer, ClientStays
    <2>3. CASE ServerReceive(k)
      BY <1>1, <2>1, <2>3, ReceiveServer, ClientStays
    <2>4. CASE ServerPeerDisconnected(k) /\ UNCHANGED asked
      <3>1. server.conn[k].sock /\ ConnectionClose(k, FALSE)
        BY <2>4 DEF ServerPeerDisconnected
      <3> QED
        BY <1>1, <2>1, <2>4, <3>1, CloseServer, ClientStays
    <2> QED
      BY <1>11, <2>2, <2>3, <2>4 DEF ServerTask
  <1>12. ASSUME NEW k \in Links, Inactivity(k)  PROVE ClientGoesOn /\ ServerGoesOn
    <2>1. ConnectionClose(k, TRUE) /\ UNCHANGED <<client, waiting, asked, using, hosted>>
      BY <1>12 DEF Inactivity, InactivityTimedOut, SessionsAsTheyAre
    <2>2. server.conn[k].sock
      BY <1>1, <1>12 DEF Inactivity, InactivityTimedOut, ServerInv, ServerLink
    <2> QED
      BY <1>1, <2>1, <2>2, CloseServer, ClientStays
  <1>13. ASSUME NEW k \in Links, Termination(k)  PROVE ClientGoesOn /\ ServerGoesOn
    <2>1. TerminationTimedOut(k) /\ UNCHANGED <<client, waiting, asked, using, hosted>>
      BY <1>13 DEF Termination, SessionsAsTheyAre
    <2> QED
      BY <1>1, <2>1, TerminationServer, ClientStays
  <1>14. ASSUME NEW k \in Links, Network(k)  PROVE ClientGoesOn /\ ServerGoesOn
    <2>1. Break(k) /\ UNCHANGED <<client, server, waiting, asked, dialog, using, hosted>>
      BY <1>14 DEF Network, SessionsAsTheyAre
    <2>2. ClientGoesOn
      BY <1>1, <2>1, TcpBroken, ClientFrame DEF ClientGoesOn
    <2> QED
      BY <1>1, <2>1, <2>2, ServerStays
  <1>15. CASE UNCHANGED vars
    <2>1. /\ UNCHANGED <<client, server, tcp, waiting, asked, dialog>>
          /\ UNCHANGED <<using, hosted, sdp, sent>>
      BY <1>15 DEF vars
    <2>2. ClientGoesOn
      BY <1>1, <2>1, TcpUnchanged, ClientFrame DEF ClientGoesOn
    <2>3. ServerGoesOn
      BY <1>1, <2>1, <2>2, ServerStays
    <2> QED
      BY <2>1, <2>2, <2>3 DEF ClientGoesOn, ServerGoesOn, Inv
  <1>16. CASE Next
    <2>1. CASE \E c \in Channels : \/ Offer(c) \/ OnAnswer(c) \/ Send(c) \/ Terminate(c) \/ DestroyUsing(c)
                                   \/ Host(c) \/ Answer(c) \/ Deactivate(c) \/ DestroyHosted(c)
                                   \/ ClientTimer(c)
      BY <1>2, <1>3, <1>4, <1>5, <1>6, <1>7, <1>8, <1>9, <1>16, <2>1
    <2>2. CASE \E k \in Links : ClientTask(k) \/ ServerTask(k) \/ Inactivity(k) \/ Termination(k) \/ Network(k)
      BY <1>2, <1>10, <1>11, <1>12, <1>13, <1>14, <1>16, <2>2
    <2> QED
      BY <1>16, <2>1, <2>2 DEF Next
  <1> QED
    BY <1>15, <1>16

(* The inductive invariant of client and server agents, TCP and sessions:  *)
(* both agents are sound (mrcp_client_connection.c,                        *)
(* mrcp_server_connection.c), and each session is where its channel says.  *)
THEOREM Invariance == Spec => []Inv
  BY InvInit, InvNext, PTL DEF Spec

-------------------------------------------------------------------------------
(* What follows                                                                *)

(* Types.                                                                      *)
THEOREM TransportIsTyped == Spec => []TypeOK
PROOF
  <1>1. Inv => TypeOK
    BY DEF Inv, TypeOK, ClientInv, ServerInv, Sound, SessionTypes
  <1> QED
    BY <1>1, Invariance, PTL

(* However sessions, timers and breaks interleave, connections, their channels *)
(* and their timers end together.                                              *)
THEOREM NothingStaysBehind == Spec => []NothingIsLeftOver
PROOF
  <1>1. Inv => ConnectionsAreOwned
    BY SoundIsOwned DEF Inv, ClientInv, ServerInv, ConnectionsAreOwned
  <1>2. Inv => TimersHaveOwners
    BY DEF Inv, ClientInv, ServerInv, ClientUse, ServerLink, TimersHaveOwners
  <1> QED
    BY <1>1, <1>2, Invariance, PTL DEF NothingIsLeftOver

(* A channel of the server waits for a connection or is in one table, for as   *)
(* long as its session has it.                                                 *)
THEOREM ChannelHasHome == Spec => []OneHome
PROOF
  <1>1. ASSUME Inv  PROVE OneHome
    <2> SUFFICES ASSUME NEW c \in Channels
                 PROVE  LET homes == {k \in Links : c \in server.conn[k].table}
                        IN  IF hosted[c] = "ready"
                            THEN IF c \in server.pending THEN homes = {} ELSE Cardinality(homes) = 1
                            ELSE c \notin server.pending /\ homes = {}
      BY DEF OneHome
    <2> DEFINE homes == {k \in Links : c \in server.conn[k].table}
    <2>1. /\ ServerUse(c) /\ server.chan[c].connection \in Links \cup {None}
          /\ \A k \in Links : None # k /\ (k \in homes <=> Holds(server, c, k) /\ ~server.chan[c].removed)
      BY <1>1 DEF Inv, ServerInv, Sound, ChannelSound, Agent, Channel, None, Links
    <2>2. homes \subseteq Links
      OBVIOUS
    <2> HIDE DEF homes
    <2>3. Holds(server, c, None) \/ server.chan[c].removed => homes = {}
      BY <2>1, <2>2 DEF Holds
    <2>4. CASE hosted[c] = "ready" /\ c \notin server.pending
      <3>1. homes = {server.chan[c].connection}
        BY <2>1, <2>2, <2>4 DEF ServerUse, Holds
      <3> QED
        BY <2>4, <3>1, FS_Singleton DEF homes
    <2>5. CASE ~(hosted[c] = "ready" /\ c \notin server.pending)
      BY <2>1, <2>3, <2>5 DEF ServerUse, homes
    <2> QED
      BY <2>4, <2>5
  <1> QED
    BY <1>1, Invariance, PTL

(* No request is answered twice, by the server, the timer or a lost connection *)
THEOREM RequestIsAnsweredOnce == Spec => []AnsweredOnce
PROOF
  <1>1. Inv => AnsweredOnce
    BY DEF Inv, ClientInv, ClientUse, AnsweredOnce
  <1> QED
    BY <1>1, Invariance, PTL

(* With the termination timer no session waits for a BYE that cannot come.     *)
THEOREM OrphansHear == TerminationTimeout => (Spec => []OrphansAreTold)
PROOF
  <1> SUFFICES ASSUME TerminationTimeout  PROVE Spec => []OrphansAreTold
    OBVIOUS
  <1>1. Inv => OrphansAreTold
    BY DEF Inv, ServerInv, Sound, Agent, Connection, IsTold, OrphansAreTold
  <1> QED
    BY <1>1, Invariance, PTL
=============================================================================
