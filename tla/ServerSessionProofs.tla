------------------------ MODULE ServerSessionProofs ------------------------
(***************************************************************************)
(* Proofs about the server session, for any offers, any number of requests *)
(* and either choice of the Boolean constants.                             *)
(*                                                                         *)
(* That the count of sub-requests is exact is not inductive by itself: the *)
(* session matches an answer by the waiting mark of a channel or a slot,   *)
(* so the count stays exact only because each mark stands for exactly one  *)
(* outstanding sub-request (MarksInv), because a new batch is sent when no *)
(* sub-request of an old one is left (PhaseInv), and because requests name *)
(* channels that are there (TargetsInv).                                   *)
(*                                                                         *)
(* On top of it, one invariant per property: HoldInv for what the tasks    *)
(* hold and the session gives back, CompleteInv for what an answer         *)
(* describes, ServedInv for what it agrees to.                             *)
(***************************************************************************)
EXTENDS ServerSession, FiniteSetTheorems, SequenceTheorems, TLAPS

-----------------------------------------------------------------------------
(* The inductive invariant.                                                *)

ChannelOps == {"add channel", "modify channel", "remove channel"}
MediaOps == {"add media", "subtract media"}
SlotOps == {"add slot", "modify slot", "subtract slot"}
OfferOps == {"add channel", "modify channel", "add slot", "modify slot", "open"}

\* the mark that the answer to a sub-request clears is set
Marked(sub) ==
    /\ sub.op \in ChannelOps => /\ sub.channel \in DOMAIN channels
                                /\ channels[sub.channel].waiting_for_channel
    /\ sub.op \in MediaOps => /\ sub.channel \in DOMAIN channels
                              /\ channels[sub.channel].waiting_for_termination
    /\ sub.op \in SlotOps => /\ sub.slot \in DOMAIN terminations
                             /\ terminations[sub.slot]

SameMark(s, t) ==
    \/ s.op \in ChannelOps /\ t.op \in ChannelOps /\ s.channel = t.channel
    \/ s.op \in MediaOps /\ t.op \in MediaOps /\ s.channel = t.channel
    \/ s.op \in SlotOps /\ t.op \in SlotOps /\ s.slot = t.slot
    \/ s.op = "request" /\ t.op = "request"

\* no mark is there for two sub-requests, and an engine has one request
MarksInv ==
    /\ \A sub \in outstanding : Marked(sub)
    /\ \A s, t \in outstanding : SameMark(s, t) => s = t

CountInv == IsFiniteSet(outstanding) /\ CountExact

InProgress(type) == in_progress # NULL /\ ~dispatching /\ in_progress.type = type

\* sub-requests are outstanding only while their request is in progress
PhaseInv ==
    /\ dispatching => in_progress # NULL
    /\ subrequest_count # 0 => InProgress("OFFER") \/ InProgress("TERMINATE")
    /\ \A sub \in outstanding :
          /\ sub.op = "request" => /\ InProgress("CONTROL")
                                   /\ sub.channel \in DOMAIN channels
          /\ sub.op \in OfferOps => InProgress("OFFER")
    /\ InProgress("OFFER") => answer \in Answer /\ offer \in Offers
    /\ InProgress("OFFER") => state \in {"GENERATING_ANSWER", "INITIALIZING"}
    /\ state \in {"DEACTIVATING", "TERMINATING"} <=> InProgress("TERMINATE")
    /\ state = "NONE" => last_offer = NULL

\* a request names a channel that is there
Targeted(request) ==
    /\ request.type = "CONTROL" => request.channel \in DOMAIN channels
    /\ request.type = "OFFER" => request.offer \in Offers

TargetsInv ==
    /\ in_progress # NULL => Targeted(in_progress)
    /\ \A i \in DOMAIN request_queue : Targeted(request_queue[i])

Inv == TypeOK /\ CountInv /\ MarksInv /\ PhaseInv /\ TargetsInv

(* A new session has no sub-requests, so all of the invariant holds.       *)
LEMMA InitInv == Init => Inv
<1> SUFFICES ASSUME Init PROVE Inv
  OBVIOUS
<1> USE SessionAssumption DEF Init, QueueInit
<1>1. TypeOK
  <2>1. QueueTypeOK
    <3>1. dispatching \in BOOLEAN
      OBVIOUS
    <3>2. in_progress = NULL /\ request_queue = <<>>
      OBVIOUS
    <3> QED
      BY <3>1, <3>2 DEF QueueTypeOK
  <2>2. ChannelsTypeOK
    BY DEF ChannelsTypeOK
  <2>3. AnswersTypeOK
    BY DEF AnswersTypeOK
  <2>4. TasksTypeOK
    BY DEF TasksTypeOK
  <2>5. ClientTypeOK
    BY DEF ClientTypeOK
  <2> QED
    BY <2>1, <2>2, <2>3, <2>4, <2>5 DEF TypeOK
<1>2. CountInv
  <2>1. Counted = {}
    BY DEF Counted
  <2> QED
    BY <2>1, FS_EmptySet DEF CountInv, CountExact
<1>3. MarksInv
  BY DEF MarksInv
<1>4. PhaseInv
  BY DEF PhaseInv, InProgress
<1>5. TargetsInv
  BY DEF TargetsInv
<1> QED
  BY <1>1, <1>2, <1>3, <1>4, <1>5 DEF Inv

-----------------------------------------------------------------------------
(* Counting.                                                               *)

(* The answer to a counted sub-request takes one from both sides.          *)
LEMMA AnsweredIsCounted ==
  ASSUME Inv, NEW sub \in outstanding, sub.op # "request",
         outstanding' = outstanding \ {sub}, SubrequestRemove
  PROVE  /\ CountInv'
         /\ subrequest_count \in Nat \ {0}
         /\ subrequest_count' \in Nat
<1>1. IsFiniteSet(Counted) /\ sub \in Counted
  BY FS_Subset DEF Inv, CountInv, Counted
<1>2. Counted' = Counted \ {sub}
  BY DEF Counted
<1>3. /\ Cardinality(Counted') = Cardinality(Counted) - 1
      /\ Cardinality(Counted) \in Nat \ {0}
  BY <1>1, <1>2, FS_RemoveElement, FS_CardinalityType, FS_EmptySet
<1>4. IsFiniteSet(outstanding')
  BY FS_RemoveElement DEF Inv, CountInv
<1>5. subrequest_count = Cardinality(Counted)
  BY DEF Inv, CountInv, CountExact
<1>6. subrequest_count' = subrequest_count - 1 /\ subrequest_count \in Nat \ {0}
  BY <1>3, <1>5 DEF SubrequestRemove
<1>7. CountExact'
  BY <1>3, <1>5, <1>6 DEF CountExact
<1> QED
  BY <1>4, <1>6, <1>7 DEF CountInv

(* Nothing is counted while no batch is awaited.                           *)
LEMMA NothingCounted ==
  ASSUME Inv, subrequest_count = 0
  PROVE  \A sub \in outstanding : sub.op = "request"
<1>1. IsFiniteSet(Counted)
  BY FS_Subset DEF Inv, CountInv, Counted
<1>2. Counted = {}
  BY <1>1, FS_EmptySet DEF Inv, CountInv, CountExact
<1> QED
  BY <1>2 DEF Counted

(* A batch that is sent when nothing else is counted sets the count right. *)
LEMMA BatchIsCounted ==
  ASSUME Inv, subrequest_count = 0, NEW next, NEW requests,
         IsFiniteSet(requests), \A sub \in requests : sub.op # "request",
         StateSet(next, requests)
  PROVE  CountInv' /\ subrequest_count' \in Nat
<1>1. Counted' = requests
  BY NothingCounted DEF Counted, StateSet
<1>2. IsFiniteSet(outstanding')
  BY FS_Union DEF StateSet, Inv, CountInv
<1> QED
  BY <1>1, <1>2, FS_CardinalityType DEF StateSet, CountInv, CountExact

(* The parts of a batch are finite.                                        *)
LEMMA EachIsFinite ==
  ASSUME NEW op, NEW indices, IsFiniteSet(indices)
  PROVE  IsFiniteSet(Each(op, indices)) /\ IsFiniteSet(EachSlot(op, indices))
<1> DEFINE f == [i \in indices |-> Sub(op, i, 0)]
           g == [i \in indices |-> Sub(op, 0, i)]
<1>2. f \in Surjection(indices, Each(op, indices))
  BY DEF Surjection, Each
<1>3. g \in Surjection(indices, EachSlot(op, indices))
  BY DEF Surjection, EachSlot
<1> QED
  BY <1>2, <1>3, FS_Surjection

-----------------------------------------------------------------------------
(* Answers to sub-requests.                                                *)

(* What an answer leaves alone.                                            *)
LEMMA AnswerFramed ==
  ASSUME Inv, AnswerFrame, outstanding' \subseteq outstanding,
         DOMAIN channels' = DOMAIN channels,
         subrequest_count' # 0 => subrequest_count # 0,
         InProgress("OFFER") => answer' \in Answer
  PROVE  PhaseInv' /\ TargetsInv' /\ QueueTypeOK' /\ ClientTypeOK'
<1> USE DEF AnswerFrame, queueVars, clientVars
<1>1. \A type : InProgress(type)' <=> InProgress(type)
  BY Zenon DEF InProgress
<1>2. PhaseInv'
  <2>1. PhaseInv
    BY DEF Inv
  <2>2. (dispatching => in_progress # NULL)'
    BY <2>1, Zenon DEF PhaseInv
  <2>3. (subrequest_count # 0 => InProgress("OFFER") \/ InProgress("TERMINATE"))'
    BY <1>1, <2>1 DEF PhaseInv
  <2>4. (\A sub \in outstanding :
          /\ sub.op = "request" => /\ InProgress("CONTROL")
                                   /\ sub.channel \in DOMAIN channels
          /\ sub.op \in OfferOps => InProgress("OFFER"))'
    BY <1>1, <2>1 DEF PhaseInv
  <2>5. (InProgress("OFFER") => answer \in Answer /\ offer \in Offers)'
    BY <1>1, <2>1 DEF PhaseInv
  <2>6. (InProgress("OFFER") => state \in {"GENERATING_ANSWER", "INITIALIZING"})'
    BY <1>1, <2>1 DEF PhaseInv
  <2>7. (state \in {"DEACTIVATING", "TERMINATING"} <=> InProgress("TERMINATE"))'
    BY <1>1, <2>1 DEF PhaseInv
  <2>8. (state = "NONE" => last_offer = NULL)'
    BY <2>1 DEF PhaseInv
  <2> QED
    BY <2>2, <2>3, <2>4, <2>5, <2>6, <2>7, <2>8 DEF PhaseInv
<1>3. TargetsInv'
  BY DEF Inv, TargetsInv, Targeted
<1>4. QueueTypeOK'
  BY Zenon DEF Inv, TypeOK, QueueTypeOK
<1>5. ClientTypeOK'
  BY Zenon DEF Inv, TypeOK, ClientTypeOK
<1> QED
  BY <1>2, <1>3, <1>4, <1>5

(* The mark of a channel is cleared with its only sub-request.             *)
LEMMA ChannelUnmarked ==
  ASSUME Inv, NEW sub \in outstanding, sub.op \in ChannelOps,
         outstanding' = outstanding \ {sub},
         channels' = [channels EXCEPT ![sub.channel].waiting_for_channel = FALSE],
         terminations' = terminations
  PROVE  /\ MarksInv'
         /\ channels' \in Seq(Channel)
         /\ DOMAIN channels' = DOMAIN channels
<1>1. channels \in Seq(Channel) /\ sub.channel \in DOMAIN channels
  BY DEF Inv, TypeOK, ChannelsTypeOK, MarksInv, Marked
<1>2. channels' \in Seq(Channel) /\ DOMAIN channels' = DOMAIN channels
  <2> DEFINE unmarked == [channels[sub.channel] EXCEPT !.waiting_for_channel = FALSE]
  <2>1. channels[sub.channel] \in Channel
    BY <1>1
  <2>2. unmarked \in Channel
    BY <2>1 DEF Channel
  <2>3. channels' = [channels EXCEPT ![sub.channel] = unmarked]
    BY Zenon
  <2> HIDE DEF unmarked
  <2> QED
    BY <1>1, <2>2, <2>3
<1>3. ASSUME NEW t \in outstanding, t # sub
      PROVE  Marked(t)'
  <2>1. Marked(t) /\ ~SameMark(sub, t)
    BY <1>3 DEF Inv, MarksInv
  <2>2. ASSUME t.op \in ChannelOps
        PROVE  t.channel \in DOMAIN channels' /\ channels'[t.channel].waiting_for_channel
    BY <1>1, <1>2, <2>1, <2>2 DEF Marked, SameMark
  <2>3. ASSUME t.op \in MediaOps
        PROVE  /\ t.channel \in DOMAIN channels'
               /\ channels'[t.channel].waiting_for_termination
    BY <1>1, <1>2, <2>1, <2>3 DEF Marked, Channel
  <2>4. ASSUME t.op \in SlotOps
        PROVE  t.slot \in DOMAIN terminations' /\ terminations'[t.slot]
    BY <2>1, <2>4 DEF Marked
  <2> QED
    BY <2>2, <2>3, <2>4 DEF Marked
<1>4. \A s, t \in outstanding' : SameMark(s, t) => s = t
  BY DEF Inv, MarksInv
<1> QED
  BY <1>2, <1>3, <1>4 DEF MarksInv, SameMark

(* The same for the mark of a channel's termination.                       *)
LEMMA MediaUnmarked ==
  ASSUME Inv, NEW sub \in outstanding, sub.op \in MediaOps,
         outstanding' = outstanding \ {sub},
         channels' = [channels EXCEPT ![sub.channel].waiting_for_termination = FALSE],
         terminations' = terminations
  PROVE  /\ MarksInv'
         /\ channels' \in Seq(Channel)
         /\ DOMAIN channels' = DOMAIN channels
<1>1. channels \in Seq(Channel) /\ sub.channel \in DOMAIN channels
  BY DEF Inv, TypeOK, ChannelsTypeOK, MarksInv, Marked
<1>2. channels' \in Seq(Channel) /\ DOMAIN channels' = DOMAIN channels
  <2> DEFINE unmarked == [channels[sub.channel] EXCEPT !.waiting_for_termination = FALSE]
  <2>1. channels[sub.channel] \in Channel
    BY <1>1
  <2>2. unmarked \in Channel
    BY <2>1 DEF Channel
  <2>3. channels' = [channels EXCEPT ![sub.channel] = unmarked]
    BY Zenon
  <2> HIDE DEF unmarked
  <2> QED
    BY <1>1, <2>2, <2>3
<1>3. ASSUME NEW t \in outstanding, t # sub
      PROVE  Marked(t)'
  <2>1. Marked(t) /\ ~SameMark(sub, t)
    BY <1>3 DEF Inv, MarksInv
  <2>2. ASSUME t.op \in ChannelOps
        PROVE  t.channel \in DOMAIN channels' /\ channels'[t.channel].waiting_for_channel
    BY <1>1, <1>2, <2>1, <2>2 DEF Marked, Channel
  <2>3. ASSUME t.op \in MediaOps
        PROVE  /\ t.channel \in DOMAIN channels'
               /\ channels'[t.channel].waiting_for_termination
    BY <1>1, <1>2, <2>1, <2>3 DEF Marked, SameMark
  <2>4. ASSUME t.op \in SlotOps
        PROVE  t.slot \in DOMAIN terminations' /\ terminations'[t.slot]
    BY <2>1, <2>4 DEF Marked
  <2> QED
    BY <2>2, <2>3, <2>4 DEF Marked
<1>4. \A s, t \in outstanding' : SameMark(s, t) => s = t
  BY DEF Inv, MarksInv
<1> QED
  BY <1>2, <1>3, <1>4 DEF MarksInv, SameMark

(* And for the mark of a media slot.                                       *)
LEMMA SlotUnmarked ==
  ASSUME Inv, NEW sub \in outstanding, sub.op \in SlotOps,
         outstanding' = outstanding \ {sub},
         terminations' = [terminations EXCEPT ![sub.slot] = FALSE],
         channels' = channels
  PROVE  MarksInv' /\ terminations' \in Seq(BOOLEAN)
<1>1. terminations \in Seq(BOOLEAN) /\ sub.slot \in DOMAIN terminations
  BY DEF Inv, TypeOK, ChannelsTypeOK, MarksInv, Marked
<1>2. terminations' \in Seq(BOOLEAN) /\ DOMAIN terminations' = DOMAIN terminations
  BY <1>1
<1>3. ASSUME NEW t \in outstanding, t # sub
      PROVE  Marked(t)'
  <2>1. Marked(t) /\ ~SameMark(sub, t)
    BY <1>3 DEF Inv, MarksInv
  <2>2. ASSUME t.op \in ChannelOps \cup MediaOps
        PROVE  Marked(t)'
    BY <2>1, <2>2 DEF Marked, ChannelOps, MediaOps, SlotOps
  <2>3. ASSUME t.op \in SlotOps
        PROVE  t.slot \in DOMAIN terminations' /\ terminations'[t.slot]
    BY <1>1, <1>2, <2>1, <2>3 DEF Marked, SameMark
  <2> QED
    BY <2>2, <2>3 DEF Marked
<1>4. \A s, t \in outstanding' : SameMark(s, t) => s = t
  BY DEF Inv, MarksInv
<1> QED
  BY <1>2, <1>3, <1>4 DEF MarksInv, SameMark

(* The marks stay when an answer that has none comes in.                   *)
LEMMA MarksKept ==
  ASSUME Inv, outstanding' \subseteq outstanding,
         channels' = channels, terminations' = terminations
  PROVE  MarksInv'
BY DEF Inv, MarksInv, Marked, SameMark

Holdings == {"channel", "media", "slot", "engine"} \X Nat

(* What is common to the answers to counted sub-requests.                  *)
LEMMA AnswerInv ==
  ASSUME Inv, AnswerFrame, NEW sub \in outstanding, sub.op # "request",
         outstanding' = outstanding \ {sub}, SubrequestRemove,
         MarksInv', channels' \in Seq(Channel), DOMAIN channels' = DOMAIN channels,
         terminations' \in Seq(BOOLEAN), busy' \subseteq busy,
         answer' = answer \/ (InProgress("OFFER") /\ answer' \in Answer),
         held' \subseteq Holdings
  PROVE  Inv'
<1>1. CountInv' /\ subrequest_count \in Nat \ {0} /\ subrequest_count' \in Nat
  BY AnsweredIsCounted
<1>2. InProgress("OFFER") => answer' \in Answer
  BY DEF Inv, PhaseInv
<1>3. PhaseInv' /\ TargetsInv' /\ QueueTypeOK' /\ ClientTypeOK'
  BY <1>1, <1>2, AnswerFramed
<1>4. ChannelsTypeOK'
  BY DEF Inv, TypeOK, ChannelsTypeOK
<1>5. AnswersTypeOK'
  BY DEF Inv, TypeOK, AnswersTypeOK, AnswerFrame
<1>6. TasksTypeOK'
  <2>1. TasksTypeOK
    BY DEF Inv, TypeOK
  <2>2. state' = state /\ removed' = removed
    BY DEF AnswerFrame
  <2>3. removed' \in BOOLEAN
    BY <2>1, <2>2, Zenon DEF TasksTypeOK
  <2> QED
    BY <1>1, <2>1, <2>2, <2>3 DEF TasksTypeOK, Holdings
<1> QED
  BY <1>1, <1>3, <1>4, <1>5, <1>6 DEF Inv, TypeOK

(* What the tasks hold has the types of Holdings.                          *)
LEMMA HeldTyped == Inv => held \subseteq Holdings
BY DEF Inv, TypeOK, TasksTypeOK, Holdings

(* mrcp_session_control_media_set leaves an answer an answer.              *)
LEMMA SetControlTyped ==
  ASSUME answer \in Answer, NEW id, NEW granting, SetControl(id, granting)
  PROVE  answer' \in Answer
<1>1. CASE id \notin DOMAIN answer.control
  BY <1>1 DEF SetControl
<1>2. CASE id \in DOMAIN answer.control
  <2> DEFINE new == IF granting THEN "granted" ELSE "refused"
             control == [answer.control EXCEPT ![id] = new]
  <2>1. answer.control \in Seq({"absent", "granted", "refused"})
    BY DEF Answer
  <2>2. new \in {"absent", "granted", "refused"}
    OBVIOUS
  <2> HIDE DEF new
  <2>3. control \in Seq({"absent", "granted", "refused"})
    BY <1>2, <2>1, <2>2
  <2>4. answer' = [answer EXCEPT !.control = control]
    BY <1>2 DEF SetControl, new
  <2> HIDE DEF control
  <2> QED
    BY <2>3, <2>4 DEF Answer
<1> QED
  BY <1>1, <1>2

(* mrcp_server_on_channel_modify keeps the invariant.                      *)
LEMMA ChannelModifiedInv ==
  ASSUME Inv, NEW op \in {"add channel", "modify channel"}, NEW c, NEW position,
         ChannelModified(op, c, position)
  PROVE  Inv'
<1> DEFINE sub == Sub(op, c, 0)
<1>1. sub \in outstanding /\ outstanding' = outstanding \ {sub}
  BY DEF ChannelModified, Answered
<1>2. c \in Nat /\ sub.op = op /\ sub.channel = c
  BY <1>1 DEF Inv, TypeOK, TasksTypeOK, Sub
<1> HIDE DEF sub
<1>3. sub.op \in ChannelOps /\ sub.op \in OfferOps /\ sub.op # "request"
  BY <1>2 DEF ChannelOps, OfferOps
<1>4. channels[c].waiting_for_channel
  BY <1>1, <1>2, <1>3 DEF Inv, MarksInv, Marked
<1>5. SubrequestRemove
  BY <1>4 DEF ChannelModified, RemoveIf
<1>6. InProgress("OFFER") /\ answer \in Answer
  BY <1>1, <1>3 DEF Inv, PhaseInv
<1>7. answer' \in Answer
  BY <1>4, <1>6, SetControlTyped DEF ChannelModified
<1>8. /\ MarksInv' /\ channels' \in Seq(Channel)
      /\ DOMAIN channels' = DOMAIN channels
  BY <1>1, <1>2, <1>3, ChannelUnmarked DEF ChannelModified
<1>9. held' \subseteq Holdings
  <2>1. held' \subseteq held \cup {<<"channel", c>>}
    BY DEF ChannelModified
  <2>2. <<"channel", c>> \in Holdings
    BY <1>2 DEF Holdings
  <2> QED
    BY <2>1, <2>2, HeldTyped
<1>10. terminations' \in Seq(BOOLEAN) /\ busy' \subseteq busy
  BY DEF ChannelModified, Inv, TypeOK, ChannelsTypeOK
<1>0. AnswerFrame
  BY DEF ChannelModified
<1> QED
  BY <1>0, <1>1, <1>3, <1>5, <1>6, <1>7, <1>8, <1>9, <1>10, AnswerInv

(* mrcp_server_on_channel_remove keeps the invariant.                      *)
LEMMA ChannelRemovedInv ==
  ASSUME Inv, NEW c, ChannelRemoved(c)
  PROVE  Inv'
<1> DEFINE sub == Sub("remove channel", c, 0)
<1>1. sub \in outstanding /\ outstanding' = outstanding \ {sub}
  BY DEF ChannelRemoved, Answered
<1>2. c \in Nat /\ sub.op = "remove channel" /\ sub.channel = c
  BY <1>1 DEF Inv, TypeOK, TasksTypeOK, Sub
<1> HIDE DEF sub
<1>3. sub.op \in ChannelOps /\ sub.op # "request"
  BY <1>2 DEF ChannelOps
<1>4. channels[c].waiting_for_channel
  BY <1>1, <1>2, <1>3 DEF Inv, MarksInv, Marked
<1>5. SubrequestRemove
  BY <1>4 DEF ChannelRemoved, RemoveIf
<1>6. /\ MarksInv' /\ channels' \in Seq(Channel)
      /\ DOMAIN channels' = DOMAIN channels
  BY <1>1, <1>2, <1>3, ChannelUnmarked DEF ChannelRemoved
<1>7. held' \subseteq Holdings
  BY HeldTyped DEF ChannelRemoved
<1>8. /\ terminations' \in Seq(BOOLEAN) /\ busy' \subseteq busy
  BY DEF ChannelRemoved, Inv, TypeOK, ChannelsTypeOK
<1>9. answer' = answer \/ (InProgress("OFFER") /\ answer' \in Answer)
  <2>1. answer' = answer
    BY DEF ChannelRemoved
  <2> QED
    BY <2>1
<1>0. AnswerFrame
  BY DEF ChannelRemoved
<1> QED
  BY <1>0, <1>1, <1>3, <1>5, <1>6, <1>7, <1>8, <1>9, AnswerInv

(* The answer about an engine's termination keeps it.                      *)
LEMMA MediaAnsweredInv ==
  ASSUME Inv, NEW op \in {"add media", "subtract media"}, NEW c,
         MediaAnswered(op, c)
  PROVE  Inv'
<1> DEFINE sub == Sub(op, c, 0)
<1>1. sub \in outstanding /\ outstanding' = outstanding \ {sub}
  BY DEF MediaAnswered, Answered
<1>2. c \in Nat /\ sub.op = op /\ sub.channel = c
  BY <1>1 DEF Inv, TypeOK, TasksTypeOK, Sub
<1> HIDE DEF sub
<1>3. sub.op \in MediaOps /\ sub.op # "request"
  BY <1>2 DEF MediaOps
<1>4. channels[c].waiting_for_termination
  BY <1>1, <1>2, <1>3 DEF Inv, MarksInv, Marked
<1>5. SubrequestRemove
  BY <1>4 DEF MediaAnswered, RemoveIf
<1>6. /\ MarksInv' /\ channels' \in Seq(Channel)
      /\ DOMAIN channels' = DOMAIN channels
  BY <1>1, <1>2, <1>3, MediaUnmarked DEF MediaAnswered
<1>7. held' \subseteq Holdings
  <2>1. held' \subseteq held \cup {<<"media", c>>}
    BY DEF MediaAnswered
  <2>2. <<"media", c>> \in Holdings
    BY <1>2 DEF Holdings
  <2> QED
    BY <2>1, <2>2, HeldTyped
<1>8. /\ terminations' \in Seq(BOOLEAN) /\ busy' \subseteq busy
  BY DEF MediaAnswered, Inv, TypeOK, ChannelsTypeOK
<1>9. answer' = answer \/ (InProgress("OFFER") /\ answer' \in Answer)
  <2>1. answer' = answer
    BY DEF MediaAnswered
  <2> QED
    BY <2>1
<1>0. AnswerFrame
  BY DEF MediaAnswered
<1> QED
  BY <1>0, <1>1, <1>3, <1>5, <1>6, <1>7, <1>8, <1>9, AnswerInv

(* The answer about the termination of a media slot keeps it.              *)
LEMMA SlotAnsweredInv ==
  ASSUME Inv, NEW op \in SlotOps, NEW s, SlotAnswered(op, s)
  PROVE  Inv'
<1> DEFINE sub == Sub(op, 0, s)
<1>1. sub \in outstanding /\ outstanding' = outstanding \ {sub}
  BY DEF SlotAnswered, Answered
<1>2. s \in Nat /\ sub.op = op /\ sub.slot = s
  BY <1>1 DEF Inv, TypeOK, TasksTypeOK, Sub
<1> HIDE DEF sub
<1>3. sub.op \in SlotOps /\ sub.op # "request"
  BY <1>2 DEF SlotOps
<1>4. terminations[s]
  BY <1>1, <1>2, <1>3 DEF Inv, MarksInv, Marked
<1>5. SubrequestRemove
  BY <1>4 DEF SlotAnswered, RemoveIf
<1>6. MarksInv' /\ terminations' \in Seq(BOOLEAN)
  BY <1>1, <1>2, <1>3, SlotUnmarked DEF SlotAnswered
<1>7. held' \subseteq Holdings
  <2>1. held' \subseteq held \cup {<<"slot", s>>}
    BY DEF SlotAnswered
  <2>2. <<"slot", s>> \in Holdings
    BY <1>2 DEF Holdings
  <2> QED
    BY <2>1, <2>2, HeldTyped
<1>8. answer' = answer \/ (InProgress("OFFER") /\ answer' \in Answer)
  <2>1. CASE op = "subtract slot"
    <3>1. ~(terminations[s] /\ op # "subtract slot")
      BY <2>1
    <3>2. answer' = answer
      BY <3>1 DEF SlotAnswered
    <3> QED
      BY <3>2
  <2>2. CASE op # "subtract slot"
    <3>1. InProgress("OFFER") /\ answer \in Answer
      BY <1>1, <1>2, <2>2 DEF Inv, PhaseInv, OfferOps, SlotOps
    <3>2. answer' = [answer EXCEPT !.audio = @ \cup {s}]
      BY <1>4, <2>2 DEF SlotAnswered
    <3> QED
      BY <1>2, <3>1, <3>2 DEF Answer
  <2> QED
    BY <2>1, <2>2
<1>9. /\ channels' \in Seq(Channel) /\ DOMAIN channels' = DOMAIN channels
      /\ busy' \subseteq busy
  BY DEF SlotAnswered, Inv, TypeOK, ChannelsTypeOK
<1>0. AnswerFrame
  BY DEF SlotAnswered
<1> QED
  BY <1>0, <1>1, <1>3, <1>5, <1>6, <1>7, <1>8, <1>9, AnswerInv

(* The answer about the topology keeps it: it has no mark.                 *)
LEMMA TopologyAnsweredInv ==
  ASSUME Inv, NEW sub \in outstanding, TopologyAnswered(sub)
  PROVE  Inv'
<1>1. outstanding' = outstanding \ {sub} /\ sub.op # "request"
  BY DEF TopologyAnswered, Answered
<1>2. SubrequestRemove /\ AnswerFrame
  BY DEF TopologyAnswered
<1>3. /\ channels' = channels /\ terminations' = terminations
      /\ answer' = answer /\ busy' = busy /\ held' = held
  BY DEF TopologyAnswered
<1>4. MarksInv'
  BY <1>1, <1>3, MarksKept
<1>5. channels \in Seq(Channel) /\ terminations \in Seq(BOOLEAN)
  BY DEF Inv, TypeOK, ChannelsTypeOK
<1> QED
  BY <1>1, <1>2, <1>3, <1>4, <1>5, HeldTyped, AnswerInv

(* mrcp_server_on_engine_channel_open keeps it: it has no mark.            *)
LEMMA EngineOpenedInv ==
  ASSUME Inv, NEW c, NEW success \in BOOLEAN, EngineOpened(c, success)
  PROVE  Inv'
<1> DEFINE sub == Sub("open", c, 0)
<1>1. sub \in outstanding /\ outstanding' = outstanding \ {sub}
  BY DEF EngineOpened, Answered
<1>2. c \in Nat /\ sub.op = "open"
  BY <1>1 DEF Inv, TypeOK, TasksTypeOK, Sub
<1> HIDE DEF sub
<1>3. SubrequestRemove /\ AnswerFrame
  BY DEF EngineOpened
<1>4. channels' = channels /\ terminations' = terminations /\ busy' = busy
  BY DEF EngineOpened
<1>5. MarksInv'
  BY <1>1, <1>4, MarksKept
<1>6. channels \in Seq(Channel) /\ terminations \in Seq(BOOLEAN)
  BY DEF Inv, TypeOK, ChannelsTypeOK
<1>7. InProgress("OFFER") /\ answer \in Answer
  BY <1>1, <1>2 DEF Inv, PhaseInv, OfferOps
<1>8. answer' \in Answer
  <2>1. answer' = [answer EXCEPT !.ok = @ /\ success]
    BY DEF EngineOpened
  <2>2. answer.ok \in BOOLEAN
    BY <1>7 DEF Answer
  <2>3. (answer.ok /\ success) \in BOOLEAN
    OBVIOUS
  <2> QED
    BY <1>7, <2>1, <2>3 DEF Answer
<1>9. held' \subseteq Holdings
  <2>1. held' \subseteq held \cup {<<"engine", c>>}
    BY DEF EngineOpened
  <2>2. <<"engine", c>> \in Holdings
    BY <1>2 DEF Holdings
  <2> QED
    BY <2>1, <2>2, HeldTyped
<1> QED
  BY <1>1, <1>2, <1>3, <1>4, <1>5, <1>6, <1>7, <1>8, <1>9, AnswerInv

(* mrcp_server_on_engine_channel_close keeps it: it has no mark.           *)
LEMMA EngineClosedInv ==
  ASSUME Inv, NEW c, EngineClosed(c)
  PROVE  Inv'
<1> DEFINE sub == Sub("close", c, 0)
<1>1. sub \in outstanding /\ outstanding' = outstanding \ {sub}
  BY DEF EngineClosed, Answered
<1>2. sub.op = "close"
  BY DEF Sub
<1> HIDE DEF sub
<1>3. SubrequestRemove /\ AnswerFrame
  BY DEF EngineClosed
<1>4. /\ channels' = channels /\ terminations' = terminations
      /\ answer' = answer /\ busy' = busy /\ held' \subseteq held
  BY DEF EngineClosed
<1>5. MarksInv'
  BY <1>1, <1>4, MarksKept
<1>6. channels \in Seq(Channel) /\ terminations \in Seq(BOOLEAN)
  BY DEF Inv, TypeOK, ChannelsTypeOK
<1> QED
  BY <1>1, <1>2, <1>3, <1>4, <1>5, <1>6, HeldTyped, AnswerInv

(* state_machine_on_deactivate keeps it: it has no mark.                   *)
LEMMA MachineDeactivatedInv ==
  ASSUME Inv, NEW c, MachineDeactivated(c)
  PROVE  Inv'
<1> DEFINE sub == Sub("stop", c, 0)
<1>1. sub \in outstanding /\ outstanding' = outstanding \ {sub}
  BY DEF MachineDeactivated, Answered
<1>2. sub.op = "stop"
  BY DEF Sub
<1> HIDE DEF sub
<1>3. SubrequestRemove /\ AnswerFrame
  BY DEF MachineDeactivated
<1>4. /\ channels' = channels /\ terminations' = terminations
      /\ answer' = answer /\ busy' \subseteq busy /\ held' = held
  BY DEF MachineDeactivated
<1>5. MarksInv'
  BY <1>1, <1>4, MarksKept
<1>6. channels \in Seq(Channel) /\ terminations \in Seq(BOOLEAN)
  BY DEF Inv, TypeOK, ChannelsTypeOK
<1> QED
  BY <1>1, <1>2, <1>3, <1>4, <1>5, <1>6, HeldTyped, AnswerInv

-----------------------------------------------------------------------------
(* The queue of requests.                                                  *)

(* What follows when a request ends and the next one, if any, is due.      *)
LEMMA PopRequestInv ==
  ASSUME Inv, PopRequest, in_progress # NULL,
         in_progress.type # "TERMINATE" \/ dispatching,
         DOMAIN channels' = DOMAIN channels, subrequest_count' = 0,
         \A sub \in outstanding' : sub.op \notin OfferOps \cup {"request"},
         state' = state, state = "NONE" => last_offer' = NULL
  PROVE  QueueTypeOK' /\ PhaseInv' /\ TargetsInv'
<1>1. QueueTypeOK /\ TargetsInv /\ PhaseInv
  BY DEF Inv, TypeOK
<1>2. /\ in_progress' \in Request \cup {NULL} /\ request_queue' \in Seq(Request)
      /\ (request_queue # <<>> => in_progress # NULL)'
  BY <1>1, NullAssumption DEF PopRequest, QueueTypeOK
<1>3. dispatching' = (request_queue # <<>>)
  BY DEF PopRequest
<1>4. QueueTypeOK'
  <2>1. dispatching' \in BOOLEAN
    BY <1>3, Zenon
  <2> QED
    BY <1>2, <2>1 DEF QueueTypeOK
<1>5. TargetsInv'
  BY <1>1 DEF PopRequest, TargetsInv, Targeted, QueueTypeOK
<1>6. in_progress' # NULL => dispatching'
  BY <1>3 DEF PopRequest
<1>7. \A type : ~InProgress(type)'
  BY <1>6, Zenon DEF InProgress
<1>8. (dispatching => in_progress # NULL)'
  <2>1. request_queue # <<>> => in_progress' # NULL
    BY <1>1, NullAssumption DEF PopRequest, QueueTypeOK
  <2> QED
    BY <1>3, <2>1, Zenon
<1>9. ~InProgress("TERMINATE")
  BY DEF InProgress
<1>10. state \notin {"DEACTIVATING", "TERMINATING"}
  BY <1>1, <1>9 DEF PhaseInv
<1>11. \A sub \in outstanding' : sub.op # "request" /\ sub.op \notin OfferOps
  OBVIOUS
<1>12. (\A sub \in outstanding :
          /\ sub.op = "request" => /\ InProgress("CONTROL")
                                   /\ sub.channel \in DOMAIN channels
          /\ sub.op \in OfferOps => InProgress("OFFER"))'
  BY <1>11
<1> QED
  BY <1>4, <1>5, <1>7, <1>8, <1>10, <1>12 DEF PhaseInv

-----------------------------------------------------------------------------
(* Control requests.                                                       *)

(* The types that a step does not touch, when it leaves their state alone. *)
LEMMA ControlTypes ==
  ASSUME Inv, ControlFrame, QueueTypeOK', busy' \subseteq DOMAIN channels,
         outstanding' \subseteq [op: Operations, channel: Nat, slot: Nat]
  PROVE  TypeOK'
<1> USE DEF ControlFrame, offerVars, clientVars
<1>1. TypeOK
  BY DEF Inv
<1>2. ChannelsTypeOK'
  BY <1>1 DEF TypeOK, ChannelsTypeOK
<1>3. AnswersTypeOK'
  BY <1>1 DEF TypeOK, AnswersTypeOK
<1>4. TasksTypeOK'
  <2>1. removed' \in BOOLEAN
    BY <1>1, Zenon DEF TypeOK, TasksTypeOK
  <2> QED
    BY <1>1, <2>1 DEF TypeOK, TasksTypeOK
<1>5. ClientTypeOK'
  BY <1>1, Zenon DEF TypeOK, ClientTypeOK
<1> QED
  BY <1>2, <1>3, <1>4, <1>5 DEF TypeOK

(* A control request is not counted.                                       *)
LEMMA ControlCount ==
  ASSUME Inv, UNCHANGED subrequest_count, NEW c,
         \/ outstanding' = outstanding \cup {Sub("request", c, 0)}
         \/ outstanding' = outstanding \ {Sub("request", c, 0)}
         \/ outstanding' = outstanding
  PROVE  CountInv'
<1>1. Sub("request", c, 0).op = "request"
  BY DEF Sub
<1>2. Counted' = Counted
  BY <1>1 DEF Counted
<1>3. IsFiniteSet(outstanding')
  BY FS_AddElement, FS_RemoveElement DEF Inv, CountInv
<1> QED
  BY <1>2, <1>3 DEF Inv, CountInv, CountExact

(* A control request leaves the marks alone.                               *)
LEMMA ControlMarks ==
  ASSUME Inv, ControlFrame, NEW sub, sub.op = "request",
         \/ outstanding' \subseteq outstanding
         \/ /\ \A other \in outstanding : other.op # "request"
            /\ outstanding' = outstanding \cup {sub}
  PROVE  MarksInv'
<1>1. channels' = channels /\ terminations' = terminations
  BY DEF ControlFrame
<1>2. "request" \notin ChannelOps \cup MediaOps \cup SlotOps
  BY DEF ChannelOps, MediaOps, SlotOps
<1>3. \A other \in outstanding' : Marked(other)'
  BY <1>1, <1>2 DEF Inv, MarksInv, Marked
<1>4. \A s, t \in outstanding' : SameMark(s, t) => s = t
  BY <1>2 DEF Inv, MarksInv, SameMark
<1> QED
  BY <1>3, <1>4 DEF MarksInv, SameMark

(* Nothing is counted while a control request is in progress or a request  *)
(* is to be dispatched.                                                    *)
LEMMA CountIsZero ==
  ASSUME Inv, dispatching \/ InProgress("CONTROL")
  PROVE  subrequest_count = 0
<1>1. ~InProgress("OFFER") /\ ~InProgress("TERMINATE")
  BY Zenon DEF InProgress
<1> QED
  BY <1>1 DEF Inv, PhaseInv

(* The response of an engine keeps the invariant.                          *)
LEMMA ControlAnsweredInv ==
  ASSUME Inv, NEW c, ControlAnswered(c)
  PROVE  Inv'
<1> DEFINE sub == Sub("request", c, 0)
<1>1. sub \in outstanding /\ outstanding' = outstanding \ {sub}
  BY DEF ControlAnswered, Answered
<1>2. sub.op = "request" /\ sub.channel = c
  BY DEF Sub
<1>3. CountInv'
  BY <1>1, ControlCount DEF ControlAnswered, ControlFrame
<1> HIDE DEF sub
<1>4. MarksInv'
  BY <1>1, <1>2, ControlMarks DEF ControlAnswered
<1>5. InProgress("CONTROL") /\ c \in DOMAIN channels
  BY <1>1, <1>2 DEF Inv, PhaseInv
<1>6. subrequest_count = 0
  BY <1>5, CountIsZero
<1>7. \A other \in outstanding' : other.op \notin OfferOps \cup {"request"}
  <2>1. ~InProgress("OFFER")
    BY <1>5, Zenon DEF InProgress
  <2>2. \A other \in outstanding : other.op \notin OfferOps
    BY <2>1 DEF Inv, PhaseInv
  <2>3. \A other \in outstanding' : other.op # "request"
    BY <1>1, <1>2 DEF Inv, MarksInv, SameMark
  <2> QED
    BY <1>1, <2>2, <2>3
<1>8. /\ PopRequest /\ channels' = channels /\ state' = state
      /\ last_offer' = last_offer /\ subrequest_count' = subrequest_count
      /\ ControlFrame
  BY DEF ControlAnswered, ControlFrame, offerVars
<1>9. in_progress # NULL /\ in_progress.type # "TERMINATE"
  BY <1>5 DEF InProgress
<1>10. state = "NONE" => last_offer = NULL
  BY DEF Inv, PhaseInv
<1>11. QueueTypeOK' /\ PhaseInv' /\ TargetsInv'
  BY <1>6, <1>7, <1>8, <1>9, <1>10, PopRequestInv
<1>12. TypeOK'
  <2>1. busy' \subseteq DOMAIN channels
    BY <1>5 DEF ControlAnswered, Inv, TypeOK, ChannelsTypeOK
  <2>2. outstanding' \subseteq [op: Operations, channel: Nat, slot: Nat]
    BY <1>1 DEF Inv, TypeOK, TasksTypeOK
  <2> QED
    BY <1>8, <1>11, <2>1, <2>2, ControlTypes
<1> QED
  BY <1>3, <1>4, <1>11, <1>12 DEF Inv

(* The event of an engine keeps the invariant.                             *)
LEMMA ControlCompletedInv ==
  ASSUME Inv, NEW c, ControlCompleted(c)
  PROVE  Inv'
<1> USE DEF ControlCompleted, ControlFrame, queueVars, offerVars
<1>1. CountInv'
  BY ControlCount
<1>2. MarksInv'
  BY DEF Inv, MarksInv, Marked, SameMark
<1>3. \A type : InProgress(type)' <=> InProgress(type)
  BY Zenon DEF InProgress
<1>4. PhaseInv'
  <2>1. PhaseInv
    BY DEF Inv
  <2>2. (dispatching => in_progress # NULL)'
    BY <2>1, Zenon DEF PhaseInv
  <2> QED
    BY <1>3, <2>1, <2>2 DEF PhaseInv
<1>5. TargetsInv'
  BY DEF Inv, TargetsInv, Targeted
<1>6. QueueTypeOK'
  BY Zenon DEF Inv, TypeOK, QueueTypeOK
<1>7. TypeOK'
  <2>1. busy' \subseteq DOMAIN channels
    BY DEF Inv, TypeOK, ChannelsTypeOK
  <2>2. outstanding' \subseteq [op: Operations, channel: Nat, slot: Nat]
    BY DEF Inv, TypeOK, TasksTypeOK
  <2> QED
    BY <1>6, <2>1, <2>2, ControlTypes
<1> QED
  BY <1>1, <1>2, <1>4, <1>5, <1>7 DEF Inv

(* mrcp_server_on_message_receive keeps the invariant.                     *)
LEMMA ControlProcessInv ==
  ASSUME Inv, ControlProcess
  PROVE  Inv'
<1> DEFINE c == in_progress.channel
           sub == Sub("request", c, 0)
<1>1. dispatching /\ in_progress # NULL /\ in_progress.type = "CONTROL"
  BY Zenon DEF ControlProcess, Dispatches, Inv, PhaseInv
<1>2. c \in DOMAIN channels /\ c \in Nat
  BY <1>1 DEF Inv, TargetsInv, Targeted, TypeOK, QueueTypeOK, Request
<1>3. subrequest_count = 0
  BY <1>1, CountIsZero
<1>4. \A other \in outstanding : other.op \notin OfferOps \cup {"request"}
  <2>1. ~InProgress("OFFER") /\ ~InProgress("CONTROL")
    BY <1>1, Zenon DEF InProgress
  <2> QED
    BY <2>1 DEF Inv, PhaseInv
<1>5. sub.op = "request" /\ sub.channel = c /\ sub.slot = 0
  BY DEF Sub
<1>6. ControlFrame /\ busy' = busy
  BY DEF ControlProcess
<1>7. sub \in [op: Operations, channel: Nat, slot: Nat]
  BY <1>2 DEF Sub, Operations
<1> HIDE DEF c, sub
<1>8. \/ PopRequest /\ outstanding' = outstanding
      \/ /\ dispatching' = FALSE
         /\ outstanding' = outstanding \/ outstanding' = outstanding \cup {sub}
         /\ UNCHANGED <<in_progress, request_queue>>
  BY DEF ControlProcess, c, sub
<1>9. outstanding' = outstanding \/ outstanding' = outstanding \cup {sub}
  BY <1>8
<1>10. CountInv'
  BY <1>6, <1>9, ControlCount DEF ControlFrame, sub
<1>11. MarksInv'
  BY <1>4, <1>5, <1>6, <1>9, ControlMarks
<1>12. QueueTypeOK' /\ PhaseInv' /\ TargetsInv'
  <2>1. CASE PopRequest /\ outstanding' = outstanding
    <3>1. /\ channels' = channels /\ state' = state
          /\ last_offer' = last_offer /\ subrequest_count' = subrequest_count
      BY <1>6 DEF ControlFrame, offerVars
    <3>2. state = "NONE" => last_offer = NULL
      BY DEF Inv, PhaseInv
    <3> QED
      BY <1>1, <1>3, <1>4, <2>1, <3>1, <3>2, PopRequestInv
  <2>2. CASE dispatching' = FALSE /\ UNCHANGED <<in_progress, request_queue>>
    <3> USE <1>6, <2>2 DEF ControlFrame, offerVars
    <3>1. InProgress("CONTROL")'
      BY <1>1, Zenon DEF InProgress
    <3>2. ~InProgress("OFFER")' /\ ~InProgress("TERMINATE")'
      BY <1>1 DEF InProgress
    <3>3. PhaseInv /\ ~InProgress("TERMINATE")
      BY <1>1, Zenon DEF Inv, InProgress
    <3>4. QueueTypeOK'
      <4>1. dispatching' \in BOOLEAN
        BY Zenon
      <4> QED
        BY <4>1 DEF Inv, TypeOK, QueueTypeOK
    <3>5. (\A other \in outstanding :
          /\ other.op = "request" => /\ InProgress("CONTROL")
                                     /\ other.channel \in DOMAIN channels
          /\ other.op \in OfferOps => InProgress("OFFER"))'
      BY <1>2, <1>4, <1>5, <1>9, <3>1 DEF OfferOps
    <3>6. (dispatching => in_progress # NULL)'
      BY <1>1, Zenon
    <3>7. (state \in {"DEACTIVATING", "TERMINATING"} <=> InProgress("TERMINATE"))'
      BY <3>2, <3>3 DEF PhaseInv
    <3>8. PhaseInv'
      BY <1>3, <3>2, <3>3, <3>5, <3>6, <3>7 DEF PhaseInv
    <3>9. TargetsInv'
      BY DEF Inv, TargetsInv, Targeted
    <3> QED
      BY <3>4, <3>8, <3>9
  <2> QED
    BY <1>8, <2>1, <2>2
<1>13. TypeOK'
  <2>1. busy' \subseteq DOMAIN channels
    BY <1>6 DEF Inv, TypeOK, ChannelsTypeOK
  <2>2. outstanding' \subseteq [op: Operations, channel: Nat, slot: Nat]
    BY <1>7, <1>9 DEF Inv, TypeOK, TasksTypeOK
  <2> QED
    BY <1>6, <1>12, <2>1, <2>2, ControlTypes
<1> QED
  BY <1>10, <1>11, <1>12, <1>13 DEF Inv

-----------------------------------------------------------------------------
(* The client.                                                             *)

(* A request that comes in changes nothing but the queue.                  *)
LEMMA SendInv ==
  ASSUME Inv, NEW request \in Request, Send(request), Targeted(request),
         terminated' \in BOOLEAN
  PROVE  Inv'
<1> USE DEF Send, offerVars
<1>1. ~dispatching /\ Enqueue(request)
  BY DEF Waiting
<1>2. \A type : InProgress(type) => InProgress(type)'
  BY <1>1, Zenon DEF InProgress, Enqueue
<1>3. \A type : InProgress(type)' => InProgress(type)
  BY <1>1, Zenon DEF InProgress, Enqueue
<1>4. CountInv'
  BY DEF Inv, CountInv, CountExact, Counted
<1>5. MarksInv'
  BY DEF Inv, MarksInv, Marked, SameMark
<1>6. in_progress' = in_progress \/ in_progress' = request
  BY <1>1 DEF Enqueue
<1>7. PhaseInv'
  <2>1. PhaseInv
    BY DEF Inv
  <2>2. (dispatching => in_progress # NULL)'
    BY <1>1, NullAssumption, Zenon DEF Enqueue
  <2> QED
    BY <1>2, <1>3, <2>1, <2>2 DEF PhaseInv
<1>8. QueueTypeOK'
  <2>1. dispatching' \in BOOLEAN
    BY <1>1, Zenon DEF Enqueue, Inv, TypeOK, QueueTypeOK
  <2>2. QueueTypeOK
    BY DEF Inv, TypeOK
  <2> QED
    BY <1>1, <2>1, <2>2, NullAssumption DEF Enqueue, QueueTypeOK
<1>9. TargetsInv'
  BY <1>1 DEF Inv, TargetsInv, Targeted, Enqueue, TypeOK, QueueTypeOK
<1>10. TypeOK'
  <2>1. TypeOK
    BY DEF Inv
  <2>2. ChannelsTypeOK'
    BY <2>1 DEF TypeOK, ChannelsTypeOK
  <2>3. AnswersTypeOK'
    BY <2>1 DEF TypeOK, AnswersTypeOK
  <2>4. TasksTypeOK'
    <3>1. removed' \in BOOLEAN
      BY <2>1, Zenon DEF TypeOK, TasksTypeOK
    <3> QED
      BY <2>1, <3>1 DEF TypeOK, TasksTypeOK
  <2>5. ClientTypeOK'
    BY <2>1 DEF TypeOK, ClientTypeOK
  <2> QED
    BY <1>8, <2>2, <2>3, <2>4, <2>5 DEF TypeOK
<1> QED
  BY <1>4, <1>5, <1>7, <1>9, <1>10 DEF Inv

(* What the client sends keeps the invariant.                              *)
LEMMA ClientInv ==
  ASSUME Inv, ClientStep
  PROVE  Inv'
<1>1. TypeOK
  BY DEF Inv
<1>2. CASE ClientOffer
  <2>1. PICK new \in Offers : Send([type |-> "OFFER", offer |-> new, channel |-> 0])
    BY <1>2 DEF ClientOffer
  <2> DEFINE request == [type |-> "OFFER", offer |-> new, channel |-> 0]
  <2>2. request \in Request /\ Targeted(request)
    BY DEF Request, Targeted
  <2>3. terminated' \in BOOLEAN
    BY <1>1, <1>2, Zenon DEF ClientOffer, TypeOK, ClientTypeOK
  <2> QED
    BY <2>1, <2>2, <2>3, SendInv
<1>3. CASE ClientControl
  <2>1. PICK c \in DOMAIN channels :
          Send([type |-> "CONTROL", offer |-> NULL, channel |-> c])
    BY <1>3 DEF ClientControl
  <2> DEFINE request == [type |-> "CONTROL", offer |-> NULL, channel |-> c]
  <2>2. c \in Nat
    BY <1>1 DEF TypeOK, ChannelsTypeOK
  <2>3. request \in Request /\ Targeted(request)
    BY <2>2 DEF Request, Targeted
  <2>4. terminated' \in BOOLEAN
    BY <1>1, <1>3, Zenon DEF ClientControl, TypeOK, ClientTypeOK
  <2> QED
    BY <2>1, <2>3, <2>4, SendInv
<1>4. CASE ClientTerminate
  <2> DEFINE request == [type |-> "TERMINATE", offer |-> NULL, channel |-> 0]
  <2>1. request \in Request /\ Targeted(request)
    BY DEF Request, Targeted
  <2>2. terminated' \in BOOLEAN
    BY <1>4, Zenon DEF ClientTerminate
  <2> QED
    BY <1>4, <2>1, <2>2, SendInv DEF ClientTerminate
<1> QED
  BY <1>2, <1>3, <1>4 DEF ClientStep

-----------------------------------------------------------------------------
(* Offers.                                                                 *)

(* No sub-request is outstanding when a request of another kind than       *)
(* CONTROL is dispatched.                                                  *)
LEMMA NothingOutstanding ==
  ASSUME Inv, dispatching
  PROVE  subrequest_count = 0 /\ outstanding = {}
<1>1. subrequest_count = 0
  BY CountIsZero
<1>2. \A sub \in outstanding : sub.op = "request"
  BY <1>1, NothingCounted
<1>3. ~InProgress("CONTROL")
  BY Zenon DEF InProgress
<1>4. \A sub \in outstanding : sub.op # "request"
  BY <1>3 DEF Inv, PhaseInv
<1> QED
  BY <1>1, <1>2, <1>4

(* When a handler goes on, what is left is at most a control request, and  *)
(* there is none since another request is in progress.                     *)
LEMMA NothingOutstandingToo ==
  ASSUME Inv, Continues
  PROVE  /\ subrequest_count = 0 /\ outstanding = {}
         /\ InProgress("OFFER") \/ InProgress("TERMINATE")
<1>1. subrequest_count = 0 /\ (InProgress("OFFER") \/ InProgress("TERMINATE"))
  BY Zenon DEF Continues, InProgress
<1>2. \A sub \in outstanding : sub.op = "request"
  BY <1>1, NothingCounted
<1>3. ~InProgress("CONTROL")
  BY <1>1 DEF InProgress
<1>4. \A sub \in outstanding : sub.op # "request"
  BY <1>3 DEF Inv, PhaseInv
<1> QED
  BY <1>1, <1>2, <1>4

(* The media of an offer.                                                  *)
LEMMA OfferTyped ==
  ASSUME NEW new \in Offers
  PROVE  new.control \in Seq(ControlMedia) /\ new.audio \in Nat
BY SessionAssumption

(* mrcp_server_channel_create: a new channel waits.                        *)
LEMMA NewChannelTyped ==
  ASSUME NEW new, NEW i \in Nat, NEW full
  PROVE  /\ NewChannel(new, i, full) \in Channel
         /\ NewChannel(new, i, full).waiting_for_channel
         /\ NewChannel(new, i, full).engine =>
               NewChannel(new, i, full).waiting_for_termination
<1> DEFINE plugged == new.control[i].resource = "known"
           engine == plugged /\ i \notin full
<1>1. plugged \in BOOLEAN /\ engine \in BOOLEAN
  OBVIOUS
<1>2. NewChannel(new, i, full) =
        [id |-> i, machine |-> plugged, engine |-> engine, is_open |-> FALSE,
         waiting_for_channel |-> TRUE, waiting_for_termination |-> engine]
  BY DEF NewChannel
<1> HIDE DEF plugged, engine
<1> QED
  BY <1>1, <1>2 DEF Channel

(* The order of new channels lists their media.                            *)
LEMMA IncreasingTyped ==
  ASSUME NEW numbers, IsFiniteSet(numbers), NEW order \in Increasing(numbers)
  PROVE  order \in Seq(numbers)
<1>1. order \in [1 .. Cardinality(numbers) -> numbers] /\ Cardinality(numbers) \in Nat
  BY FS_CardinalityType DEF Increasing
<1> QED
  BY <1>1

\* the channels there were, and those that the offer adds
OldChannels(new) ==
    [c \in DOMAIN channels |->
        IF c \in DOMAIN new.control
        THEN [channels[c] EXCEPT !.waiting_for_channel = TRUE]
        ELSE channels[c]]

AddedChannels(new, order, full) ==
    [j \in DOMAIN order |-> NewChannel(new, order[j], full)]

(* The channels after an offer: what it asks to modify waits, what it adds *)
(* does too, and an engine that was there is as it was.                    *)
LEMMA OfferedChannelsAre ==
  ASSUME Inv, NEW new \in Offers, NEW order \in Increasing(NewPositions(new)),
         NEW full, NEW offered, offered = OfferedChannels(new, order, full)
  PROVE  /\ offered \in Seq(Channel)
         /\ DOMAIN channels \subseteq DOMAIN offered
         /\ \A c \in DOMAIN channels \cap DOMAIN new.control :
               offered[c].waiting_for_channel
         /\ \A c \in DOMAIN offered \ DOMAIN channels :
               /\ offered[c].waiting_for_channel
               /\ offered[c].engine => offered[c].waiting_for_termination
         /\ order \in Seq(NewPositions(new))
         /\ DOMAIN offered = 1 .. Len(channels) + Len(order)
         /\ \A c \in DOMAIN channels : /\ offered[c].id = channels[c].id
                                       /\ offered[c].engine = channels[c].engine
                                       /\ offered[c].is_open = channels[c].is_open
         /\ \A j \in 1 .. Len(order) :
               offered[Len(channels) + j] = NewChannel(new, order[j], full)
<1> DEFINE old == OldChannels(new)
           added == AddedChannels(new, order, full)
<1>1. offered = old \o added
  BY DEF OfferedChannels, OldChannels, AddedChannels
<1>2. channels \in Seq(Channel)
  BY DEF Inv, TypeOK, ChannelsTypeOK
<1>3. /\ old \in Seq(Channel) /\ Len(old) = Len(channels)
      /\ \A c \in DOMAIN channels \cap DOMAIN new.control :
            old[c].waiting_for_channel
  <2>1. ASSUME NEW c \in DOMAIN channels
        PROVE  /\ old[c] \in Channel
               /\ c \in DOMAIN new.control => old[c].waiting_for_channel
    <3>1. channels[c] \in Channel
      BY <1>2
    <3> QED
      BY <3>1 DEF OldChannels, Channel
  <2>2. DOMAIN old = 1 .. Len(channels)
    BY <1>2 DEF OldChannels
  <2>3. old = [c \in 1 .. Len(channels) |-> old[c]]
    BY <1>2 DEF OldChannels
  <2> HIDE DEF old
  <2>4. old \in [1 .. Len(channels) -> Channel]
    <3>1. DOMAIN channels = 1 .. Len(channels)
      BY <1>2
    <3>2. \A c \in 1 .. Len(channels) : old[c] \in Channel
      BY <2>1, <3>1
    <3> QED
      BY <2>3, <3>2
  <2> QED
    BY <1>2, <2>1, <2>4
<1>4. order \in Seq(Nat) /\ order \in Seq(NewPositions(new))
  <2>1. NewPositions(new) \subseteq 1 .. Len(new.control)
    BY OfferTyped DEF NewPositions
  <2>2. Len(new.control) \in Nat
    BY OfferTyped
  <2>3. IsFiniteSet(NewPositions(new))
    <3>1. IsFiniteSet(1 .. Len(new.control))
      BY <2>2, FS_Interval
    <3> QED
      BY <2>1, <3>1, FS_Subset
  <2>4. order \in Seq(NewPositions(new))
    BY <2>3, IncreasingTyped
  <2> QED
    BY <2>1, <2>4
<1>5. /\ added \in Seq(Channel) /\ Len(added) = Len(order)
      /\ \A j \in 1 .. Len(order) :
            /\ added[j].waiting_for_channel
            /\ added[j].engine => added[j].waiting_for_termination
  <2>1. ASSUME NEW j \in 1 .. Len(order)
        PROVE  /\ added[j] \in Channel
               /\ added[j].waiting_for_channel
               /\ added[j].engine => added[j].waiting_for_termination
    <3>1. order[j] \in Nat /\ added[j] = NewChannel(new, order[j], full)
      BY <1>4 DEF AddedChannels
    <3> QED
      BY <3>1, NewChannelTyped
  <2>2. DOMAIN added = 1 .. Len(order) /\ Len(order) \in Nat
    BY <1>4 DEF AddedChannels
  <2>3. added = [j \in 1 .. Len(order) |-> added[j]]
    BY <1>4 DEF AddedChannels
  <2> HIDE DEF added
  <2>4. added \in [1 .. Len(order) -> Channel]
    BY <2>1, <2>2, <2>3
  <2> QED
    BY <2>1, <2>2, <2>4
<1>11. \A c \in DOMAIN channels : /\ old[c].id = channels[c].id
                                  /\ old[c].engine = channels[c].engine
                                  /\ old[c].is_open = channels[c].is_open
  <2> SUFFICES ASSUME NEW c \in DOMAIN channels
               PROVE  /\ old[c].id = channels[c].id
                      /\ old[c].engine = channels[c].engine
                      /\ old[c].is_open = channels[c].is_open
    OBVIOUS
  <2>1. channels[c] \in Channel
    BY <1>2
  <2> QED
    BY <2>1 DEF OldChannels, Channel
<1>12. \A j \in 1 .. Len(order) : added[j] = NewChannel(new, order[j], full)
  BY <1>4 DEF AddedChannels
<1> HIDE DEF old, added
<1>6. /\ offered \in Seq(Channel)
      /\ Len(offered) = Len(channels) + Len(order)
      /\ \A c \in 1 .. Len(channels) : offered[c] = old[c]
      /\ \A c \in 1 .. Len(channels) + Len(order) :
            c > Len(channels) => offered[c] = added[c - Len(channels)]
  <2>1. Len(channels) \in Nat /\ Len(order) \in Nat
    BY <1>2, <1>4
  <2>2. /\ offered \in Seq(Channel)
        /\ Len(offered) = Len(old) + Len(added)
        /\ \A c \in 1 .. Len(old) + Len(added) :
             offered[c] = IF c <= Len(old) THEN old[c] ELSE added[c - Len(old)]
    BY <1>1, <1>3, <1>5, ConcatProperties
  <2> QED
    BY <1>3, <1>5, <2>1, <2>2
<1>7. DOMAIN channels = 1 .. Len(channels) /\ Len(channels) \in Nat
  BY <1>2
<1>8. DOMAIN offered = 1 .. Len(channels) + Len(order) /\ Len(order) \in Nat
  BY <1>4, <1>6
<1>9. ASSUME NEW c \in DOMAIN offered \ DOMAIN channels
      PROVE  /\ offered[c].waiting_for_channel
             /\ offered[c].engine => offered[c].waiting_for_termination
  <2>1. c > Len(channels) /\ c - Len(channels) \in 1 .. Len(order)
    BY <1>7, <1>8
  <2>2. offered[c] = added[c - Len(channels)]
    BY <1>6, <1>8, <2>1
  <2> QED
    BY <1>5, <2>1, <2>2
<1>10. ASSUME NEW j \in 1 .. Len(order)
       PROVE  offered[Len(channels) + j] = NewChannel(new, order[j], full)
  <2>1. /\ Len(channels) + j \in 1 .. Len(channels) + Len(order)
        /\ Len(channels) + j > Len(channels)
        /\ (Len(channels) + j) - Len(channels) = j
    BY <1>7, <1>8
  <2>2. offered[Len(channels) + j] = added[j]
    BY <1>6, <2>1
  <2> QED
    BY <1>12, <2>2
<1>13. \A c \in DOMAIN channels : /\ offered[c].id = channels[c].id
                                  /\ offered[c].engine = channels[c].engine
                                  /\ offered[c].is_open = channels[c].is_open
  BY <1>6, <1>7, <1>11
<1>14. /\ offered \in Seq(Channel)
       /\ DOMAIN channels \subseteq DOMAIN offered
       /\ \A c \in DOMAIN channels \cap DOMAIN new.control :
             offered[c].waiting_for_channel
  BY <1>3, <1>6, <1>7, <1>8
<1> QED
  BY <1>4, <1>8, <1>9, <1>10, <1>13, <1>14

(* The types of it, and what waits.                                        *)
LEMMA OfferedChannelsTyped ==
  ASSUME Inv, NEW new \in Offers, NEW order \in Increasing(NewPositions(new)),
         NEW full, NEW offered, offered = OfferedChannels(new, order, full)
  PROVE  /\ offered \in Seq(Channel)
         /\ DOMAIN channels \subseteq DOMAIN offered
         /\ \A c \in DOMAIN channels \cap DOMAIN new.control :
               offered[c].waiting_for_channel
         /\ \A c \in DOMAIN offered \ DOMAIN channels :
               /\ offered[c].waiting_for_channel
               /\ offered[c].engine => offered[c].waiting_for_termination
BY OfferedChannelsAre

CountedSubs == [op: Operations \ {"request"}, channel: Nat, slot: Nat]

(* The parts of a batch are counted sub-requests.                          *)
LEMMA EachIsTyped ==
  ASSUME NEW op \in Operations \ {"request"}, NEW indices \in SUBSET Nat
  PROVE  Each(op, indices) \subseteq CountedSubs /\ EachSlot(op, indices) \subseteq CountedSubs
<1>1. \A i \in Nat : Sub(op, i, 0) \in CountedSubs /\ Sub(op, 0, i) \in CountedSubs
  BY DEF Sub, CountedSubs
<1> QED
  BY <1>1 DEF Each, EachSlot

(* So are the associations, one for each engine and slot.                  *)
LEMMA AssociationsTyped ==
  ASSUME NEW S \in SUBSET Nat, IsFiniteSet(S), NEW T \in SUBSET Nat, IsFiniteSet(T)
  PROVE  /\ IsFiniteSet({Sub("associate", c, s) : c \in S, s \in T})
         /\ {Sub("associate", c, s) : c \in S, s \in T} \subseteq CountedSubs
<1> DEFINE associations == {Sub("associate", c, s) : c \in S, s \in T}
           associate == [pair \in S \X T |-> Sub("associate", pair[1], pair[2])]
<1>1. ASSUME NEW sub \in associations
      PROVE  \E pair \in S \X T : associate[pair] = sub
  <2>1. PICK c \in S, s \in T : sub = Sub("associate", c, s)
    OBVIOUS
  <2>2. <<c, s>> \in S \X T /\ associate[<<c, s>>] = sub
    BY <2>1
  <2> QED
    BY <2>2
<1>2. ASSUME NEW pair \in S \X T
      PROVE  associate[pair] \in associations
  <2>1. pair[1] \in S /\ pair[2] \in T
    OBVIOUS
  <2> QED
    BY <2>1
<1>3. associate \in [S \X T -> associations]
  BY <1>2
<1>4. IsFiniteSet(S \X T)
  BY FS_Product
<1>5. associations \subseteq CountedSubs
  <2>1. \A c, s \in Nat : Sub("associate", c, s) \in CountedSubs
    BY DEF Sub, CountedSubs, Operations
  <2> QED
    BY <2>1
<1> HIDE DEF associations, associate
<1>6. associate \in Surjection(S \X T, associations)
  BY <1>1, <1>3 DEF Surjection
<1> QED
  BY <1>4, <1>5, <1>6, FS_Surjection DEF associations

(* The batch that an offer sends.                                          *)
LEMMA OfferBatch ==
  ASSUME Inv, NEW new \in Offers, NEW offered \in Seq(Channel)
  PROVE  /\ IsFiniteSet(OfferRequests(new, offered))
         /\ OfferRequests(new, offered)
              \subseteq CountedSubs
<1> DEFINE old == DOMAIN channels \cap DOMAIN new.control
           added == DOMAIN offered \ DOMAIN channels
           slots == 1 .. new.audio
<1>1. new.audio \in Nat /\ new.control \in Seq(ControlMedia)
  BY OfferTyped
<1>2. channels \in Seq(Channel) /\ terminations \in Seq(BOOLEAN)
  BY DEF Inv, TypeOK, ChannelsTypeOK
<1>3. IsFiniteSet(DOMAIN offered) /\ DOMAIN offered \subseteq Nat
  <2>1. DOMAIN offered = 1 .. Len(offered) /\ Len(offered) \in Nat
    OBVIOUS
  <2> QED
    BY <2>1, FS_Interval
<1>4. IsFiniteSet(DOMAIN channels) /\ DOMAIN channels \subseteq Nat
  <2>1. DOMAIN channels = 1 .. Len(channels) /\ Len(channels) \in Nat
    BY <1>2
  <2> QED
    BY <2>1, FS_Interval
<1>5. IsFiniteSet(slots) /\ slots \subseteq Nat
  <2>1. IsFiniteSet(1 .. new.audio)
    BY <1>1, FS_Interval
  <2> QED
    BY <1>1, <2>1
<1>6. IsFiniteSet(old) /\ old \subseteq Nat
  BY <1>4, FS_Subset
<1>7. IsFiniteSet(added) /\ added \subseteq Nat
  BY <1>3, FS_Subset
<1>8. WithEngine(offered) \subseteq DOMAIN offered
  BY DEF WithEngine
<1> HIDE DEF old, added, slots
<1>9. /\ IsFiniteSet(ControlRequests(new, offered))
      /\ ControlRequests(new, offered)
           \subseteq CountedSubs
  <2>1. ControlRequests(new, offered) =
          Each("modify channel", old) \cup Each("add channel", added)
            \cup Each("add media", added \cap WithEngine(offered))
    BY DEF ControlRequests, old, added
  <2>2. IsFiniteSet(added \cap WithEngine(offered))
    BY <1>7, FS_Subset
  <2>3. /\ IsFiniteSet(Each("modify channel", old))
        /\ IsFiniteSet(Each("add channel", added))
        /\ IsFiniteSet(Each("add media", added \cap WithEngine(offered)))
    BY <1>6, <1>7, <2>2, EachIsFinite
  <2>4. IsFiniteSet(ControlRequests(new, offered))
    BY <2>1, <2>3, FS_Union
  <2>5. /\ Each("modify channel", old) \subseteq CountedSubs
        /\ Each("add channel", added) \subseteq CountedSubs
        /\ Each("add media", added \cap WithEngine(offered)) \subseteq CountedSubs
    BY <1>6, <1>7, EachIsTyped DEF Operations
  <2> QED
    BY <2>1, <2>4, <2>5
<1>10. /\ IsFiniteSet(AudioRequests(new, offered))
       /\ AudioRequests(new, offered)
            \subseteq CountedSubs
  <2> DEFINE associations == {Sub("associate", c, s) : c \in WithEngine(offered), s \in slots}
             modified == slots \cap DOMAIN terminations
             new_slots == slots \ DOMAIN terminations
  <2>1. AudioRequests(new, offered) =
          EachSlot("modify slot", modified) \cup EachSlot("add slot", new_slots)
            \cup associations
    BY DEF AudioRequests, slots
  <2>2. /\ IsFiniteSet(modified) /\ modified \subseteq Nat
        /\ IsFiniteSet(new_slots) /\ new_slots \subseteq Nat
    BY <1>5, FS_Subset
  <2>3. /\ IsFiniteSet(EachSlot("modify slot", modified))
        /\ IsFiniteSet(EachSlot("add slot", new_slots))
    BY <2>2, EachIsFinite
  <2>4. IsFiniteSet(WithEngine(offered)) /\ WithEngine(offered) \subseteq Nat
    BY <1>3, <1>8, FS_Subset
  <2>5. IsFiniteSet(associations) /\ associations \subseteq CountedSubs
    BY <1>5, <2>4, AssociationsTyped
  <2>6. /\ EachSlot("modify slot", modified) \subseteq CountedSubs
        /\ EachSlot("add slot", new_slots) \subseteq CountedSubs
    BY <2>2, EachIsTyped DEF Operations
  <2> HIDE DEF associations, modified, new_slots
  <2>7. IsFiniteSet(AudioRequests(new, offered))
    BY <2>1, <2>3, <2>5, FS_Union
  <2> QED
    BY <2>1, <2>5, <2>6, <2>7
<1>11. /\ IsFiniteSet({Sub("reset", 0, 0), Sub("apply", 0, 0)})
       /\ {Sub("reset", 0, 0), Sub("apply", 0, 0)}
            \subseteq CountedSubs
  <2>1. IsFiniteSet({Sub("reset", 0, 0)} \cup {Sub("apply", 0, 0)})
    BY FS_Singleton, FS_Union
  <2>2. {Sub("reset", 0, 0), Sub("apply", 0, 0)} =
          {Sub("reset", 0, 0)} \cup {Sub("apply", 0, 0)}
    OBVIOUS
  <2> QED
    BY <2>1, <2>2 DEF Sub, Operations, CountedSubs
<1> QED
  BY <1>9, <1>10, <1>11, FS_Union DEF OfferRequests

(* The media slots after an offer: all that it describes wait.             *)
LEMMA MoreSlotsTyped ==
  ASSUME Inv, NEW count \in Nat
  PROVE  /\ MoreSlots(count) \in Seq(BOOLEAN)
         /\ \A s \in 1 .. count : s \in DOMAIN MoreSlots(count) /\ MoreSlots(count)[s]
<1>1. terminations \in Seq(BOOLEAN)
  BY DEF Inv, TypeOK, ChannelsTypeOK
<1> DEFINE length == IF count > Len(terminations) THEN count ELSE Len(terminations)
           slots == DOMAIN terminations \cup 1 .. count
<1>2. slots = 1 .. length /\ length \in Nat
  BY <1>1
<1>3. ASSUME NEW s \in slots
      PROVE  /\ MoreSlots(count)[s] \in BOOLEAN
             /\ s \in 1 .. count => MoreSlots(count)[s]
  <2>1. MoreSlots(count)[s] = (s <= count \/ terminations[s])
    BY DEF MoreSlots
  <2>2. (s <= count \/ terminations[s]) \in BOOLEAN
    OBVIOUS
  <2>3. s \in 1 .. count => s <= count
    OBVIOUS
  <2> QED
    BY <2>1, <2>2, <2>3
<1>4. MoreSlots(count) = [s \in slots |-> MoreSlots(count)[s]]
  BY DEF MoreSlots
<1> HIDE DEF slots
<1>5. MoreSlots(count) \in [slots -> BOOLEAN]
  BY <1>3, <1>4
<1>6. MoreSlots(count) \in Seq(BOOLEAN)
  BY <1>2, <1>5
<1>7. ASSUME NEW s \in 1 .. count
      PROVE  s \in DOMAIN MoreSlots(count) /\ MoreSlots(count)[s]
  BY <1>3, <1>5 DEF slots
<1> QED
  BY <1>6, <1>7

(* mrcp_session_answer_create makes an answer.                             *)
LEMMA EmptyAnswerTyped ==
  ASSUME NEW new \in Offers, NEW ok \in BOOLEAN
  PROVE  EmptyAnswer(new, ok) \in Answer
<1>1. new.control \in Seq(ControlMedia)
  BY OfferTyped
<1>2. [i \in DOMAIN new.control |-> "absent"] \in Seq({"absent", "granted", "refused"})
  BY <1>1
<1> QED
  BY <1>2 DEF EmptyAnswer, Answer

-----------------------------------------------------------------------------
(* The steps of the server task.                                           *)

(* The request in progress stays.                                          *)
LEMMA RequestStays ==
  ASSUME Inv, UNCHANGED <<in_progress, request_queue>>,
         dispatching' = dispatching \/ dispatching' = FALSE,
         DOMAIN channels \subseteq DOMAIN channels'
  PROVE  QueueTypeOK' /\ TargetsInv'
<1>1. dispatching' \in BOOLEAN
  BY Zenon DEF Inv, TypeOK, QueueTypeOK
<1>2. QueueTypeOK'
  BY <1>1 DEF Inv, TypeOK, QueueTypeOK
<1>3. TargetsInv'
  BY DEF Inv, TargetsInv, Targeted
<1> QED
  BY <1>2, <1>3

(* A batch that is sent when nothing is outstanding.                       *)
LEMMA BatchSent ==
  ASSUME Inv, subrequest_count = 0, outstanding = {}, NEW next, NEW requests,
         IsFiniteSet(requests), requests \subseteq CountedSubs,
         StateSet(next, requests)
  PROVE  /\ outstanding' = requests /\ state' = next
         /\ CountInv' /\ subrequest_count' \in Nat
         /\ outstanding' \subseteq [op: Operations, channel: Nat, slot: Nat]
         /\ \A sub \in outstanding' : sub.op # "request"
<1>1. \A sub \in requests : sub.op # "request"
  BY DEF CountedSubs
<1>2. CountInv' /\ subrequest_count' \in Nat
  BY <1>1, BatchIsCounted
<1>3. outstanding' = requests /\ state' = next
  BY DEF StateSet
<1>4. requests \subseteq [op: Operations, channel: Nat, slot: Nat]
  BY DEF CountedSubs
<1> QED
  BY <1>1, <1>2, <1>3, <1>4

(* An offer is in progress after the step.                                 *)
LEMMA OfferPhase ==
  ASSUME in_progress' # NULL, ~dispatching', in_progress'.type = "OFFER",
         \A sub \in outstanding' : sub.op # "request",
         answer' \in Answer, offer' \in Offers,
         state' \in {"GENERATING_ANSWER", "INITIALIZING"}
  PROVE  PhaseInv'
<1>1. InProgress("OFFER")' /\ ~InProgress("TERMINATE")'
  BY DEF InProgress
<1> QED
  BY <1>1 DEF PhaseInv

(* The end of the session is in progress after the step.                   *)
LEMMA TerminatePhase ==
  ASSUME in_progress' # NULL, ~dispatching', in_progress'.type = "TERMINATE",
         \A sub \in outstanding' : sub.op # "request" /\ sub.op \notin OfferOps,
         state' \in {"DEACTIVATING", "TERMINATING"}
  PROVE  PhaseInv'
<1>1. InProgress("TERMINATE")' /\ ~InProgress("OFFER")'
  BY DEF InProgress
<1> QED
  BY <1>1 DEF PhaseInv

(* An offer that repeats the last one keeps the invariant.                 *)
LEMMA OfferRepeatedInv ==
  ASSUME Inv, OfferRepeated
  PROVE  Inv'
<1> USE DEF OfferRepeated, clientVars
<1>1. dispatching /\ in_progress # NULL /\ in_progress.type = "OFFER"
  BY Zenon DEF Dispatches, Inv, PhaseInv
<1>2. in_progress.offer \in Offers
  BY <1>1 DEF Inv, TargetsInv, Targeted
<1>3. last_offer \in Offers /\ last_offer # NULL
  BY <1>2, SessionAssumption
<1>4. offer' \in Offers /\ answer' \in Answer
  BY <1>3 DEF Inv, TypeOK, AnswersTypeOK
<1>5. ~InProgress("TERMINATE")
  BY <1>1, Zenon DEF InProgress
<1>6. state' \in {"GENERATING_ANSWER", "INITIALIZING"}
  BY <1>3, <1>5 DEF Inv, PhaseInv, TypeOK, TasksTypeOK
<1>7. outstanding = {}
  BY <1>1, NothingOutstanding
<1>8. PhaseInv'
  BY <1>1, <1>4, <1>6, <1>7, OfferPhase
<1>9. QueueTypeOK' /\ TargetsInv'
  <2>1. dispatching' = FALSE /\ UNCHANGED <<in_progress, request_queue>> /\ channels' = channels
    OBVIOUS
  <2> QED
    BY <2>1, RequestStays
<1>10. CountInv'
  BY DEF Inv, CountInv, CountExact, Counted
<1>11. MarksInv'
  BY <1>7 DEF MarksInv
<1>12. TypeOK'
  <2>1. TypeOK
    BY DEF Inv
  <2>2. ChannelsTypeOK'
    BY <2>1 DEF TypeOK, ChannelsTypeOK
  <2>3. AnswersTypeOK'
    BY <1>4, <2>1 DEF TypeOK, AnswersTypeOK
  <2>4. TasksTypeOK'
    <3>1. removed' \in BOOLEAN
      BY <2>1, Zenon DEF TypeOK, TasksTypeOK
    <3> QED
      BY <2>1, <3>1 DEF TypeOK, TasksTypeOK
  <2>5. ClientTypeOK'
    BY <2>1, Zenon DEF TypeOK, ClientTypeOK
  <2> QED
    BY <1>9, <2>2, <2>3, <2>4, <2>5 DEF TypeOK
<1> QED
  BY <1>8, <1>9, <1>10, <1>11, <1>12 DEF Inv

(* No two sub-requests of an offer share a mark, and each is sent with its *)
(* mark set.                                                               *)
LEMMA OfferOnes ==
  ASSUME NEW new, NEW offered, NEW sub \in OfferRequests(new, offered)
  PROVE  /\ sub.op \in ChannelOps =>
              /\ sub.slot = 0
              /\ sub.op = IF sub.channel \in DOMAIN channels
                          THEN "modify channel" ELSE "add channel"
              /\ sub.channel \in (DOMAIN channels \cap DOMAIN new.control)
                                   \cup (DOMAIN offered \ DOMAIN channels)
         /\ sub.op \in MediaOps =>
              /\ sub.slot = 0 /\ sub.op = "add media"
              /\ sub.channel \in (DOMAIN offered \ DOMAIN channels)
                                   \cap WithEngine(offered)
         /\ sub.op \in SlotOps =>
              /\ sub.channel = 0
              /\ sub.op = IF sub.slot \in DOMAIN terminations
                          THEN "modify slot" ELSE "add slot"
              /\ sub.slot \in 1 .. new.audio
<1> DEFINE old == DOMAIN channels \cap DOMAIN new.control
           added == DOMAIN offered \ DOMAIN channels
           slots == 1 .. new.audio
           associations == {Sub("associate", c, s) : c \in WithEngine(offered), s \in slots}
<1> USE DEF ChannelOps, MediaOps, SlotOps
<1>1. \/ sub \in {Sub("reset", 0, 0), Sub("apply", 0, 0)}
      \/ sub \in ControlRequests(new, offered)
      \/ sub \in AudioRequests(new, offered)
  BY DEF OfferRequests
<1>2. CASE sub \in {Sub("reset", 0, 0), Sub("apply", 0, 0)}
  <2>1. sub.op \in {"reset", "apply"}
    BY <1>2 DEF Sub
  <2> QED
    BY <2>1
<1>3. CASE sub \in ControlRequests(new, offered)
  <2>1. \/ sub \in Each("modify channel", old)
        \/ sub \in Each("add channel", added)
        \/ sub \in Each("add media", added \cap WithEngine(offered))
    BY <1>3 DEF ControlRequests
  <2>2. CASE sub \in Each("modify channel", old)
    <3>1. PICK c \in old : sub = Sub("modify channel", c, 0)
      BY <2>2 DEF Each
    <3>2. sub.op = "modify channel" /\ sub.channel = c /\ sub.slot = 0
      BY <3>1 DEF Sub
    <3> QED
      BY <3>2
  <2>3. CASE sub \in Each("add channel", added)
    <3>1. PICK c \in added : sub = Sub("add channel", c, 0)
      BY <2>3 DEF Each
    <3>2. sub.op = "add channel" /\ sub.channel = c /\ sub.slot = 0
      BY <3>1 DEF Sub
    <3> QED
      BY <3>2
  <2>4. CASE sub \in Each("add media", added \cap WithEngine(offered))
    <3>1. PICK c \in added \cap WithEngine(offered) : sub = Sub("add media", c, 0)
      BY <2>4 DEF Each
    <3>2. sub.op = "add media" /\ sub.channel = c /\ sub.slot = 0
      BY <3>1 DEF Sub
    <3> QED
      BY <3>2
  <2> QED
    BY <2>1, <2>2, <2>3, <2>4
<1>4. CASE sub \in AudioRequests(new, offered)
  <2>1. \/ sub \in EachSlot("modify slot", slots \cap DOMAIN terminations)
        \/ sub \in EachSlot("add slot", slots \ DOMAIN terminations)
        \/ sub \in associations
    <3>1. AudioRequests(new, offered) =
            EachSlot("modify slot", slots \cap DOMAIN terminations)
              \cup EachSlot("add slot", slots \ DOMAIN terminations)
              \cup associations
      BY DEF AudioRequests
    <3> HIDE DEF slots, associations
    <3> QED
      BY <1>4, <3>1
  <2>2. CASE sub \in EachSlot("modify slot", slots \cap DOMAIN terminations)
    <3>1. PICK s \in slots \cap DOMAIN terminations : sub = Sub("modify slot", 0, s)
      BY <2>2 DEF EachSlot
    <3>2. sub.op = "modify slot" /\ sub.channel = 0 /\ sub.slot = s
      BY <3>1 DEF Sub
    <3> QED
      BY <3>2
  <2>3. CASE sub \in EachSlot("add slot", slots \ DOMAIN terminations)
    <3>1. PICK s \in slots \ DOMAIN terminations : sub = Sub("add slot", 0, s)
      BY <2>3 DEF EachSlot
    <3>2. sub.op = "add slot" /\ sub.channel = 0 /\ sub.slot = s
      BY <3>1 DEF Sub
    <3> QED
      BY <3>2
  <2>4. CASE sub \in associations
    <3>1. PICK c \in WithEngine(offered), s \in slots : sub = Sub("associate", c, s)
      BY <2>4
    <3>2. sub.op = "associate"
      BY <3>1 DEF Sub
    <3> QED
      BY <3>2
  <2> HIDE DEF associations
  <2> QED
    BY <2>1, <2>2, <2>3, <2>4
<1> QED
  BY <1>1, <1>2, <1>3, <1>4

\* what an offer does: the order of its new media, the plugins that are full
Taken(new, order, full, ok) ==
    /\ channels' = OfferedChannels(new, order, full)
    /\ answer' = EmptyAnswer(new, ok)
    /\ StateSet("GENERATING_ANSWER", OfferRequests(new, channels'))
    /\ ok => \A i \in DOMAIN new.control :
                i > Len(channels) => new.control[i].resource = "known" /\ i \notin full
    /\ ~EngineMayBeFull => full = {}

(* mrcp_server_session_offer_process, with its choices named.              *)
LEMMA OfferTaken ==
  ASSUME OfferProcess
  PROVE  \E order \in Increasing(NewPositions(in_progress.offer)),
            full \in SUBSET NewPositions(in_progress.offer), ok \in BOOLEAN :
              Taken(in_progress.offer, order, full, ok)
<1> DEFINE new == in_progress.offer
<1>1. PICK order \in Increasing(NewPositions(new)),
           full \in IF EngineMayBeFull THEN SUBSET NewPositions(new) ELSE {{}} :
        LET offered == OfferedChannels(new, order, full)
            failed == \E i \in DOMAIN new.control :
                         /\ i > Len(channels)
                         /\ \/ new.control[i].resource # "known"
                            \/ i \in full
        IN /\ channels' = offered
           /\ answer' = EmptyAnswer(new, ~failed)
           /\ StateSet("GENERATING_ANSWER", OfferRequests(new, offered))
  BY DEF OfferProcess
<1> DEFINE failed == \E i \in DOMAIN new.control :
                        /\ i > Len(channels)
                        /\ new.control[i].resource # "known" \/ i \in full
<1>2. (~failed) \in BOOLEAN
  OBVIOUS
<1>3. answer' = EmptyAnswer(new, ~failed)
  BY <1>1
<1>4. ~failed => \A i \in DOMAIN new.control :
                   i > Len(channels) => new.control[i].resource = "known" /\ i \notin full
  OBVIOUS
<1>5. full \in SUBSET NewPositions(new) /\ (~EngineMayBeFull => full = {})
  OBVIOUS
<1> HIDE DEF failed
<1>6. Taken(new, order, full, ~failed)
  BY <1>1, <1>3, <1>4, <1>5 DEF Taken
<1> QED
  BY <1>2, <1>5, <1>6

(* mrcp_server_session_offer_process keeps the invariant.                  *)
LEMMA OfferProcessInv ==
  ASSUME Inv, OfferProcess
  PROVE  Inv'
<1> DEFINE new == in_progress.offer
<1>1. dispatching /\ in_progress # NULL /\ in_progress.type = "OFFER"
  BY Zenon DEF OfferProcess, Dispatches, Inv, PhaseInv
<1>2. new \in Offers
  BY <1>1 DEF Inv, TargetsInv, Targeted
<1>3. subrequest_count = 0 /\ outstanding = {}
  BY <1>1, NothingOutstanding
<1>4. /\ dispatching' = FALSE /\ offer' = new /\ terminations' = MoreSlots(new.audio)
      /\ UNCHANGED <<in_progress, request_queue, last_offer, last_answer, removed,
                     busy, held, clientVars>>
  BY DEF OfferProcess
<1>5. PICK order \in Increasing(NewPositions(new)),
           full \in SUBSET NewPositions(new), ok \in BOOLEAN :
        /\ channels' = OfferedChannels(new, order, full)
        /\ answer' = EmptyAnswer(new, ok)
        /\ StateSet("GENERATING_ANSWER", OfferRequests(new, channels'))
  BY OfferTaken DEF Taken
<1> HIDE DEF new
<1>6. /\ channels' \in Seq(Channel)
      /\ DOMAIN channels \subseteq DOMAIN channels'
      /\ \A c \in DOMAIN channels \cap DOMAIN new.control :
            channels'[c].waiting_for_channel
      /\ \A c \in DOMAIN channels' \ DOMAIN channels :
            /\ channels'[c].waiting_for_channel
            /\ channels'[c].engine => channels'[c].waiting_for_termination
  BY <1>2, <1>5, OfferedChannelsTyped
<1>7. /\ IsFiniteSet(OfferRequests(new, channels'))
      /\ OfferRequests(new, channels') \subseteq CountedSubs
  BY <1>2, <1>6, OfferBatch
<1>8. /\ outstanding' = OfferRequests(new, channels') /\ state' = "GENERATING_ANSWER"
      /\ CountInv' /\ subrequest_count' \in Nat
      /\ outstanding' \subseteq [op: Operations, channel: Nat, slot: Nat]
      /\ \A sub \in outstanding' : sub.op # "request"
  BY <1>3, <1>5, <1>7, BatchSent
<1>9. new.audio \in Nat
  BY <1>2, OfferTyped
<1>10. /\ terminations' \in Seq(BOOLEAN)
       /\ \A s \in 1 .. new.audio : s \in DOMAIN terminations' /\ terminations'[s]
  BY <1>4, <1>9, MoreSlotsTyped
<1>11. MarksInv'
  <2>1. ASSUME NEW sub \in outstanding'
        PROVE  Marked(sub)'
    <3>1. ASSUME sub.op \in ChannelOps
          PROVE  /\ sub.channel \in DOMAIN channels'
                 /\ channels'[sub.channel].waiting_for_channel
      <4>1. sub.channel \in (DOMAIN channels \cap DOMAIN new.control)
                              \cup (DOMAIN channels' \ DOMAIN channels)
        BY <1>8, <3>1, OfferOnes
      <4> QED
        BY <1>6, <4>1
    <3>2. ASSUME sub.op \in MediaOps
          PROVE  /\ sub.channel \in DOMAIN channels'
                 /\ channels'[sub.channel].waiting_for_termination
      <4>1. sub.channel \in (DOMAIN channels' \ DOMAIN channels) \cap WithEngine(channels')
        BY <1>8, <3>2, OfferOnes
      <4> QED
        BY <1>6, <4>1 DEF WithEngine
    <3>3. ASSUME sub.op \in SlotOps
          PROVE  sub.slot \in DOMAIN terminations' /\ terminations'[sub.slot]
      <4>1. sub.slot \in 1 .. new.audio
        BY <1>8, <3>3, OfferOnes
      <4> QED
        BY <1>10, <4>1
    <3> QED
      BY <3>1, <3>2, <3>3 DEF Marked
  <2>2. ASSUME NEW s \in outstanding', NEW t \in outstanding', SameMark(s, t)
        PROVE  s = t
    <3>1. ASSUME s.op = t.op, s.channel = t.channel, s.slot = t.slot
          PROVE  s = t
      BY <1>8, <3>1
    <3>2. CASE s.op \in ChannelOps /\ t.op \in ChannelOps /\ s.channel = t.channel
      BY <1>8, <3>1, <3>2, OfferOnes
    <3>3. CASE s.op \in MediaOps /\ t.op \in MediaOps /\ s.channel = t.channel
      BY <1>8, <3>1, <3>3, OfferOnes
    <3>4. CASE s.op \in SlotOps /\ t.op \in SlotOps /\ s.slot = t.slot
      BY <1>8, <3>1, <3>4, OfferOnes
    <3>5. s.op # "request"
      BY <1>8
    <3> QED
      BY <2>2, <3>2, <3>3, <3>4, <3>5 DEF SameMark
  <2> QED
    BY <2>1, <2>2 DEF MarksInv, SameMark
<1>12. answer' \in Answer /\ offer' \in Offers
  BY <1>2, <1>4, <1>5, EmptyAnswerTyped
<1>13. PhaseInv'
  BY <1>1, <1>4, <1>8, <1>12, OfferPhase
<1>14. QueueTypeOK' /\ TargetsInv'
  BY <1>4, <1>6, RequestStays
<1>15. TypeOK'
  <2>1. TypeOK
    BY DEF Inv
  <2>2. ChannelsTypeOK'
    BY <1>4, <1>6, <1>10, <2>1 DEF TypeOK, ChannelsTypeOK
  <2>3. AnswersTypeOK'
    BY <1>4, <1>12, <2>1 DEF TypeOK, AnswersTypeOK
  <2>4. TasksTypeOK'
    <3>1. removed' \in BOOLEAN
      BY <1>4, <2>1, Zenon DEF TypeOK, TasksTypeOK
    <3>2. held' = held
      BY <1>4
    <3> QED
      BY <1>8, <2>1, <3>1, <3>2 DEF TypeOK, TasksTypeOK
  <2>5. ClientTypeOK'
    BY <1>4, <2>1, Zenon DEF TypeOK, ClientTypeOK, clientVars
  <2> QED
    BY <1>14, <2>2, <2>3, <2>4, <2>5 DEF TypeOK
<1> QED
  BY <1>8, <1>11, <1>13, <1>14, <1>15 DEF Inv

(* Sub-requests that no mark is for.                                       *)
LEMMA NoMarks ==
  ASSUME \A sub \in outstanding' :
            sub.op \notin ChannelOps \cup MediaOps \cup SlotOps \cup {"request"}
  PROVE  MarksInv'
BY DEF MarksInv, Marked, SameMark

(* The operation of each sub-request of a part of a batch.                 *)
LEMMA EachOp ==
  ASSUME NEW op, NEW indices
  PROVE  /\ \A sub \in Each(op, indices) :
               sub.op = op /\ sub.channel \in indices /\ sub.slot = 0
         /\ \A sub \in EachSlot(op, indices) :
               sub.op = op /\ sub.slot \in indices /\ sub.channel = 0
BY DEF Each, EachSlot, Sub

(* The channels are numbered.                                              *)
LEMMA ChannelsNumbered ==
  ASSUME Inv
  PROVE  /\ IsFiniteSet(DOMAIN channels) /\ DOMAIN channels \subseteq Nat
         /\ IsFiniteSet(DOMAIN terminations) /\ DOMAIN terminations \subseteq Nat
<1>1. channels \in Seq(Channel) /\ terminations \in Seq(BOOLEAN)
  BY DEF Inv, TypeOK, ChannelsTypeOK
<1>2. DOMAIN channels = 1 .. Len(channels) /\ Len(channels) \in Nat
  BY <1>1
<1>3. DOMAIN terminations = 1 .. Len(terminations) /\ Len(terminations) \in Nat
  BY <1>1
<1>4. \A n \in Nat : IsFiniteSet(1 .. n) /\ 1 .. n \subseteq Nat
  BY FS_Interval
<1> QED
  BY <1>2, <1>3, <1>4

(* A step of the server task that sends a batch and leaves the answer to   *)
(* its client alone.                                                       *)
LEMMA BatchTypes ==
  ASSUME Inv, QueueTypeOK', channels' \in Seq(Channel),
         DOMAIN channels' = DOMAIN channels, terminations' \in Seq(BOOLEAN),
         state' \in {"INITIALIZING", "DEACTIVATING", "TERMINATING"},
         subrequest_count' \in Nat,
         outstanding' \subseteq [op: Operations, channel: Nat, slot: Nat],
         UNCHANGED <<offerVars, removed, busy, held, clientVars>>
  PROVE  TypeOK'
<1> USE DEF offerVars, clientVars
<1>1. TypeOK
  BY DEF Inv
<1>2. ChannelsTypeOK'
  BY <1>1 DEF TypeOK, ChannelsTypeOK
<1>3. AnswersTypeOK'
  BY <1>1 DEF TypeOK, AnswersTypeOK
<1>4. TasksTypeOK'
  <2>1. removed' \in BOOLEAN
    BY <1>1, Zenon DEF TypeOK, TasksTypeOK
  <2> QED
    BY <1>1, <2>1 DEF TypeOK, TasksTypeOK
<1>5. ClientTypeOK'
  BY <1>1, Zenon DEF TypeOK, ClientTypeOK
<1> QED
  BY <1>2, <1>3, <1>4, <1>5 DEF TypeOK

(* mrcp_server_session_deactivate keeps the invariant.                     *)
LEMMA DeactivateInv ==
  ASSUME Inv, Deactivate
  PROVE  Inv'
<1> DEFINE requests == Each("stop", busy)
<1>1. dispatching /\ in_progress # NULL /\ in_progress.type = "TERMINATE"
  BY Zenon DEF Deactivate, Dispatches, Inv, PhaseInv
<1>2. /\ dispatching' = FALSE /\ StateSet("DEACTIVATING", requests)
      /\ UNCHANGED <<in_progress, request_queue, channels, terminations>>
      /\ UNCHANGED <<offerVars, removed, busy, held, clientVars>>
  BY DEF Deactivate, offerVars, clientVars
<1>3. subrequest_count = 0 /\ outstanding = {}
  BY <1>1, NothingOutstanding
<1>4. busy \subseteq DOMAIN channels
  BY DEF Inv, TypeOK, ChannelsTypeOK
<1>5. IsFiniteSet(busy) /\ busy \subseteq Nat
  BY <1>4, ChannelsNumbered, FS_Subset
<1>6. IsFiniteSet(requests) /\ requests \subseteq CountedSubs
  BY <1>5, EachIsFinite, EachIsTyped DEF Operations
<1>7. \A sub \in requests : sub.op = "stop"
  BY EachOp
<1> HIDE DEF requests
<1>8. /\ outstanding' = requests /\ state' = "DEACTIVATING"
      /\ CountInv' /\ subrequest_count' \in Nat
      /\ outstanding' \subseteq [op: Operations, channel: Nat, slot: Nat]
      /\ \A sub \in outstanding' : sub.op # "request"
  BY <1>2, <1>3, <1>6, BatchSent
<1>9. MarksInv'
  BY <1>7, <1>8, NoMarks DEF ChannelOps, MediaOps, SlotOps
<1>10. PhaseInv'
  <2>1. \A sub \in outstanding' : sub.op # "request" /\ sub.op \notin OfferOps
    BY <1>7, <1>8 DEF OfferOps
  <2> QED
    BY <1>1, <1>2, <1>8, <2>1, TerminatePhase
<1>11. QueueTypeOK' /\ TargetsInv'
  BY <1>2, RequestStays
<1>12. TypeOK'
  <2>1. channels' \in Seq(Channel) /\ terminations' \in Seq(BOOLEAN)
    BY <1>2 DEF Inv, TypeOK, ChannelsTypeOK
  <2>2. DOMAIN channels' = DOMAIN channels
    BY <1>2
  <2> QED
    BY <1>2, <1>8, <1>11, <2>1, <2>2, BatchTypes
<1> QED
  BY <1>8, <1>9, <1>10, <1>11, <1>12 DEF Inv

(* The engine channels an offer opens and closes.                          *)
LEMMA EngineChannelsTyped ==
  ASSUME Inv, offer \in Offers
  PROVE  /\ EngineChannelsUpdated \in Seq(Channel)
         /\ DOMAIN EngineChannelsUpdated = DOMAIN channels
         /\ IsFiniteSet(EngineRequests) /\ EngineRequests \subseteq CountedSubs
         /\ \A sub \in EngineRequests : sub.op \in {"open", "close"}
<1> DEFINE opened == {c \in Offered : Port(c) /\ ~channels[c].is_open}
           closed == {c \in Offered : ~Port(c) /\ channels[c].is_open}
<1>1. channels \in Seq(Channel) /\ offer.control \in Seq(ControlMedia)
  BY OfferTyped DEF Inv, TypeOK, ChannelsTypeOK
<1>2. Offered \subseteq DOMAIN channels \cap DOMAIN offer.control
  BY DEF Offered, WithEngine
<1>3. ASSUME NEW c \in DOMAIN channels
      PROVE  EngineChannelsUpdated[c] \in Channel
  <2>1. channels[c] \in Channel
    BY <1>1
  <2>2. CASE c \in Offered
    <3>1. offer.control[c] \in ControlMedia
      BY <1>1, <1>2, <2>2
    <3>2. Port(c) \in BOOLEAN
      BY <3>1, Zenon DEF Port, ControlMedia
    <3>3. EngineChannelsUpdated[c] = [channels[c] EXCEPT !.is_open = Port(c)]
      BY <2>2 DEF EngineChannelsUpdated
    <3> QED
      BY <2>1, <3>2, <3>3 DEF Channel
  <2>3. CASE c \notin Offered
    BY <2>1, <2>3 DEF EngineChannelsUpdated
  <2> QED
    BY <2>2, <2>3
<1>4. /\ EngineChannelsUpdated \in Seq(Channel)
      /\ DOMAIN EngineChannelsUpdated = DOMAIN channels
  <2>1. DOMAIN channels = 1 .. Len(channels) /\ Len(channels) \in Nat
    BY <1>1
  <2>2. EngineChannelsUpdated =
          [c \in 1 .. Len(channels) |-> EngineChannelsUpdated[c]]
    BY <2>1 DEF EngineChannelsUpdated
  <2>3. \A c \in 1 .. Len(channels) : EngineChannelsUpdated[c] \in Channel
    BY <1>3, <2>1
  <2>4. EngineChannelsUpdated \in [1 .. Len(channels) -> Channel]
    BY <2>2, <2>3
  <2> QED
    BY <2>1, <2>4
<1>5. opened \subseteq DOMAIN channels /\ closed \subseteq DOMAIN channels
  BY <1>2
<1>6. EngineRequests = Each("open", opened) \cup Each("close", closed)
  BY DEF EngineRequests
<1> HIDE DEF opened, closed
<1>7. /\ IsFiniteSet(opened) /\ opened \subseteq Nat
      /\ IsFiniteSet(closed) /\ closed \subseteq Nat
  BY <1>5, ChannelsNumbered, FS_Subset
<1>8. IsFiniteSet(Each("open", opened)) /\ IsFiniteSet(Each("close", closed))
  BY <1>7, EachIsFinite
<1>9. IsFiniteSet(EngineRequests)
  BY <1>6, <1>8, FS_Union
<1>10. EngineRequests \subseteq CountedSubs
  BY <1>6, <1>7, EachIsTyped DEF Operations
<1>11. \A sub \in EngineRequests : sub.op \in {"open", "close"}
  BY <1>6, EachOp
<1> QED
  BY <1>4, <1>9, <1>10, <1>11

(* mrcp_server_engine_channels_update keeps the invariant.                 *)
LEMMA EngineChannelsUpdateInv ==
  ASSUME Inv, EngineChannelsUpdate
  PROVE  Inv'
<1>1. Continues /\ state = "GENERATING_ANSWER"
  BY DEF EngineChannelsUpdate, ContinuesIn
<1>2. /\ StateSet("INITIALIZING", EngineRequests)
      /\ channels' = EngineChannelsUpdated
      /\ terminations' = terminations
      /\ UNCHANGED <<in_progress, request_queue, dispatching>>
      /\ UNCHANGED <<offerVars, removed, busy, held, clientVars>>
  BY DEF EngineChannelsUpdate, queueVars, offerVars, clientVars
<1>3. subrequest_count = 0 /\ outstanding = {}
  BY <1>1, NothingOutstandingToo
<1>4. InProgress("OFFER")
  BY <1>1, NothingOutstandingToo DEF Inv, PhaseInv
<1>5. answer \in Answer /\ offer \in Offers
  BY <1>4 DEF Inv, PhaseInv
<1>6. /\ channels' \in Seq(Channel) /\ DOMAIN channels' = DOMAIN channels
      /\ IsFiniteSet(EngineRequests) /\ EngineRequests \subseteq CountedSubs
      /\ \A sub \in EngineRequests : sub.op \in {"open", "close"}
  BY <1>2, <1>5, EngineChannelsTyped
<1>7. /\ outstanding' = EngineRequests /\ state' = "INITIALIZING"
      /\ CountInv' /\ subrequest_count' \in Nat
      /\ outstanding' \subseteq [op: Operations, channel: Nat, slot: Nat]
      /\ \A sub \in outstanding' : sub.op # "request"
  BY <1>2, <1>3, <1>6, BatchSent
<1>8. MarksInv'
  BY <1>6, <1>7, NoMarks DEF ChannelOps, MediaOps, SlotOps
<1>9. PhaseInv'
  <2>1. answer' \in Answer /\ offer' \in Offers
    BY <1>2, <1>5 DEF offerVars
  <2>2. in_progress' # NULL /\ in_progress'.type = "OFFER"
    BY <1>2, <1>4 DEF InProgress
  <2>3. ~dispatching'
    BY <1>2, <1>4, Zenon DEF InProgress
  <2> QED
    BY <1>7, <2>1, <2>2, <2>3, OfferPhase
<1>10. QueueTypeOK' /\ TargetsInv'
  BY <1>2, <1>6, RequestStays
<1>11. TypeOK'
  <2>1. terminations' \in Seq(BOOLEAN)
    BY <1>2 DEF Inv, TypeOK, ChannelsTypeOK
  <2> QED
    BY <1>2, <1>6, <1>7, <1>10, <2>1, BatchTypes
<1> QED
  BY <1>7, <1>8, <1>9, <1>10, <1>11 DEF Inv

(* mrcp_server_session_answer_send keeps the invariant.                    *)
LEMMA AnswerSendInv ==
  ASSUME Inv, AnswerSend
  PROVE  Inv'
<1>1. Continues /\ state = "INITIALIZING"
  BY DEF AnswerSend, ContinuesIn
<1>2. /\ last_offer' = offer /\ last_answer' = answer
      /\ offer' = NULL /\ answer' = NULL
      /\ PopRequest
      /\ answered' = answered + 1
      /\ granted' = IF answer.ok
                    THEN {i \in DOMAIN answer.control : answer.control[i] = "granted"}
                    ELSE granted
      /\ UNCHANGED <<state, subrequest_count, channels, terminations, removed,
                     busy, outstanding, held, sent, terminated>>
  BY DEF AnswerSend
<1>3. subrequest_count = 0 /\ outstanding = {}
  BY <1>1, NothingOutstandingToo
<1>4. InProgress("OFFER")
  BY <1>1, NothingOutstandingToo DEF Inv, PhaseInv
<1>5. answer \in Answer /\ offer \in Offers
  BY <1>4 DEF Inv, PhaseInv
<1>6. CountInv'
  BY <1>2 DEF Inv, CountInv, CountExact, Counted
<1>7. MarksInv'
  BY <1>2, <1>3 DEF MarksInv
<1>8. QueueTypeOK' /\ PhaseInv' /\ TargetsInv'
  <2>1. in_progress # NULL /\ in_progress.type # "TERMINATE"
    BY <1>4 DEF InProgress
  <2>2. \A sub \in outstanding' : sub.op \notin OfferOps \cup {"request"}
    BY <1>2, <1>3
  <2>3. state = "NONE" => last_offer' = NULL
    BY <1>1
  <2> QED
    BY <1>2, <1>3, <2>1, <2>2, <2>3, PopRequestInv
<1>9. TypeOK'
  <2>1. TypeOK
    BY DEF Inv
  <2>2. ChannelsTypeOK'
    BY <1>2, <2>1 DEF TypeOK, ChannelsTypeOK
  <2>3. AnswersTypeOK'
    BY <1>2, <1>5 DEF AnswersTypeOK
  <2>4. TasksTypeOK'
    <3>1. removed' \in BOOLEAN
      BY <1>2, <2>1, Zenon DEF TypeOK, TasksTypeOK
    <3> QED
      BY <1>2, <2>1, <3>1 DEF TypeOK, TasksTypeOK
  <2>5. ClientTypeOK'
    <3>1. terminated' \in BOOLEAN
      BY <1>2, <2>1, Zenon DEF TypeOK, ClientTypeOK
    <3>2. answer.control \in Seq({"absent", "granted", "refused"})
      BY <1>5 DEF Answer
    <3>3. {i \in DOMAIN answer.control : answer.control[i] = "granted"} \subseteq Nat
      BY <3>2
    <3>4. granted' \subseteq Nat
      BY <1>2, <2>1, <3>3 DEF TypeOK, ClientTypeOK
    <3>5. refused' \in BOOLEAN
      BY <2>1, Zenon DEF AnswerSend, TypeOK, ClientTypeOK
    <3> QED
      BY <1>2, <2>1, <3>1, <3>4, <3>5 DEF TypeOK, ClientTypeOK
  <2> QED
    BY <1>8, <2>2, <2>3, <2>4, <2>5 DEF TypeOK
<1> QED
  BY <1>6, <1>7, <1>8, <1>9 DEF Inv

(* The batch that ends a session: it is awaited at marks that are all set. *)
LEMMA TerminationBatch ==
  ASSUME Inv
  PROVE  /\ IsFiniteSet(TerminationRequests)
         /\ TerminationRequests \subseteq CountedSubs
         /\ \A sub \in TerminationRequests :
               /\ sub.op \notin OfferOps
               /\ sub.op \in ChannelOps =>
                    /\ sub.op = "remove channel" /\ sub.slot = 0
                    /\ sub.channel \in DOMAIN channels
               /\ sub.op \in MediaOps =>
                    /\ sub.op = "subtract media" /\ sub.slot = 0
                    /\ sub.channel \in WithEngine(channels)
               /\ sub.op \in SlotOps =>
                    /\ sub.op = "subtract slot" /\ sub.channel = 0
                    /\ sub.slot \in DOMAIN terminations
<1> DEFINE opened == {c \in DOMAIN channels : channels[c].is_open}
           reset == IF last_offer = NULL THEN {} ELSE {Sub("reset", 0, 0)}
<1>1. TerminationRequests =
        reset \cup Each("remove channel", DOMAIN channels)
          \cup Each("subtract media", WithEngine(channels))
          \cup Each("close", opened)
          \cup EachSlot("subtract slot", DOMAIN terminations)
  BY DEF TerminationRequests
<1>2. /\ IsFiniteSet(reset) /\ reset \subseteq CountedSubs
      /\ \A sub \in reset : sub.op = "reset"
  <2>1. CASE last_offer = NULL
    BY <2>1, FS_EmptySet
  <2>2. CASE last_offer # NULL
    <3>1. reset = {Sub("reset", 0, 0)}
      BY <2>2
    <3>2. Sub("reset", 0, 0) \in CountedSubs /\ Sub("reset", 0, 0).op = "reset"
      BY DEF Sub, CountedSubs, Operations
    <3> HIDE DEF reset
    <3> QED
      BY <3>1, <3>2, FS_Singleton
  <2> QED
    BY <2>1, <2>2
<1>3. opened \subseteq DOMAIN channels /\ WithEngine(channels) \subseteq DOMAIN channels
  BY DEF WithEngine
<1> HIDE DEF opened, reset
<1>4. /\ IsFiniteSet(DOMAIN channels) /\ DOMAIN channels \subseteq Nat
      /\ IsFiniteSet(DOMAIN terminations) /\ DOMAIN terminations \subseteq Nat
  BY ChannelsNumbered
<1>5. /\ IsFiniteSet(opened) /\ opened \subseteq Nat
      /\ IsFiniteSet(WithEngine(channels)) /\ WithEngine(channels) \subseteq Nat
  BY <1>3, <1>4, FS_Subset
<1>6. IsFiniteSet(TerminationRequests)
  <2>1. /\ IsFiniteSet(Each("remove channel", DOMAIN channels))
        /\ IsFiniteSet(Each("subtract media", WithEngine(channels)))
        /\ IsFiniteSet(Each("close", opened))
        /\ IsFiniteSet(EachSlot("subtract slot", DOMAIN terminations))
    BY <1>4, <1>5, EachIsFinite
  <2> QED
    BY <1>1, <1>2, <2>1, FS_Union
<1>7. TerminationRequests \subseteq CountedSubs
  <2>1. /\ Each("remove channel", DOMAIN channels) \subseteq CountedSubs
        /\ Each("subtract media", WithEngine(channels)) \subseteq CountedSubs
        /\ Each("close", opened) \subseteq CountedSubs
        /\ EachSlot("subtract slot", DOMAIN terminations) \subseteq CountedSubs
    BY <1>4, <1>5, EachIsTyped DEF Operations
  <2> QED
    BY <1>1, <1>2, <2>1
<1>8. ASSUME NEW sub \in TerminationRequests
      PROVE  \/ sub.op = "reset"
             \/ /\ sub.op = "remove channel" /\ sub.slot = 0
                /\ sub.channel \in DOMAIN channels
             \/ /\ sub.op = "subtract media" /\ sub.slot = 0
                /\ sub.channel \in WithEngine(channels)
             \/ sub.op = "close"
             \/ /\ sub.op = "subtract slot" /\ sub.channel = 0
                /\ sub.slot \in DOMAIN terminations
  <2>1. \/ sub \in reset
        \/ sub \in Each("remove channel", DOMAIN channels)
        \/ sub \in Each("subtract media", WithEngine(channels))
        \/ sub \in Each("close", opened)
        \/ sub \in EachSlot("subtract slot", DOMAIN terminations)
    BY <1>1
  <2>2. CASE sub \in reset
    BY <1>2, <2>2
  <2>3. CASE sub \in Each("remove channel", DOMAIN channels)
    <3>1. PICK c \in DOMAIN channels : sub = Sub("remove channel", c, 0)
      BY <2>3 DEF Each
    <3> QED
      BY <3>1 DEF Sub
  <2>4. CASE sub \in Each("subtract media", WithEngine(channels))
    <3>1. PICK c \in WithEngine(channels) : sub = Sub("subtract media", c, 0)
      BY <2>4 DEF Each
    <3> QED
      BY <3>1 DEF Sub
  <2>5. CASE sub \in Each("close", opened)
    <3>1. PICK c \in opened : sub = Sub("close", c, 0)
      BY <2>5 DEF Each
    <3> QED
      BY <3>1 DEF Sub
  <2>6. CASE sub \in EachSlot("subtract slot", DOMAIN terminations)
    <3>1. PICK s \in DOMAIN terminations : sub = Sub("subtract slot", 0, s)
      BY <2>6 DEF EachSlot
    <3> QED
      BY <3>1 DEF Sub
  <2> QED
    BY <2>1, <2>2, <2>3, <2>4, <2>5, <2>6
<1>9. ASSUME NEW sub \in TerminationRequests
      PROVE  /\ sub.op \notin OfferOps
             /\ sub.op \in ChannelOps =>
                  /\ sub.op = "remove channel" /\ sub.slot = 0
                  /\ sub.channel \in DOMAIN channels
             /\ sub.op \in MediaOps =>
                  /\ sub.op = "subtract media" /\ sub.slot = 0
                  /\ sub.channel \in WithEngine(channels)
             /\ sub.op \in SlotOps =>
                  /\ sub.op = "subtract slot" /\ sub.channel = 0
                  /\ sub.slot \in DOMAIN terminations
  BY <1>8 DEF OfferOps, ChannelOps, MediaOps, SlotOps
<1> QED
  BY <1>6, <1>7, <1>9

\* the channels, once all of them wait for their last answers
Leaving ==
    [c \in DOMAIN channels |->
        [channels[c] EXCEPT !.is_open = FALSE,
                            !.waiting_for_channel = TRUE,
                            !.waiting_for_termination = channels[c].engine]]

(* Every channel and slot waits when the session ends.                     *)
LEMMA LeavingTyped ==
  ASSUME Inv
  PROVE  /\ Leaving \in Seq(Channel) /\ DOMAIN Leaving = DOMAIN channels
         /\ \A c \in DOMAIN channels :
               /\ Leaving[c].waiting_for_channel
               /\ channels[c].engine => Leaving[c].waiting_for_termination
         /\ [s \in DOMAIN terminations |-> TRUE] \in Seq(BOOLEAN)
<1>1. channels \in Seq(Channel) /\ terminations \in Seq(BOOLEAN)
  BY DEF Inv, TypeOK, ChannelsTypeOK
<1>2. ASSUME NEW c \in DOMAIN channels
      PROVE  /\ Leaving[c] \in Channel
             /\ Leaving[c].waiting_for_channel
             /\ channels[c].engine => Leaving[c].waiting_for_termination
  <2>1. channels[c] \in Channel
    BY <1>1
  <2>2. Leaving[c] = [channels[c] EXCEPT !.is_open = FALSE,
                                         !.waiting_for_channel = TRUE,
                                         !.waiting_for_termination = channels[c].engine]
    BY DEF Leaving
  <2> QED
    BY <2>1, <2>2 DEF Channel
<1>3. DOMAIN channels = 1 .. Len(channels) /\ Len(channels) \in Nat
  BY <1>1
<1>4. Leaving \in Seq(Channel) /\ DOMAIN Leaving = DOMAIN channels
  <2>1. Leaving = [c \in 1 .. Len(channels) |-> Leaving[c]]
    BY <1>3 DEF Leaving
  <2>2. \A c \in 1 .. Len(channels) : Leaving[c] \in Channel
    BY <1>2, <1>3
  <2>3. Leaving \in [1 .. Len(channels) -> Channel]
    BY <2>1, <2>2
  <2> QED
    BY <1>3, <2>3
<1>5. [s \in DOMAIN terminations |-> TRUE] \in Seq(BOOLEAN)
  <2>1. DOMAIN terminations = 1 .. Len(terminations) /\ Len(terminations) \in Nat
    BY <1>1
  <2>2. [s \in DOMAIN terminations |-> TRUE] \in [1 .. Len(terminations) -> BOOLEAN]
    BY <2>1, Zenon
  <2> QED
    BY <2>1, <2>2
<1> QED
  BY <1>2, <1>4, <1>5

(* mrcp_server_session_terminate_process keeps the invariant.              *)
LEMMA TerminateProcessInv ==
  ASSUME Inv, TerminateProcess
  PROVE  Inv'
<1>1. Continues /\ state = "DEACTIVATING"
  BY DEF TerminateProcess, ContinuesIn
<1>2. /\ StateSet("TERMINATING", TerminationRequests)
      /\ channels' = Leaving
      /\ terminations' = [s \in DOMAIN terminations |-> TRUE]
      /\ UNCHANGED <<in_progress, request_queue, dispatching>>
      /\ UNCHANGED <<offerVars, removed, busy, held, clientVars>>
  BY DEF TerminateProcess, Leaving, queueVars, offerVars, clientVars
<1>3. subrequest_count = 0 /\ outstanding = {}
  BY <1>1, NothingOutstandingToo
<1>4. InProgress("TERMINATE")
  BY <1>1 DEF Inv, PhaseInv
<1>5. /\ channels' \in Seq(Channel) /\ DOMAIN channels' = DOMAIN channels
      /\ \A c \in DOMAIN channels :
            /\ channels'[c].waiting_for_channel
            /\ channels[c].engine => channels'[c].waiting_for_termination
      /\ terminations' \in Seq(BOOLEAN)
  BY <1>2, LeavingTyped
<1>6. /\ outstanding' = TerminationRequests /\ state' = "TERMINATING"
      /\ CountInv' /\ subrequest_count' \in Nat
      /\ outstanding' \subseteq [op: Operations, channel: Nat, slot: Nat]
      /\ \A sub \in outstanding' : sub.op # "request"
  BY <1>2, <1>3, TerminationBatch, BatchSent
<1>7. MarksInv'
  <2>1. ASSUME NEW sub \in outstanding'
        PROVE  Marked(sub)'
    <3>1. ASSUME sub.op \in ChannelOps
          PROVE  /\ sub.channel \in DOMAIN channels'
                 /\ channels'[sub.channel].waiting_for_channel
      <4>1. sub.channel \in DOMAIN channels
        BY <1>6, <3>1, TerminationBatch
      <4> QED
        BY <1>5, <4>1
    <3>2. ASSUME sub.op \in MediaOps
          PROVE  /\ sub.channel \in DOMAIN channels'
                 /\ channels'[sub.channel].waiting_for_termination
      <4>1. sub.channel \in WithEngine(channels)
        BY <1>6, <3>2, TerminationBatch
      <4> QED
        BY <1>5, <4>1 DEF WithEngine
    <3>3. ASSUME sub.op \in SlotOps
          PROVE  sub.slot \in DOMAIN terminations' /\ terminations'[sub.slot]
      <4>1. sub.slot \in DOMAIN terminations
        BY <1>6, <3>3, TerminationBatch
      <4> QED
        BY <1>2, <4>1
    <3> QED
      BY <3>1, <3>2, <3>3 DEF Marked
  <2>2. ASSUME NEW s \in outstanding', NEW t \in outstanding', SameMark(s, t)
        PROVE  s = t
    <3>1. ASSUME s.op = t.op, s.channel = t.channel, s.slot = t.slot
          PROVE  s = t
      BY <1>6, <3>1
    <3>2. CASE s.op \in ChannelOps /\ t.op \in ChannelOps /\ s.channel = t.channel
      <4>1. /\ s.op = "remove channel" /\ s.slot = 0
            /\ t.op = "remove channel" /\ t.slot = 0
        BY <1>6, <3>2, TerminationBatch, Zenon
      <4> QED
        BY <3>1, <3>2, <4>1
    <3>3. CASE s.op \in MediaOps /\ t.op \in MediaOps /\ s.channel = t.channel
      <4>1. /\ s.op = "subtract media" /\ s.slot = 0
            /\ t.op = "subtract media" /\ t.slot = 0
        BY <1>6, <3>3, TerminationBatch, Zenon
      <4> QED
        BY <3>1, <3>3, <4>1
    <3>4. CASE s.op \in SlotOps /\ t.op \in SlotOps /\ s.slot = t.slot
      <4>1. /\ s.op = "subtract slot" /\ s.channel = 0
            /\ t.op = "subtract slot" /\ t.channel = 0
        BY <1>6, <3>4, TerminationBatch, Zenon
      <4> QED
        BY <3>1, <3>4, <4>1
    <3>5. s.op # "request"
      BY <1>6
    <3> QED
      BY <2>2, <3>2, <3>3, <3>4, <3>5 DEF SameMark
  <2> QED
    BY <2>1, <2>2 DEF MarksInv, SameMark
<1>8. PhaseInv'
  <2>1. \A sub \in outstanding' : sub.op # "request" /\ sub.op \notin OfferOps
    BY <1>6, TerminationBatch
  <2>2. in_progress' # NULL /\ in_progress'.type = "TERMINATE"
    BY <1>2, <1>4 DEF InProgress
  <2>3. ~dispatching'
    BY <1>2, <1>4, Zenon DEF InProgress
  <2> QED
    BY <1>6, <2>1, <2>2, <2>3, TerminatePhase
<1>9. QueueTypeOK' /\ TargetsInv'
  BY <1>2, <1>5, RequestStays
<1>10. TypeOK'
  BY <1>2, <1>5, <1>6, <1>9, BatchTypes
<1> QED
  BY <1>6, <1>7, <1>8, <1>9, <1>10 DEF Inv

(* Nothing but the session's place in the server's table changes, or       *)
(* nothing at all.                                                         *)
LEMMA LeftInv ==
  ASSUME Inv, removed' \in BOOLEAN,
         UNCHANGED <<in_progress, request_queue, dispatching>>,
         UNCHANGED <<state, subrequest_count, channels, terminations, offer, answer>>,
         UNCHANGED <<last_offer, last_answer, busy, outstanding, held>>,
         UNCHANGED <<sent, answered, granted, refused, terminated>>
  PROVE  Inv'
<1>1. \A type : InProgress(type)' <=> InProgress(type)
  BY Zenon DEF InProgress
<1>2. CountInv'
  BY DEF Inv, CountInv, CountExact, Counted
<1>3. MarksInv'
  BY DEF Inv, MarksInv, Marked, SameMark
<1>4. PhaseInv'
  <2>1. PhaseInv
    BY DEF Inv
  <2>2. (dispatching => in_progress # NULL)'
    BY <2>1, Zenon DEF PhaseInv
  <2> QED
    BY <1>1, <2>1, <2>2 DEF PhaseInv
<1>5. TargetsInv'
  BY DEF Inv, TargetsInv, Targeted
<1>6. TypeOK'
  <2>1. TypeOK
    BY DEF Inv
  <2>2. QueueTypeOK'
    BY <2>1, Zenon DEF TypeOK, QueueTypeOK
  <2>3. ChannelsTypeOK'
    BY <2>1 DEF TypeOK, ChannelsTypeOK
  <2>4. AnswersTypeOK'
    BY <2>1 DEF TypeOK, AnswersTypeOK
  <2>5. TasksTypeOK'
    BY <2>1 DEF TypeOK, TasksTypeOK
  <2>6. ClientTypeOK'
    BY <2>1, Zenon DEF TypeOK, ClientTypeOK
  <2> QED
    BY <2>2, <2>3, <2>4, <2>5, <2>6 DEF TypeOK
<1> QED
  BY <1>2, <1>3, <1>4, <1>5, <1>6 DEF Inv

(* Every step of the server task keeps the invariant.                      *)
LEMMA ServerInv ==
  ASSUME Inv, ServerStep
  PROVE  Inv'
<1>1. CASE TerminateSend
  <2>1. removed' \in BOOLEAN
    BY <1>1, Zenon DEF TerminateSend
  <2> QED
    BY <1>1, <2>1, LeftInv DEF TerminateSend, queueVars, offerVars, clientVars
<1> QED
  BY <1>1, OfferRepeatedInv, OfferProcessInv, ControlProcessInv, DeactivateInv,
     EngineChannelsUpdateInv, AnswerSendInv, TerminateProcessInv DEF ServerStep

(* Every answer of another task keeps the invariant.                       *)
LEMMA TasksInv ==
  ASSUME Inv, TasksAnswer
  PROVE  Inv'
<1>1. PICK sub \in outstanding : SubAnswered(sub)
  BY DEF TasksAnswer
<1>2. CASE sub.op = "modify channel" /\ ChannelModified(sub.op, sub.channel, sub.channel)
  BY <1>2, ChannelModifiedInv
<1>3. CASE sub.op = "add channel"
             /\ ChannelModified(sub.op, sub.channel, channels[sub.channel].id)
  BY <1>3, ChannelModifiedInv
<1>4. CASE ChannelRemoved(sub.channel)
  BY <1>4, ChannelRemovedInv
<1>5. CASE sub.op \in {"add media", "subtract media"} /\ MediaAnswered(sub.op, sub.channel)
  BY <1>5, MediaAnsweredInv
<1>6. CASE sub.op \in SlotOps /\ SlotAnswered(sub.op, sub.slot)
  BY <1>6, SlotAnsweredInv
<1>7. CASE TopologyAnswered(sub)
  BY <1>7, TopologyAnsweredInv
<1>8. CASE \E success \in BOOLEAN : EngineOpened(sub.channel, success)
  BY <1>8, EngineOpenedInv
<1>9. CASE EngineClosed(sub.channel)
  BY <1>9, EngineClosedInv
<1>10. CASE MachineDeactivated(sub.channel)
  BY <1>10, MachineDeactivatedInv
<1>11. CASE ControlAnswered(sub.channel)
  BY <1>11, ControlAnsweredInv
<1> QED
  BY <1>1, <1>2, <1>3, <1>4, <1>5, <1>6, <1>7, <1>8, <1>9, <1>10, <1>11
  DEF SubAnswered, SlotOps

-----------------------------------------------------------------------------
(* Every step keeps the invariant.                                         *)
LEMMA NextInv ==
  ASSUME Inv, [Next]_vars
  PROVE  Inv'
<1>1. CASE ClientStep
  BY <1>1, ClientInv
<1>2. CASE TasksAnswer
  BY <1>2, TasksInv
<1>3. CASE Completion
  BY <1>3, ControlCompletedInv DEF Completion
<1>4. CASE ServerStep
  BY <1>4, ServerInv
<1>5. CASE UNCHANGED vars
  <2>1. removed' \in BOOLEAN
    BY <1>5, Zenon DEF vars, Inv, TypeOK, TasksTypeOK
  <2> QED
    BY <1>5, <2>1, LeftInv DEF vars, queueVars, offerVars, clientVars
<1> QED
  BY <1>1, <1>2, <1>3, <1>4, <1>5 DEF Next

(***************************************************************************)
(* The session keeps its types: above all, an answer describes media of    *)
(* one offer, a request waits only behind another and a channel is busy    *)
(* only while it is there (mrcp_server_session.c:37 to 108).               *)
(***************************************************************************)
THEOREM SessionIsTyped == Spec => []TypeOK
<1>1. Inv => TypeOK
  BY DEF Inv
<1> QED
  BY <1>1, InitInv, NextInv, PTL DEF Spec

(***************************************************************************)
(* In every session, for any offers, whatever engines are full or fail to  *)
(* open and in whichever order the tasks answer: the count of sub-requests *)
(* is the number of answers to come (mrcp_server_session_subrequest_add    *)
(* and mrcp_server_session_subrequest_remove).                             *)
(***************************************************************************)
THEOREM CountIsExact == Spec => []CountExact
<1>1. Inv => CountExact
  BY DEF Inv, CountInv
<1> QED
  BY <1>1, InitInv, NextInv, PTL DEF Spec

-----------------------------------------------------------------------------
(* A session that leaves has nothing anywhere.  What a task holds for the  *)
(* session has its place in the session's own records (HeldInv), so that   *)
(* the last batch asks for all of it to be released: from then on each     *)
(* thing that is still held has the sub-request that releases it           *)
(* outstanding (ReleaseInv), and nothing is taken any more (AddInv).       *)

\* does the answer to a sub-request mean that the thing is let go?
Releases(sub, thing) ==
    \/ sub.op = "remove channel" /\ thing = <<"channel", sub.channel>>
    \/ sub.op = "subtract media" /\ thing = <<"media", sub.channel>>
    \/ sub.op = "subtract slot" /\ thing = <<"slot", sub.slot>>
    \/ sub.op = "close" /\ thing = <<"engine", sub.channel>>

Releasing(thing) == \E sub \in outstanding : Releases(sub, thing)

\* does the session know that the thing is held?
Recorded(thing) ==
    /\ thing[1] = "channel" => thing[2] \in DOMAIN channels
    /\ thing[1] = "media" => thing[2] \in WithEngine(channels)
    /\ thing[1] = "slot" => thing[2] \in DOMAIN terminations
    /\ thing[1] = "engine" => /\ thing[2] \in DOMAIN channels
                              /\ \/ channels[thing[2]].is_open
                                 \/ Releasing(thing)

HeldInv == \A thing \in held : Recorded(thing)

ReleaseInv == state = "TERMINATING" => \A thing \in held : Releasing(thing)

AddInv ==
    \A sub \in outstanding :
        /\ sub.op = "add media" => /\ state = "GENERATING_ANSWER"
                                   /\ sub.channel \in WithEngine(channels)
        /\ sub.op = "open" => /\ state = "INITIALIZING"
                              /\ sub.channel \in DOMAIN channels
                              /\ channels[sub.channel].is_open
        /\ sub.op \in {"add channel", "modify channel"} => state = "GENERATING_ANSWER"

GoneInv == removed => state = "TERMINATING" /\ outstanding = {}

HoldInv == HeldInv /\ ReleaseInv /\ AddInv /\ GoneInv

(* The parts of a sub-request.                                             *)
LEMMA SubParts ==
  ASSUME NEW op, NEW channel, NEW slot
  PROVE  /\ Sub(op, channel, slot).op = op
         /\ Sub(op, channel, slot).channel = channel
         /\ Sub(op, channel, slot).slot = slot
BY DEF Sub

(* Steps that leave the tasks and the session's records alone.             *)
LEMMA HoldKept ==
  ASSUME HoldInv, UNCHANGED <<state, channels, terminations>>,
         UNCHANGED <<removed, outstanding, held>>
  PROVE  HoldInv'
BY DEF HoldInv, HeldInv, ReleaseInv, AddInv, GoneInv, Recorded, Releasing, WithEngine

(* What is common to the answers of the tasks: one sub-request is gone,    *)
(* what it released is held no longer, and what is new is recorded.        *)
LEMMA AnswerHolds ==
  ASSUME HoldInv, NEW sub \in outstanding, outstanding' = outstanding \ {sub},
         state' = state, removed' = removed,
         DOMAIN terminations' = DOMAIN terminations,
         DOMAIN channels' = DOMAIN channels,
         \A c \in DOMAIN channels : /\ channels'[c].engine = channels[c].engine
                                    /\ channels'[c].is_open = channels[c].is_open,
         \A thing \in held' :
            \/ thing \in held /\ ~Releases(sub, thing)
            \/ Recorded(thing)' /\ state # "TERMINATING"
  PROVE  HoldInv'
<1>1. HeldInv'
  <2> SUFFICES ASSUME NEW thing \in held'
               PROVE  Recorded(thing)'
    BY DEF HeldInv
  <2>1. CASE thing \in held /\ ~Releases(sub, thing)
    <3>1. Recorded(thing)
      BY <2>1 DEF HoldInv, HeldInv
    <3>2. Releasing(thing) => Releasing(thing)'
      BY <2>1 DEF Releasing
    <3> QED
      BY <2>1, <3>1, <3>2 DEF Recorded, WithEngine
  <2> QED
    BY <2>1
<1>2. ReleaseInv'
  <2> SUFFICES ASSUME state' = "TERMINATING", NEW thing \in held'
               PROVE  Releasing(thing)'
    BY DEF ReleaseInv
  <2>1. thing \in held /\ ~Releases(sub, thing)
    OBVIOUS
  <2>2. Releasing(thing)
    BY <2>1 DEF HoldInv, ReleaseInv
  <2> QED
    BY <2>1, <2>2 DEF Releasing
<1>3. AddInv'
  BY DEF HoldInv, AddInv, WithEngine
<1>4. GoneInv'
  BY DEF HoldInv, GoneInv
<1> QED
  BY <1>1, <1>2, <1>3, <1>4 DEF HoldInv

(* An answer that clears a mark of a channel leaves its engine alone.      *)
LEMMA MarkCleared ==
  ASSUME Inv, NEW c,
         \/ channels' = [channels EXCEPT ![c].waiting_for_channel = FALSE]
         \/ channels' = [channels EXCEPT ![c].waiting_for_termination = FALSE]
         \/ channels' = channels
  PROVE  /\ DOMAIN channels' = DOMAIN channels
         /\ \A d \in DOMAIN channels : /\ channels'[d].engine = channels[d].engine
                                       /\ channels'[d].is_open = channels[d].is_open
                                       /\ channels'[d].id = channels[d].id
<1>1. channels \in Seq(Channel)
  BY DEF Inv, TypeOK, ChannelsTypeOK
<1>2. \A d \in DOMAIN channels : channels[d] \in Channel
  BY <1>1
<1> QED
  BY <1>2 DEF Channel

(* mrcp_server_on_channel_modify: the agent holds a channel that is there. *)
LEMMA ChannelModifiedHolds ==
  ASSUME Inv, HoldInv, NEW op \in {"add channel", "modify channel"}, NEW c,
         NEW position, ChannelModified(op, c, position)
  PROVE  HoldInv'
<1>1. PICK sub \in outstanding :
         /\ sub.op = op /\ sub.channel = c
         /\ outstanding' = outstanding \ {sub}
  <2>1. Sub(op, c, 0) \in outstanding /\ outstanding' = outstanding \ {Sub(op, c, 0)}
    BY DEF ChannelModified, Answered
  <2>2. Sub(op, c, 0).op = op /\ Sub(op, c, 0).channel = c
    BY DEF Sub
  <2> QED
    BY <2>1, <2>2
<1>2. c \in DOMAIN channels /\ InProgress("OFFER")
  BY <1>1 DEF Inv, MarksInv, Marked, PhaseInv, ChannelOps, OfferOps
<1>3. state # "TERMINATING"
  BY <1>2 DEF Inv, PhaseInv
<1>4. /\ channels' = [channels EXCEPT ![c].waiting_for_channel = FALSE]
      /\ held' = held \cup {<<"channel", c>>}
      /\ UNCHANGED <<terminations, state, removed>>
  BY DEF ChannelModified, AnswerFrame
<1>5. /\ DOMAIN channels' = DOMAIN channels
      /\ \A d \in DOMAIN channels : /\ channels'[d].engine = channels[d].engine
                                    /\ channels'[d].is_open = channels[d].is_open
  BY <1>4, MarkCleared
<1>6. Recorded(<<"channel", c>>)'
  BY <1>2, <1>5 DEF Recorded
<1>7. \A thing : ~Releases(sub, thing)
  BY <1>1 DEF Releases
<1> QED
  BY <1>1, <1>3, <1>4, <1>5, <1>6, <1>7, AnswerHolds

(* mrcp_server_on_channel_remove: the agent lets go of the channel.        *)
LEMMA ChannelRemovedHolds ==
  ASSUME Inv, HoldInv, NEW c, ChannelRemoved(c)
  PROVE  HoldInv'
<1>1. PICK sub \in outstanding :
         /\ sub.op = "remove channel" /\ sub.channel = c
         /\ outstanding' = outstanding \ {sub}
  <2>1. Sub("remove channel", c, 0) \in outstanding /\ outstanding' = outstanding \ {Sub("remove channel", c, 0)}
    BY DEF ChannelRemoved, Answered
  <2>2. Sub("remove channel", c, 0).op = "remove channel" /\ Sub("remove channel", c, 0).channel = c
    BY DEF Sub
  <2> QED
    BY <2>1, <2>2
<1>2. /\ channels' = [channels EXCEPT ![c].waiting_for_channel = FALSE]
      /\ held' = held \ {<<"channel", c>>}
      /\ UNCHANGED <<terminations, state, removed>>
  BY DEF ChannelRemoved, AnswerFrame
<1>3. /\ DOMAIN channels' = DOMAIN channels
      /\ \A d \in DOMAIN channels : /\ channels'[d].engine = channels[d].engine
                                    /\ channels'[d].is_open = channels[d].is_open
  BY <1>2, MarkCleared
<1>4. \A thing \in held' : ~Releases(sub, thing)
  BY <1>1, <1>2 DEF Releases
<1> QED
  BY <1>1, <1>2, <1>3, <1>4, AnswerHolds

(* on_termination_modify and on_termination_subtract, of an engine.        *)
LEMMA MediaAnsweredHolds ==
  ASSUME Inv, HoldInv, NEW op \in {"add media", "subtract media"}, NEW c,
         MediaAnswered(op, c)
  PROVE  HoldInv'
<1>1. PICK sub \in outstanding :
         /\ sub.op = op /\ sub.channel = c
         /\ outstanding' = outstanding \ {sub}
  <2>1. Sub(op, c, 0) \in outstanding /\ outstanding' = outstanding \ {Sub(op, c, 0)}
    BY DEF MediaAnswered, Answered
  <2>2. Sub(op, c, 0).op = op /\ Sub(op, c, 0).channel = c
    BY DEF Sub
  <2> QED
    BY <2>1, <2>2
<1>2. /\ channels' = [channels EXCEPT ![c].waiting_for_termination = FALSE]
      /\ held' = IF op = "add media" THEN held \cup {<<"media", c>>}
                                     ELSE held \ {<<"media", c>>}
      /\ UNCHANGED <<terminations, state, removed>>
  BY DEF MediaAnswered, AnswerFrame
<1>3. /\ DOMAIN channels' = DOMAIN channels
      /\ \A d \in DOMAIN channels : /\ channels'[d].engine = channels[d].engine
                                    /\ channels'[d].is_open = channels[d].is_open
  BY <1>2, MarkCleared
<1>4. CASE op = "add media"
  <2>1. state = "GENERATING_ANSWER" /\ c \in WithEngine(channels)
    BY <1>1, <1>4 DEF HoldInv, AddInv
  <2>2. Recorded(<<"media", c>>)'
    BY <1>3, <2>1 DEF Recorded, WithEngine
  <2>3. \A thing : ~Releases(sub, thing)
    BY <1>1, <1>4 DEF Releases
  <2> QED
    BY <1>1, <1>2, <1>3, <1>4, <2>1, <2>2, <2>3, AnswerHolds
<1>5. CASE op = "subtract media"
  <2>1. \A thing \in held' : ~Releases(sub, thing)
    BY <1>1, <1>2, <1>5 DEF Releases
  <2> QED
    BY <1>1, <1>2, <1>3, <1>5, <2>1, AnswerHolds
<1> QED
  BY <1>4, <1>5

(* The same for the termination of a media slot.                           *)
LEMMA SlotAnsweredHolds ==
  ASSUME Inv, HoldInv, NEW op \in SlotOps, NEW s, SlotAnswered(op, s)
  PROVE  HoldInv'
<1>1. PICK sub \in outstanding :
         /\ sub.op = op /\ sub.slot = s
         /\ outstanding' = outstanding \ {sub}
  <2>1. Sub(op, 0, s) \in outstanding /\ outstanding' = outstanding \ {Sub(op, 0, s)}
    BY DEF SlotAnswered, Answered
  <2>2. Sub(op, 0, s).op = op /\ Sub(op, 0, s).slot = s
    BY DEF Sub
  <2> QED
    BY <2>1, <2>2
<1>2. /\ terminations' = [terminations EXCEPT ![s] = FALSE]
      /\ held' = IF op = "subtract slot" THEN held \ {<<"slot", s>>}
                                         ELSE held \cup {<<"slot", s>>}
      /\ UNCHANGED <<channels, state, removed>>
  BY DEF SlotAnswered, AnswerFrame
<1>3. /\ DOMAIN channels' = DOMAIN channels
      /\ DOMAIN terminations' = DOMAIN terminations
      /\ \A d \in DOMAIN channels : /\ channels'[d].engine = channels[d].engine
                                    /\ channels'[d].is_open = channels[d].is_open
  BY <1>2
<1>4. CASE op # "subtract slot"
  <2>1. s \in DOMAIN terminations
    BY <1>1 DEF Inv, MarksInv, Marked
  <2>2. state # "TERMINATING"
    BY <1>1, <1>4 DEF Inv, PhaseInv, SlotOps, OfferOps
  <2>3. Recorded(<<"slot", s>>)'
    BY <1>3, <2>1 DEF Recorded
  <2>4. \A thing : ~Releases(sub, thing)
    BY <1>1, <1>4 DEF Releases, SlotOps
  <2> QED
    BY <1>1, <1>2, <1>3, <1>4, <2>2, <2>3, <2>4, AnswerHolds
<1>5. CASE op = "subtract slot"
  <2>1. \A thing \in held' : ~Releases(sub, thing)
    BY <1>1, <1>2, <1>5 DEF Releases
  <2> QED
    BY <1>1, <1>2, <1>3, <1>5, <2>1, AnswerHolds
<1> QED
  BY <1>4, <1>5

(* The answers of engines, state machines and the topology.                *)
LEMMA EngineAnsweredHolds ==
  ASSUME Inv, HoldInv, NEW sub \in outstanding,
         \/ TopologyAnswered(sub)
         \/ \E success \in BOOLEAN : EngineOpened(sub.channel, success)
         \/ EngineClosed(sub.channel)
         \/ MachineDeactivated(sub.channel)
         \/ ControlAnswered(sub.channel)
  PROVE  HoldInv'
<1>1. /\ channels' = channels /\ terminations' = terminations
      /\ state' = state /\ removed' = removed
  <2>1. CASE TopologyAnswered(sub)
    BY <2>1, Zenon DEF TopologyAnswered, AnswerFrame
  <2>2. CASE \E success \in BOOLEAN : EngineOpened(sub.channel, success)
    BY <2>2, Zenon DEF EngineOpened, AnswerFrame
  <2>3. CASE EngineClosed(sub.channel)
    BY <2>3, Zenon DEF EngineClosed, AnswerFrame
  <2>4. CASE MachineDeactivated(sub.channel)
    BY <2>4, Zenon DEF MachineDeactivated, AnswerFrame
  <2>5. CASE ControlAnswered(sub.channel)
    BY <2>5, Zenon DEF ControlAnswered, ControlFrame
  <2> QED
    BY <2>1, <2>2, <2>3, <2>4, <2>5
<1>2. /\ DOMAIN channels' = DOMAIN channels
      /\ DOMAIN terminations' = DOMAIN terminations
      /\ \A d \in DOMAIN channels : /\ channels'[d].engine = channels[d].engine
                                    /\ channels'[d].is_open = channels[d].is_open
  BY <1>1
<1>3. CASE TopologyAnswered(sub)
  <2>1. outstanding' = outstanding \ {sub} /\ held' = held
    BY <1>3 DEF TopologyAnswered, Answered
  <2>2. \A thing : ~Releases(sub, thing)
    BY <1>3 DEF Releases, TopologyAnswered
  <2> QED
    BY <1>1, <1>2, <2>1, <2>2, AnswerHolds
<1>4. ASSUME NEW success \in BOOLEAN, EngineOpened(sub.channel, success)
      PROVE  HoldInv'
  <2>1. PICK open \in outstanding :
           /\ open.op = "open" /\ open.channel = sub.channel
           /\ outstanding' = outstanding \ {open}
    BY <1>4, SubParts DEF EngineOpened, Answered
  <2>2. held' \subseteq held \cup {<<"engine", sub.channel>>}
    BY <1>4 DEF EngineOpened
  <2>3. /\ state # "TERMINATING"
        /\ sub.channel \in DOMAIN channels /\ channels[sub.channel].is_open
    BY <2>1 DEF HoldInv, AddInv
  <2>4. Recorded(<<"engine", sub.channel>>)'
    BY <1>2, <2>3 DEF Recorded
  <2>5. \A thing : ~Releases(open, thing)
    BY <2>1 DEF Releases
  <2> QED
    BY <1>1, <1>2, <2>1, <2>2, <2>3, <2>4, <2>5, AnswerHolds
<1>5. CASE EngineClosed(sub.channel)
  <2>1. PICK closing \in outstanding :
           /\ closing.op = "close" /\ closing.channel = sub.channel
           /\ outstanding' = outstanding \ {closing}
    BY <1>5, SubParts DEF EngineClosed, Answered
  <2>2. held' = held \ {<<"engine", sub.channel>>}
    BY <1>5 DEF EngineClosed
  <2>3. \A thing \in held' : ~Releases(closing, thing)
    BY <2>1, <2>2 DEF Releases
  <2> QED
    BY <1>1, <1>2, <2>1, <2>2, <2>3, AnswerHolds
<1>6. CASE MachineDeactivated(sub.channel)
  <2>1. PICK stop \in outstanding :
           stop.op = "stop" /\ outstanding' = outstanding \ {stop}
    BY <1>6, SubParts DEF MachineDeactivated, Answered
  <2>2. held' = held /\ \A thing : ~Releases(stop, thing)
    BY <1>6, <2>1 DEF Releases, MachineDeactivated
  <2> QED
    BY <1>1, <1>2, <2>1, <2>2, AnswerHolds
<1>7. CASE ControlAnswered(sub.channel)
  <2>1. PICK request \in outstanding :
           request.op = "request" /\ outstanding' = outstanding \ {request}
    BY <1>7, SubParts DEF ControlAnswered, Answered
  <2>2. held' = held /\ \A thing : ~Releases(request, thing)
    BY <1>7, <2>1 DEF Releases, ControlAnswered, ControlFrame
  <2> QED
    BY <1>1, <1>2, <2>1, <2>2, AnswerHolds
<1> QED
  BY <1>3, <1>4, <1>5, <1>6, <1>7

(* A session that has left its server's table does nothing any more.       *)
LEMMA NotGone ==
  ASSUME Inv, HoldInv, dispatching \/ Continues
  PROVE  ~removed
<1>1. ASSUME removed PROVE InProgress("TERMINATE")
  BY <1>1, Zenon DEF HoldInv, GoneInv, Inv, PhaseInv
<1> QED
  BY <1>1, Zenon DEF InProgress, Continues

(* A batch that is not the last one: an engine that is still open stays    *)
(* recorded or is asked to close.                                          *)
LEMMA BatchHolds ==
  ASSUME Inv, HoldInv, outstanding = {}, ~removed, removed' = removed, held' = held,
         state' # "TERMINATING", AddInv',
         DOMAIN channels \subseteq DOMAIN channels',
         DOMAIN terminations \subseteq DOMAIN terminations',
         \A c \in DOMAIN channels : channels'[c].engine = channels[c].engine,
         \A c \in DOMAIN channels :
            channels[c].is_open =>
              \/ channels'[c].is_open
              \/ \E sub \in outstanding' : sub.op = "close" /\ sub.channel = c
  PROVE  HoldInv'
<1>1. HeldInv'
  <2> SUFFICES ASSUME NEW thing \in held
               PROVE  Recorded(thing)'
    BY DEF HeldInv
  <2>1. Recorded(thing)
    BY DEF HoldInv, HeldInv
  <2>2. ~Releasing(thing)
    BY DEF Releasing
  <2>3. PICK kind \in {"channel", "media", "slot", "engine"}, n \in Nat : thing = <<kind, n>>
    BY HeldTyped DEF Holdings
  <2>4. thing[1] = kind /\ thing[2] = n
    BY <2>3
  <2>5. ASSUME kind = "engine"
        PROVE  channels'[n].is_open \/ Releasing(thing)'
    <3>1. CASE channels'[n].is_open
      BY <3>1
    <3>2. ASSUME NEW sub \in outstanding', sub.op = "close", sub.channel = n
          PROVE  Releasing(thing)'
      <4>1. thing = <<"engine", sub.channel>>
        BY <2>3, <2>5, <3>2
      <4> QED
        BY <3>2, <4>1 DEF Releasing, Releases
    <3> QED
      BY <2>1, <2>2, <2>4, <2>5, <3>1, <3>2 DEF Recorded
  <2>6. kind = "engine" => n \in DOMAIN channels'
    BY <2>1, <2>4 DEF Recorded
  <2> QED
    BY <2>1, <2>4, <2>5, <2>6 DEF Recorded, WithEngine
<1>2. ReleaseInv'
  BY DEF ReleaseInv
<1>3. GoneInv'
  BY Zenon DEF GoneInv
<1> QED
  BY <1>1, <1>2, <1>3 DEF HoldInv

(* The members of a part of a batch.                                       *)
LEMMA EachHas ==
  ASSUME NEW op, NEW indices, NEW i \in indices
  PROVE  /\ \E sub \in Each(op, indices) : sub.op = op /\ sub.channel = i
         /\ \E sub \in EachSlot(op, indices) : sub.op = op /\ sub.slot = i
<1>1. Sub(op, i, 0) \in Each(op, indices) /\ Sub(op, 0, i) \in EachSlot(op, indices)
  BY DEF Each, EachSlot
<1>2. /\ Sub(op, i, 0).op = op /\ Sub(op, i, 0).channel = i
      /\ Sub(op, 0, i).op = op /\ Sub(op, 0, i).slot = i
  BY DEF Sub
<1> QED
  BY <1>1, <1>2

(* An offer neither opens nor closes an engine.                            *)
LEMMA OfferOpens ==
  ASSUME NEW new, NEW offered, NEW sub \in OfferRequests(new, offered)
  PROVE  sub.op \notin {"open", "close"}
<1>1. \/ sub \in {Sub("reset", 0, 0), Sub("apply", 0, 0)}
      \/ sub \in ControlRequests(new, offered)
      \/ sub \in AudioRequests(new, offered)
  BY DEF OfferRequests
<1>2. CASE sub \in {Sub("reset", 0, 0), Sub("apply", 0, 0)}
  BY <1>2 DEF Sub
<1>3. CASE sub \in ControlRequests(new, offered)
  <2>1. \E op \in {"modify channel", "add channel", "add media"} : \E indices :
           sub \in Each(op, indices)
    BY <1>3 DEF ControlRequests
  <2> QED
    BY <2>1, EachOp
<1>4. CASE sub \in AudioRequests(new, offered)
  <2> DEFINE slots == 1 .. new.audio
             associations == {Sub("associate", c, s) : c \in WithEngine(offered), s \in slots}
             old == slots \cap DOMAIN terminations
             added == slots \ DOMAIN terminations
  <2>0. \/ sub \in EachSlot("modify slot", old)
        \/ sub \in EachSlot("add slot", added)
        \/ sub \in associations
    <3>1. AudioRequests(new, offered) =
            EachSlot("modify slot", old) \cup EachSlot("add slot", added) \cup associations
      BY DEF AudioRequests
    <3> HIDE DEF old, added, associations
    <3> QED
      BY <1>4, <3>1
  <2>4. sub \in associations => \E c, s : sub = Sub("associate", c, s)
    OBVIOUS
  <2> HIDE DEF old, added, associations
  <2>1. \/ \E op \in {"modify slot", "add slot"} : \E indices : sub \in EachSlot(op, indices)
        \/ \E c, s : sub = Sub("associate", c, s)
    BY <2>0, <2>4
  <2>2. CASE \E c, s : sub = Sub("associate", c, s)
    BY <2>2 DEF Sub
  <2>3. CASE \E op \in {"modify slot", "add slot"} : \E indices : sub \in EachSlot(op, indices)
    BY <2>3, EachOp
  <2> QED
    BY <2>1, <2>2, <2>3
<1> QED
  BY <1>1, <1>2, <1>3, <1>4

(* mrcp_server_session_offer_process: what is held stays recorded.         *)
LEMMA OfferProcessHolds ==
  ASSUME Inv, HoldInv, OfferProcess
  PROVE  HoldInv'
<1> DEFINE new == in_progress.offer
<1>1. dispatching /\ in_progress # NULL /\ in_progress.type = "OFFER"
  BY Zenon DEF OfferProcess, Dispatches, Inv, PhaseInv
<1>2. new \in Offers
  BY <1>1 DEF Inv, TargetsInv, Targeted
<1>3. subrequest_count = 0 /\ outstanding = {} /\ ~removed
  BY <1>1, NothingOutstanding, NotGone
<1>4. terminations' = MoreSlots(new.audio) /\ held' = held
  BY DEF OfferProcess
<1>5. removed' = removed
  BY Zenon DEF OfferProcess
<1>6. PICK order \in Increasing(NewPositions(new)),
           full \in SUBSET NewPositions(new), ok \in BOOLEAN :
        /\ channels' = OfferedChannels(new, order, full)
        /\ StateSet("GENERATING_ANSWER", OfferRequests(new, channels'))
  BY OfferTaken DEF Taken
<1> HIDE DEF new
<1>7. /\ DOMAIN channels \subseteq DOMAIN channels'
      /\ \A c \in DOMAIN channels : /\ channels'[c].engine = channels[c].engine
                                    /\ channels'[c].is_open = channels[c].is_open
  BY <1>2, <1>6, OfferedChannelsAre
<1>8. /\ outstanding' = OfferRequests(new, channels')
      /\ state' = "GENERATING_ANSWER"
  BY <1>3, <1>6 DEF StateSet
<1>9. DOMAIN terminations \subseteq DOMAIN terminations'
  BY <1>4 DEF MoreSlots
<1>10. AddInv'
  <2> SUFFICES ASSUME NEW sub \in outstanding'
               PROVE  /\ sub.op = "add media" => sub.channel \in WithEngine(channels')
                      /\ sub.op # "open"
    BY <1>8 DEF AddInv
  <2>1. sub.op # "open"
    BY <1>8, OfferOpens
  <2>2. sub.op = "add media" => sub.channel \in WithEngine(channels')
    BY <1>8, OfferOnes DEF MediaOps
  <2> QED
    BY <2>1, <2>2
<1> QED
  BY <1>3, <1>4, <1>5, <1>7, <1>8, <1>9, <1>10, BatchHolds

(* mrcp_server_session_deactivate: the state machines are asked to stop.   *)
LEMMA DeactivateHolds ==
  ASSUME Inv, HoldInv, Deactivate
  PROVE  HoldInv'
<1>1. dispatching
  BY DEF Deactivate, Dispatches
<1>2. outstanding = {} /\ ~removed
  BY <1>1, NothingOutstanding, NotGone
<1>3. removed' = removed
  BY Zenon DEF Deactivate
<1>4. held' = held /\ channels' = channels /\ terminations' = terminations
  BY DEF Deactivate
<1>5. state' = "DEACTIVATING" /\ \A sub \in outstanding' : sub.op = "stop"
  BY <1>2, EachOp DEF Deactivate, StateSet
<1>6. AddInv'
  BY <1>5 DEF AddInv
<1> QED
  BY <1>2, <1>3, <1>4, <1>5, <1>6, BatchHolds

(* mrcp_server_engine_channels_update: what is opened is marked so, what is *)
(* no longer marked is closed.                                             *)
LEMMA EngineChannelsAre ==
  ASSUME Inv, offer \in Offers
  PROVE  /\ \A c \in DOMAIN channels :
              /\ EngineChannelsUpdated[c].id = channels[c].id
              /\ EngineChannelsUpdated[c].engine = channels[c].engine
              /\ c \notin Offered => EngineChannelsUpdated[c].is_open = channels[c].is_open
              /\ c \in Offered => EngineChannelsUpdated[c].is_open = Port(c)
         /\ \A c \in Offered : c \in DOMAIN channels /\ Port(c) \in BOOLEAN
         /\ \A sub \in EngineRequests :
              /\ sub.op \in {"open", "close"}
              /\ sub.channel \in Offered
              /\ sub.op = "open" => Port(sub.channel) /\ ~channels[sub.channel].is_open
              /\ sub.op = "close" => ~Port(sub.channel)
         /\ \A c \in Offered :
              /\ Port(c) /\ ~channels[c].is_open =>
                   \E sub \in EngineRequests : sub.op = "open" /\ sub.channel = c
              /\ ~Port(c) /\ channels[c].is_open =>
                   \E sub \in EngineRequests : sub.op = "close" /\ sub.channel = c
<1> DEFINE opened == {c \in Offered : Port(c) /\ ~channels[c].is_open}
           closed == {c \in Offered : ~Port(c) /\ channels[c].is_open}
<1>1. channels \in Seq(Channel) /\ offer.control \in Seq(ControlMedia)
  BY OfferTyped DEF Inv, TypeOK, ChannelsTypeOK
<1>2. Offered \subseteq DOMAIN channels \cap DOMAIN offer.control
  BY DEF Offered, WithEngine
<1>3. ASSUME NEW c \in Offered
      PROVE  c \in DOMAIN channels /\ Port(c) \in BOOLEAN
  <2>1. offer.control[c] \in ControlMedia
    BY <1>1, <1>2
  <2> QED
    BY <1>2, <2>1, Zenon DEF Port, ControlMedia
<1>4. ASSUME NEW c \in DOMAIN channels
      PROVE  /\ EngineChannelsUpdated[c].id = channels[c].id
             /\ EngineChannelsUpdated[c].engine = channels[c].engine
             /\ c \notin Offered => EngineChannelsUpdated[c].is_open = channels[c].is_open
             /\ c \in Offered => EngineChannelsUpdated[c].is_open = Port(c)
  <2>1. channels[c] \in Channel
    BY <1>1
  <2>2. CASE c \in Offered
    <3>1. EngineChannelsUpdated[c] = [channels[c] EXCEPT !.is_open = Port(c)]
      BY <2>2 DEF EngineChannelsUpdated
    <3> QED
      BY <2>1, <2>2, <3>1 DEF Channel
  <2>3. CASE c \notin Offered
    BY <2>3 DEF EngineChannelsUpdated
  <2> QED
    BY <2>2, <2>3
<1>5. EngineRequests = Each("open", opened) \cup Each("close", closed)
  BY DEF EngineRequests
<1>6. ASSUME NEW sub \in EngineRequests
      PROVE  /\ sub.op \in {"open", "close"}
             /\ sub.channel \in Offered
             /\ sub.op = "open" => Port(sub.channel) /\ ~channels[sub.channel].is_open
             /\ sub.op = "close" => ~Port(sub.channel)
  <2>1. CASE sub \in Each("open", opened)
    <3> HIDE DEF opened
    <3>1. sub.op = "open" /\ sub.channel \in opened
      BY <2>1, EachOp
    <3> QED
      BY <3>1 DEF opened
  <2>2. CASE sub \in Each("close", closed)
    <3> HIDE DEF closed
    <3>1. sub.op = "close" /\ sub.channel \in closed
      BY <2>2, EachOp
    <3> QED
      BY <3>1 DEF closed
  <2> QED
    BY <1>5, <2>1, <2>2
<1>7. ASSUME NEW c \in Offered
      PROVE  /\ Port(c) /\ ~channels[c].is_open =>
                  \E sub \in EngineRequests : sub.op = "open" /\ sub.channel = c
             /\ ~Port(c) /\ channels[c].is_open =>
                  \E sub \in EngineRequests : sub.op = "close" /\ sub.channel = c
  <2>1. ASSUME NEW indices, c \in indices
        PROVE  /\ \E sub \in Each("open", indices) : sub.op = "open" /\ sub.channel = c
               /\ \E sub \in Each("close", indices) : sub.op = "close" /\ sub.channel = c
    BY <2>1, EachHas
  <2>2. c \in opened => \E sub \in Each("open", opened) : sub.op = "open" /\ sub.channel = c
    BY <2>1
  <2>3. c \in closed => \E sub \in Each("close", closed) : sub.op = "close" /\ sub.channel = c
    BY <2>1
  <2> QED
    BY <1>5, <2>2, <2>3
<1> QED
  BY <1>3, <1>4, <1>6, <1>7

(* mrcp_server_engine_channels_update: an engine that stays open stays     *)
(* recorded.                                                               *)
LEMMA EngineChannelsUpdateHolds ==
  ASSUME Inv, HoldInv, EngineChannelsUpdate
  PROVE  HoldInv'
<1>1. Continues /\ state = "GENERATING_ANSWER"
  BY DEF EngineChannelsUpdate, ContinuesIn
<1>2. outstanding = {} /\ ~removed
  BY <1>1, NothingOutstandingToo, NotGone
<1>3. InProgress("OFFER")
  BY <1>1, NothingOutstandingToo DEF Inv, PhaseInv
<1>4. offer \in Offers
  BY <1>3 DEF Inv, PhaseInv
<1>5. removed' = removed
  BY Zenon DEF EngineChannelsUpdate
<1>6. /\ held' = held /\ terminations' = terminations
      /\ channels' = EngineChannelsUpdated
      /\ state' = "INITIALIZING" /\ outstanding' = EngineRequests
  BY <1>2 DEF EngineChannelsUpdate, StateSet
<1>7. DOMAIN channels' = DOMAIN channels
  BY <1>6 DEF EngineChannelsUpdated
<1>8. \A c \in DOMAIN channels : channels'[c].engine = channels[c].engine
  BY <1>4, <1>6, EngineChannelsAre
<1>9. ASSUME NEW c \in DOMAIN channels, channels[c].is_open
      PROVE  \/ channels'[c].is_open
             \/ \E sub \in outstanding' : sub.op = "close" /\ sub.channel = c
  BY <1>4, <1>6, <1>9, EngineChannelsAre
<1>10. AddInv'
  <2> SUFFICES ASSUME NEW sub \in outstanding'
               PROVE  /\ sub.op \notin {"add media", "add channel", "modify channel"}
                      /\ sub.op = "open" => /\ sub.channel \in DOMAIN channels
                                            /\ channels'[sub.channel].is_open
    BY <1>6, <1>7 DEF AddInv
  <2>1. sub.op \in {"open", "close"} /\ sub.channel \in Offered
    BY <1>4, <1>6, EngineChannelsAre
  <2>2. sub.channel \in DOMAIN channels
    BY <1>4, <2>1, EngineChannelsAre
  <2>3. channels'[sub.channel].is_open = Port(sub.channel)
    BY <1>4, <1>6, <2>1, <2>2, EngineChannelsAre
  <2>4. sub.op = "open" => Port(sub.channel)
    BY <1>4, <1>6, EngineChannelsAre
  <2> QED
    BY <2>1, <2>2, <2>3, <2>4
<1> QED
  BY <1>2, <1>5, <1>6, <1>7, <1>8, <1>9, <1>10, BatchHolds

(* mrcp_server_session_terminate_process asks for everything back.         *)
LEMMA TerminateProcessHolds ==
  ASSUME Inv, HoldInv, TerminateProcess
  PROVE  HoldInv'
<1> DEFINE reset == IF last_offer = NULL THEN {} ELSE {Sub("reset", 0, 0)}
           numbers == DOMAIN channels
           engines == WithEngine(channels)
           slots == DOMAIN terminations
           opened == {c \in DOMAIN channels : channels[c].is_open}
<1>1. Continues
  BY DEF TerminateProcess, ContinuesIn
<1>2. outstanding = {} /\ ~removed
  BY <1>1, NothingOutstandingToo, NotGone
<1>3. removed' = removed
  BY Zenon DEF TerminateProcess
<1>4. /\ held' = held /\ state' = "TERMINATING" /\ outstanding' = TerminationRequests
      /\ channels' = Leaving
      /\ terminations' = [s \in DOMAIN terminations |-> TRUE]
  BY <1>2 DEF TerminateProcess, StateSet, Leaving
<1>5. TerminationRequests =
        reset \cup Each("remove channel", numbers)
          \cup Each("subtract media", engines)
          \cup Each("close", opened)
          \cup EachSlot("subtract slot", slots)
  BY DEF TerminationRequests
<1>6. \A sub \in reset : sub.op = "reset"
  BY DEF Sub
<1>7. /\ \A n : n \in opened <=> n \in DOMAIN channels /\ channels[n].is_open
      /\ numbers = DOMAIN channels /\ engines = WithEngine(channels)
      /\ slots = DOMAIN terminations
  OBVIOUS
<1> HIDE DEF reset, numbers, engines, slots, opened
<1>14. \A op, indices : /\ \A sub \in Each(op, indices) : sub.op = op
                        /\ \A sub \in EachSlot(op, indices) : sub.op = op
  BY EachOp
<1>8. ASSUME NEW thing \in held
      PROVE  Releasing(thing)'
  <2>1. PICK kind \in {"channel", "media", "slot", "engine"}, n \in Nat : thing = <<kind, n>>
    BY HeldTyped DEF Holdings
  <2>2. thing[1] = kind /\ thing[2] = n
    BY <2>1
  <2>3. Recorded(thing) /\ ~Releasing(thing)
    BY <1>2 DEF HoldInv, HeldInv, Releasing
  <2>4. CASE kind = "channel"
    <3>1. n \in numbers
      BY <1>7, <2>2, <2>3, <2>4 DEF Recorded
    <3>2. Sub("remove channel", n, 0) \in outstanding'
      BY <1>4, <1>5, <3>1 DEF Each
    <3>3. Sub("remove channel", n, 0).op = "remove channel" /\ Sub("remove channel", n, 0).channel = n
      BY DEF Sub
    <3> QED
      BY <2>1, <2>4, <3>2, <3>3 DEF Releasing, Releases
  <2>5. CASE kind = "media"
    <3>1. n \in engines
      BY <1>7, <2>2, <2>3, <2>5 DEF Recorded
    <3>2. Sub("subtract media", n, 0) \in outstanding'
      BY <1>4, <1>5, <3>1 DEF Each
    <3>3. Sub("subtract media", n, 0).op = "subtract media" /\ Sub("subtract media", n, 0).channel = n
      BY DEF Sub
    <3> QED
      BY <2>1, <2>5, <3>2, <3>3 DEF Releasing, Releases
  <2>6. CASE kind = "slot"
    <3>1. n \in slots
      BY <1>7, <2>2, <2>3, <2>6 DEF Recorded
    <3>2. Sub("subtract slot", 0, n) \in outstanding'
      BY <1>4, <1>5, <3>1 DEF EachSlot
    <3>3. Sub("subtract slot", 0, n).op = "subtract slot" /\ Sub("subtract slot", 0, n).slot = n
      BY DEF Sub
    <3> QED
      BY <2>1, <2>6, <3>2, <3>3 DEF Releasing, Releases
  <2>7. CASE kind = "engine"
    <3>1. n \in opened
      BY <1>7, <2>2, <2>3, <2>7 DEF Recorded
    <3>2. Sub("close", n, 0) \in outstanding'
      BY <1>4, <1>5, <3>1 DEF Each
    <3>3. Sub("close", n, 0).op = "close" /\ Sub("close", n, 0).channel = n
      BY DEF Sub
    <3> QED
      BY <2>1, <2>7, <3>2, <3>3 DEF Releasing, Releases
  <2> QED
    BY <2>4, <2>5, <2>6, <2>7
<1>9. ReleaseInv'
  BY <1>4, <1>8 DEF ReleaseInv
<1>10. HeldInv'
  <2> SUFFICES ASSUME NEW thing \in held
               PROVE  Recorded(thing)'
    BY <1>4 DEF HeldInv
  <2>1. Recorded(thing) /\ Releasing(thing)'
    BY <1>8 DEF HoldInv, HeldInv
  <2>2. /\ DOMAIN channels' = DOMAIN channels
        /\ DOMAIN terminations' = DOMAIN terminations
    BY <1>4 DEF Leaving
  <2>3. ASSUME NEW c \in DOMAIN channels
        PROVE  channels'[c].engine = channels[c].engine
    <3>1. channels[c] \in Channel
      BY DEF Inv, TypeOK, ChannelsTypeOK
    <3> QED
      BY <1>4, <3>1 DEF Leaving, Channel
  <2> QED
    BY <2>1, <2>2, <2>3 DEF Recorded, WithEngine
<1>11. AddInv'
  <2> SUFFICES ASSUME NEW sub \in TerminationRequests
               PROVE  sub.op \notin {"add media", "open", "add channel", "modify channel"}
    BY <1>4 DEF AddInv
  <2>1. \/ sub.op = "reset"
        \/ \E op \in {"remove channel", "subtract media", "close"} : \E indices :
              sub \in Each(op, indices)
        \/ sub \in EachSlot("subtract slot", slots)
    BY <1>5, <1>6
  <2> QED
    BY <2>1, <1>14, Zenon
<1>12. GoneInv'
  BY <1>2, <1>3, Zenon DEF GoneInv
<1> QED
  BY <1>9, <1>10, <1>11, <1>12 DEF HoldInv

(* mrcp_server_session_terminate_send: every sub-request was answered.     *)
LEMMA TerminateSendHolds ==
  ASSUME Inv, HoldInv, TerminateSend
  PROVE  HoldInv'
<1>1. Continues /\ state = "TERMINATING"
  BY DEF TerminateSend, ContinuesIn
<1>2. outstanding = {}
  BY <1>1, NothingOutstandingToo
<1>3. UNCHANGED <<state, channels, terminations, outstanding, held>>
  BY DEF TerminateSend
<1>4. HeldInv' /\ ReleaseInv' /\ AddInv'
  BY <1>3 DEF HoldInv, HeldInv, ReleaseInv, AddInv, Recorded, Releasing, WithEngine
<1>5. GoneInv'
  BY <1>1, <1>2, <1>3 DEF GoneInv
<1> QED
  BY <1>4, <1>5 DEF HoldInv

(* mrcp_server_on_message_receive asks an engine for no more than an       *)
(* answer.                                                                 *)
LEMMA ControlProcessHolds ==
  ASSUME Inv, HoldInv, ControlProcess
  PROVE  HoldInv'
<1> DEFINE request == Sub("request", in_progress.channel, 0)
<1>1. dispatching
  BY DEF ControlProcess, Dispatches
<1>2. outstanding = {} /\ ~removed
  BY <1>1, NothingOutstanding, NotGone
<1>3. removed' = removed
  BY Zenon DEF ControlProcess, ControlFrame
<1>4. UNCHANGED <<state, channels, terminations, held>>
  BY DEF ControlProcess, ControlFrame
<1>5. outstanding' \subseteq {request}
  BY <1>2 DEF ControlProcess
<1>6. request.op = "request"
  BY DEF Sub
<1> HIDE DEF request
<1>7. AddInv'
  BY <1>5, <1>6 DEF AddInv
<1>8. HeldInv'
  BY <1>2, <1>4 DEF HoldInv, HeldInv, Recorded, Releasing, WithEngine
<1>9. ReleaseInv'
  BY <1>2, <1>4 DEF HoldInv, ReleaseInv, Releasing
<1>10. GoneInv'
  BY <1>2, <1>3, Zenon DEF GoneInv
<1> QED
  BY <1>7, <1>8, <1>9, <1>10 DEF HoldInv

(* Every step keeps what is held accounted for.                            *)
LEMMA NextHolds ==
  ASSUME Inv, HoldInv, [Next]_vars
  PROVE  HoldInv'
<1>1. ASSUME UNCHANGED <<state, channels, terminations>>, removed' = removed,
             UNCHANGED <<outstanding, held>>
      PROVE  HoldInv'
  BY <1>1, HoldKept
<1>2. CASE ClientStep
  <2>1. \E request : Send(request)
    BY <1>2 DEF ClientStep, ClientOffer, ClientControl, ClientTerminate
  <2>2. removed' = removed
    BY <2>1, Zenon DEF Send
  <2> QED
    BY <1>1, <2>1, <2>2 DEF Send
<1>3. CASE Completion
  <2>1. removed' = removed
    BY <1>3, Zenon DEF Completion, ControlCompleted, ControlFrame
  <2> QED
    BY <1>1, <1>3, <2>1 DEF Completion, ControlCompleted, ControlFrame
<1>4. CASE OfferRepeated
  <2>1. removed' = removed
    BY <1>4, Zenon DEF OfferRepeated
  <2> QED
    BY <1>1, <1>4, <2>1 DEF OfferRepeated
<1>5. CASE AnswerSend
  <2>1. removed' = removed
    BY <1>5, Zenon DEF AnswerSend
  <2> QED
    BY <1>1, <1>5, <2>1 DEF AnswerSend
<1>6. CASE UNCHANGED vars
  <2>1. removed' = removed
    BY <1>6, Zenon DEF vars
  <2> QED
    BY <1>1, <1>6, <2>1 DEF vars
<1>7. CASE TasksAnswer
  <2>1. PICK sub \in outstanding : SubAnswered(sub)
    BY <1>7 DEF TasksAnswer
  <2> QED
    BY <2>1, ChannelModifiedHolds, ChannelRemovedHolds, MediaAnsweredHolds,
       SlotAnsweredHolds, EngineAnsweredHolds DEF SubAnswered, SlotOps
<1>8. CASE ServerStep
  BY <1>4, <1>5, <1>8, OfferProcessHolds, DeactivateHolds,
     EngineChannelsUpdateHolds, TerminateProcessHolds, TerminateSendHolds,
     ControlProcessHolds DEF ServerStep
<1> QED
  BY <1>2, <1>3, <1>6, <1>7, <1>8 DEF Next

(***************************************************************************)
(* A session leaves the server's table and gives back its memory only when *)
(* no task holds a channel, a termination, a slot or an engine of it and   *)
(* none will answer it, whatever it was offered, whichever engines failed  *)
(* and whatever the client had asked for meanwhile                         *)
(* (mrcp_server_session_terminate_process and                              *)
(* mrcp_server_session_terminate_send).                                    *)
(***************************************************************************)
THEOREM NothingIsLeft == Spec => []SessionLeavesNothing
<1>1. Init => HoldInv
  BY DEF Init, HoldInv, HeldInv, ReleaseInv, AddInv, GoneInv
<1>2. Inv /\ HoldInv => SessionLeavesNothing
  BY DEF SessionLeavesNothing, HoldInv, GoneInv, ReleaseInv, Releasing
<1> QED
  BY <1>1, <1>2, InitInv, NextInv, NextHolds, PTL DEF Spec

-----------------------------------------------------------------------------
(* A complete answer.  The session finds the place of a channel in its     *)
(* answer by the id that the channel was created with, and the channel     *)
(* that a medium modifies by the medium's position.  Both are the same     *)
(* only if no offer has an unknown medium before another one, which is why *)
(* the theorems below ask for that.                                        *)

UnknownLast ==
    \A new \in Offers : \A i, j \in DOMAIN new.control :
        i < j /\ new.control[i].resource = "unknown"
          => new.control[j].resource = "unknown"

\* the new media of an offer that get no channel come after those that do
NoGap(new) ==
    \A i, j \in DOMAIN new.control :
        i < j /\ i > Len(channels) /\ new.control[i].resource = "unknown"
          => new.control[j].resource = "unknown"

NumberedInv == \A c \in DOMAIN channels : channels[c].id = c

\* will the control medium be described, the audio medium be there?
ToDescribe(i) ==
    \E sub \in outstanding :
        sub.op \in {"add channel", "modify channel"} /\ sub.channel = i

ToAnswer(s) ==
    \E sub \in outstanding : sub.op \in {"add slot", "modify slot"} /\ sub.slot = s

\* what an answer of status OK lacks is still to come
Described ==
    /\ DOMAIN answer.control = DOMAIN offer.control
    /\ answer.ok =>
         /\ \A i \in DOMAIN offer.control : answer.control[i] # "absent" \/ ToDescribe(i)
         /\ \A s \in 1 .. offer.audio : s \in answer.audio \/ ToAnswer(s)

Complete(asked, given) ==
    /\ DOMAIN given.control = DOMAIN asked.control
    /\ given.ok =>
         /\ \A i \in DOMAIN asked.control : given.control[i] # "absent"
         /\ 1 .. asked.audio \subseteq given.audio

CompleteInv ==
    /\ NumberedInv
    /\ InProgress("OFFER") => Described
    /\ last_offer # NULL => Complete(last_offer, last_answer)

(* The order of new media: where they leave no gap, each has the place     *)
(* after the one before it.                                                *)
LEMMA IncreasingFrom ==
  ASSUME NEW first \in Nat, NEW numbers \in SUBSET Nat, IsFiniteSet(numbers),
         \A n \in numbers : n > first /\ first + 1 .. n \subseteq numbers,
         NEW order \in Increasing(numbers), NEW j \in 1 .. Cardinality(numbers)
  PROVE  order[j] = first + j
<1> DEFINE count == Cardinality(numbers)
<1>1. count \in Nat
  BY FS_CardinalityType
<1>2. /\ order \in [1 .. count -> numbers]
      /\ \A i, k \in 1 .. count : i < k => order[i] < order[k]
  BY DEF Increasing
<1> HIDE DEF count
<1>3. j \in 1 .. count /\ j \in Nat
  BY <1>1 DEF count
<1>4. PICK m : m = order[j]
  OBVIOUS
<1>5. m \in numbers /\ m \in Nat /\ m > first
  BY <1>2, <1>3, <1>4
<1>6. \A i, k \in 1 .. count : order[i] = order[k] => i = k
  <2> SUFFICES ASSUME NEW i \in 1 .. count, NEW k \in 1 .. count, order[i] = order[k]
               PROVE  i = k
    OBVIOUS
  <2>1. order[i] \in Nat /\ order[k] \in Nat
    BY <1>2
  <2>2. ~(i < k) /\ ~(k < i)
    BY <1>2, <2>1
  <2> QED
    BY <1>1, <2>2
<1>7. j <= m - first
  <2> DEFINE below == [i \in 1 .. j |-> order[i]]
  <2>1. ASSUME NEW i \in 1 .. j
        PROVE  order[i] \in first + 1 .. m /\ i \in 1 .. count
    <3>1. i \in 1 .. count /\ (i < j \/ i = j)
      BY <1>1, <1>3
    <3>2. order[i] \in numbers /\ order[i] \in Nat /\ order[i] > first
      BY <1>2, <3>1
    <3>3. order[i] <= m
      BY <1>2, <1>3, <1>4, <1>5, <3>1, <3>2
    <3> QED
      BY <1>5, <3>1, <3>2, <3>3
  <2>2. below \in Injection(1 .. j, first + 1 .. m)
    BY <1>6, <2>1 DEF Injection, IsInjective
  <2>3. IsFiniteSet(first + 1 .. m) /\ Cardinality(first + 1 .. m) = m - first
    BY <1>5, FS_Interval
  <2>4. Cardinality(1 .. j) <= Cardinality(first + 1 .. m)
    BY <2>2, <2>3, FS_Injection
  <2>5. Cardinality(1 .. j) = j
    BY <1>3, FS_Interval
  <2> QED
    BY <2>3, <2>4, <2>5
<1>8. m - first <= j
  <2> DEFINE above == [i \in j .. count |-> order[i]]
             lower == first + 1 .. m - 1
             rest == numbers \ lower
  <2>1. ASSUME NEW i \in j .. count
        PROVE  order[i] \in rest /\ i \in 1 .. count
    <3>1. i \in 1 .. count /\ (j < i \/ i = j)
      BY <1>1, <1>3
    <3>2. order[i] \in numbers /\ order[i] \in Nat
      BY <1>2, <3>1
    <3>3. order[i] >= m
      BY <1>2, <1>3, <1>4, <1>5, <3>1, <3>2
    <3> QED
      BY <1>5, <3>1, <3>2, <3>3
  <2>2. above \in Injection(j .. count, rest)
    BY <1>6, <2>1 DEF Injection, IsInjective
  <2>3. lower \subseteq numbers
    <3>1. first + 1 .. m \subseteq numbers
      BY <1>5
    <3>2. lower \subseteq first + 1 .. m
      BY <1>5
    <3> QED
      BY <3>1, <3>2
  <2>4. Cardinality(lower) = m - 1 - first
    BY <1>5, FS_Interval
  <2>5. numbers \cap lower = lower
    BY <2>3
  <2> HIDE DEF above, lower
  <2>6. IsFiniteSet(rest) /\ Cardinality(rest) = count - (m - 1 - first)
    <3>1. IsFiniteSet(rest) /\ Cardinality(rest) = count - Cardinality(numbers \cap lower)
      BY FS_Difference DEF count
    <3> QED
      BY <2>4, <2>5, <3>1
  <2>7. Cardinality(j .. count) <= Cardinality(rest)
    <3> HIDE DEF rest
    <3> QED
      BY <2>2, <2>6, FS_Injection
  <2>8. Cardinality(j .. count) = count - j + 1
    BY <1>1, <1>3, FS_Interval
  <2> HIDE DEF rest
  <2> QED
    BY <1>1, <1>3, <1>5, <2>6, <2>7, <2>8
<1> QED
  BY <1>3, <1>4, <1>5, <1>7, <1>8

(* mrcp_server_control_media_offer_process: the channels are numbered as   *)
(* the media of the offer are, and a medium without a channel is unknown.  *)
LEMMA OfferNumbers ==
  ASSUME Inv, NEW new \in Offers, NoGap(new), NumberedInv,
         NEW order \in Increasing(NewPositions(new)), NEW full,
         NEW offered, offered = OfferedChannels(new, order, full)
  PROVE  /\ \A c \in DOMAIN offered : offered[c].id = c
         /\ \A c \in DOMAIN offered \ DOMAIN channels :
               c \in NewPositions(new) /\ offered[c] = NewChannel(new, c, full)
         /\ \A i \in DOMAIN new.control :
               new.control[i].resource # "unknown" => i \in DOMAIN offered
<1> DEFINE numbers == NewPositions(new)
<1>1. /\ order \in Seq(numbers)
      /\ DOMAIN offered = 1 .. Len(channels) + Len(order)
      /\ \A c \in DOMAIN channels : offered[c].id = channels[c].id
      /\ \A j \in 1 .. Len(order) :
            offered[Len(channels) + j] = NewChannel(new, order[j], full)
  <2>1. /\ order \in Seq(NewPositions(new))
        /\ DOMAIN offered = 1 .. Len(channels) + Len(order)
    BY OfferedChannelsAre
  <2>2. \A c \in DOMAIN channels : offered[c].id = channels[c].id
    BY OfferedChannelsAre
  <2>3. \A j \in 1 .. Len(order) :
           offered[Len(channels) + j] = NewChannel(new, order[j], full)
    BY OfferedChannelsAre
  <2> QED
    BY <2>1, <2>2, <2>3, Zenon
<1>2. channels \in Seq(Channel) /\ new.control \in Seq(ControlMedia)
  BY OfferTyped DEF Inv, TypeOK, ChannelsTypeOK
<1>3. /\ DOMAIN channels = 1 .. Len(channels) /\ Len(channels) \in Nat
      /\ DOMAIN new.control = 1 .. Len(new.control) /\ Len(new.control) \in Nat
  <2>1. \A S, queue : queue \in Seq(S) => DOMAIN queue = 1 .. Len(queue) /\ Len(queue) \in Nat
    OBVIOUS
  <2> QED
    BY <1>2, <2>1, Zenon
<1>4. \A i : i \in numbers <=> /\ i \in 1 .. Len(new.control) /\ i > Len(channels)
                              /\ new.control[i].resource # "unknown"
  BY <1>3 DEF NewPositions
<1>5. numbers \in SUBSET Nat /\ IsFiniteSet(numbers)
  <2>1. numbers \subseteq 1 .. Len(new.control)
    BY <1>4
  <2>2. IsFiniteSet(1 .. Len(new.control)) /\ 1 .. Len(new.control) \subseteq Nat
    <3>1. \A last \in Nat : IsFiniteSet(1 .. last) /\ 1 .. last \subseteq Nat
      BY FS_Interval
    <3> QED
      BY <1>3, <3>1, Zenon
  <2> HIDE DEF numbers
  <2> QED
    BY <2>1, <2>2, FS_Subset
<1>6. ASSUME NEW n \in numbers
      PROVE  n > Len(channels) /\ Len(channels) + 1 .. n \subseteq numbers
  <2>1. n \in 1 .. Len(new.control) /\ n > Len(channels)
    BY <1>4
  <2>2. ASSUME NEW i \in Len(channels) + 1 .. n
        PROVE  i \in numbers
    <3>1. i \in 1 .. Len(new.control) /\ i > Len(channels) /\ (i < n \/ i = n)
      BY <1>3, <2>1
    <3>2. new.control[i].resource # "unknown"
      BY <1>3, <1>4, <2>1, <3>1 DEF NoGap
    <3> QED
      BY <1>4, <3>1, <3>2
  <2> QED
    BY <2>1, <2>2
<1> HIDE DEF numbers
<1>7. order \in Increasing(numbers)
  BY DEF numbers
<1>8. Len(order) = Cardinality(numbers) /\ Len(order) \in Nat
  <2>1. Cardinality(numbers) \in Nat /\ order \in [1 .. Cardinality(numbers) -> numbers]
    BY <1>5, <1>7, FS_CardinalityType DEF Increasing
  <2> QED
    BY <2>1
<1>9. \A j \in 1 .. Len(order) : order[j] = Len(channels) + j
  BY <1>3, <1>5, <1>6, <1>7, <1>8, IncreasingFrom
<1>10. ASSUME NEW c \in DOMAIN offered \ DOMAIN channels
       PROVE  c \in numbers /\ offered[c] = NewChannel(new, c, full)
  <2>1. PICK j \in 1 .. Len(order) : c = Len(channels) + j
    <3>1. c - Len(channels) \in 1 .. Len(order)
      BY <1>1, <1>3, <1>8
    <3>2. c = Len(channels) + (c - Len(channels))
      BY <1>1, <1>3, <1>8
    <3> QED
      BY <3>1, <3>2
  <2>2. order[j] = c /\ order[j] \in numbers
    BY <1>1, <1>9, <2>1
  <2> QED
    BY <1>1, <2>1, <2>2
<1>11. ASSUME NEW c \in DOMAIN offered
       PROVE  offered[c].id = c
  <2>1. CASE c \in DOMAIN channels
    BY <1>1, <2>1 DEF NumberedInv
  <2>2. CASE c \notin DOMAIN channels
    BY <1>10, <2>2 DEF NewChannel
  <2> QED
    BY <2>1, <2>2
<1>12. ASSUME NEW i \in DOMAIN new.control, new.control[i].resource # "unknown"
       PROVE  i \in DOMAIN offered
  <2>1. CASE i <= Len(channels)
    BY <1>1, <1>3, <1>8, <2>1
  <2>2. CASE ~(i <= Len(channels))
    <3>1. i \in numbers /\ i \in Nat
      BY <1>3, <1>4, <1>12, <2>2
    <3>2. Len(channels) + 1 .. i \subseteq numbers
      BY <1>6, <3>1
    <3>3. Cardinality(Len(channels) + 1 .. i) = i - Len(channels)
      BY <1>3, <2>2, <3>1, FS_Interval
    <3>4. Cardinality(Len(channels) + 1 .. i) <= Cardinality(numbers)
      BY <1>5, <3>2, FS_Subset
    <3> QED
      BY <1>1, <1>3, <1>8, <2>2, <3>1, <3>3, <3>4
  <2> QED
    BY <2>1, <2>2
<1> QED
  BY <1>10, <1>11, <1>12 DEF numbers

(* The steps that change neither the channels' ids nor the last answer.    *)
LEMMA CompleteKept ==
  ASSUME CompleteInv, DOMAIN channels' = DOMAIN channels,
         \A c \in DOMAIN channels : channels'[c].id = channels[c].id,
         UNCHANGED <<last_offer, last_answer>>,
         InProgress("OFFER")' => Described'
  PROVE  CompleteInv'
BY DEF CompleteInv, NumberedInv, Complete

(* What an answer to a sub-request describes is no longer to come.         *)
LEMMA AnswerDescribes ==
  ASSUME CompleteInv, NEW sub \in outstanding, outstanding' = outstanding \ {sub},
         AnswerFrame, DOMAIN channels' = DOMAIN channels,
         \A c \in DOMAIN channels : channels'[c].id = channels[c].id,
         InProgress("OFFER") =>
           /\ DOMAIN answer'.control = DOMAIN answer.control
           /\ answer'.ok => answer.ok
           /\ \A i \in DOMAIN answer.control :
                \/ answer.control[i] # "absent"
                \/ sub.op \in {"add channel", "modify channel"} /\ sub.channel = i
                => answer'.control[i] # "absent"
           /\ answer.audio \subseteq answer'.audio
           /\ sub.op \in {"add slot", "modify slot"} => sub.slot \in answer'.audio
  PROVE  CompleteInv'
<1>1. offer' = offer /\ last_offer' = last_offer /\ last_answer' = last_answer
  BY DEF AnswerFrame
<1>2. InProgress("OFFER")' => InProgress("OFFER")
  BY Zenon DEF AnswerFrame, queueVars, InProgress
<1>3. ASSUME InProgress("OFFER") PROVE Described'
  <2>1. Described
    BY <1>3 DEF CompleteInv
  <2>2. \A i : ToDescribe(i) =>
           \/ ToDescribe(i)'
           \/ sub.op \in {"add channel", "modify channel"} /\ sub.channel = i
    BY DEF ToDescribe
  <2>3. \A s : ToAnswer(s) =>
           \/ ToAnswer(s)'
           \/ sub.op \in {"add slot", "modify slot"} /\ sub.slot = s
    BY DEF ToAnswer
  <2>4. DOMAIN answer'.control = DOMAIN offer'.control
    BY <1>1, <1>3, <2>1 DEF Described
  <2>5. ASSUME answer'.ok, NEW i \in DOMAIN offer.control
        PROVE  answer'.control[i] # "absent" \/ ToDescribe(i)'
    BY <1>3, <2>1, <2>2, <2>5 DEF Described
  <2>6. ASSUME answer'.ok, NEW s \in 1 .. offer.audio
        PROVE  s \in answer'.audio \/ ToAnswer(s)'
    BY <1>3, <2>1, <2>3, <2>6 DEF Described
  <2> QED
    BY <1>1, <2>4, <2>5, <2>6 DEF Described
<1> QED
  BY <1>1, <1>2, <1>3, CompleteKept

(* mrcp_session_control_media_set describes one medium.                    *)
LEMMA SetControlIs ==
  ASSUME answer \in Answer, NEW id, NEW granting, SetControl(id, granting)
  PROVE  /\ DOMAIN answer'.control = DOMAIN answer.control
         /\ answer'.ok = answer.ok /\ answer'.audio = answer.audio
         /\ \A i \in DOMAIN answer.control :
              answer'.control[i] = IF i = id
                                   THEN IF granting THEN "granted" ELSE "refused"
                                   ELSE answer.control[i]
<1> DEFINE status == IF granting THEN "granted" ELSE "refused"
<1>1. PICK control : control = answer.control
  OBVIOUS
<1>2. CASE id \in DOMAIN control
  <2>1. answer' = [answer EXCEPT !.control[id] = status]
    BY <1>1, <1>2 DEF SetControl
  <2>2. answer'.control = [control EXCEPT ![id] = status]
    BY <1>1, <2>1 DEF Answer
  <2>3. answer'.ok = answer.ok /\ answer'.audio = answer.audio
    BY <2>1 DEF Answer
  <2> HIDE DEF status
  <2>4. /\ DOMAIN answer'.control = DOMAIN control
        /\ \A i \in DOMAIN control :
             answer'.control[i] = IF i = id THEN status ELSE control[i]
    BY <2>2
  <2> QED
    BY <1>1, <2>3, <2>4 DEF status
<1>3. CASE id \notin DOMAIN control
  <2>1. answer' = answer
    BY <1>1, <1>3 DEF SetControl
  <2> QED
    BY <1>1, <1>3, <2>1
<1> QED
  BY <1>2, <1>3

(* mrcp_server_on_channel_modify describes the channel's medium.           *)
LEMMA ChannelModifiedCompletes ==
  ASSUME Inv, CompleteInv, NEW op \in {"add channel", "modify channel"}, NEW c,
         NEW position, ChannelModified(op, c, position)
  PROVE  CompleteInv'
<1>1. PICK sub \in outstanding :
         /\ sub.op = op /\ sub.channel = c
         /\ outstanding' = outstanding \ {sub}
  <2>1. Sub(op, c, 0) \in outstanding /\ outstanding' = outstanding \ {Sub(op, c, 0)}
    BY DEF ChannelModified, Answered
  <2>2. Sub(op, c, 0).op = op /\ Sub(op, c, 0).channel = c
    BY DEF Sub
  <2> QED
    BY <2>1, <2>2
<1>2. c \in DOMAIN channels /\ channels[c].waiting_for_channel /\ InProgress("OFFER")
  BY <1>1 DEF Inv, MarksInv, Marked, PhaseInv, ChannelOps, OfferOps
<1>3. answer \in Answer
  BY <1>2 DEF Inv, PhaseInv
<1>4. channels[c].id = c
  BY <1>2 DEF CompleteInv, NumberedInv
<1>5. SetControl(c, offer.control[position].port)
  BY <1>2, <1>4 DEF ChannelModified
<1>6. /\ DOMAIN answer'.control = DOMAIN answer.control
      /\ answer'.ok = answer.ok /\ answer'.audio = answer.audio
      /\ \A i \in DOMAIN answer.control :
            answer.control[i] # "absent" \/ c = i => answer'.control[i] # "absent"
  BY <1>3, <1>5, SetControlIs
<1>7. /\ DOMAIN channels' = DOMAIN channels
      /\ \A d \in DOMAIN channels : channels'[d].id = channels[d].id
  BY MarkCleared DEF ChannelModified
<1>8. AnswerFrame
  BY DEF ChannelModified
<1> QED
  BY <1>1, <1>6, <1>7, <1>8, AnswerDescribes

(* on_termination_modify adds the slot of an offer to its answer.          *)
LEMMA SlotAnsweredCompletes ==
  ASSUME Inv, CompleteInv, NEW op \in SlotOps, NEW s, SlotAnswered(op, s)
  PROVE  CompleteInv'
<1>1. PICK sub \in outstanding :
         /\ sub.op = op /\ sub.slot = s
         /\ outstanding' = outstanding \ {sub}
  <2>1. Sub(op, 0, s) \in outstanding /\ outstanding' = outstanding \ {Sub(op, 0, s)}
    BY DEF SlotAnswered, Answered
  <2>2. Sub(op, 0, s).op = op /\ Sub(op, 0, s).slot = s
    BY DEF Sub
  <2> QED
    BY <2>1, <2>2
<1>2. terminations[s] /\ sub.op \in SlotOps
  BY <1>1 DEF Inv, MarksInv, Marked
<1>3. AnswerFrame /\ channels' = channels
  BY DEF SlotAnswered
<1>4. answer' = IF op # "subtract slot"
                THEN [answer EXCEPT !.audio = @ \cup {s}] ELSE answer
  BY <1>2 DEF SlotAnswered
<1>5. ASSUME InProgress("OFFER")
      PROVE  /\ answer'.control = answer.control /\ answer'.ok = answer.ok
             /\ answer.audio \subseteq answer'.audio
             /\ op # "subtract slot" => s \in answer'.audio
  <2>1. answer \in Answer
    BY <1>5 DEF Inv, PhaseInv
  <2> QED
    BY <1>4, <2>1 DEF Answer
<1>6. sub.op \notin {"add channel", "modify channel"}
  BY <1>1 DEF SlotOps
<1> QED
  BY <1>1, <1>3, <1>5, <1>6, AnswerDescribes

(* The answers that are not about a medium of the offer.                   *)
LEMMA OthersComplete ==
  ASSUME Inv, CompleteInv, NEW sub \in outstanding,
         \/ ChannelRemoved(sub.channel)
         \/ \E op \in {"add media", "subtract media"} : MediaAnswered(op, sub.channel)
         \/ TopologyAnswered(sub)
         \/ \E success \in BOOLEAN : EngineOpened(sub.channel, success)
         \/ EngineClosed(sub.channel)
         \/ MachineDeactivated(sub.channel)
  PROVE  CompleteInv'
<1>1. AnswerFrame
  BY DEF ChannelRemoved, MediaAnswered, TopologyAnswered, EngineOpened,
         EngineClosed, MachineDeactivated
<1>2. PICK other \in outstanding :
         /\ outstanding' = outstanding \ {other}
         /\ other.op \notin {"add channel", "modify channel", "add slot", "modify slot"}
  <2>1. CASE ChannelRemoved(sub.channel)
    <3>1. Sub("remove channel", sub.channel, 0).op = "remove channel"
      BY DEF Sub
    <3> QED
      BY <2>1, <3>1 DEF ChannelRemoved, Answered
  <2>2. CASE \E op \in {"add media", "subtract media"} : MediaAnswered(op, sub.channel)
    <3>1. PICK op \in {"add media", "subtract media"} : MediaAnswered(op, sub.channel)
      BY <2>2
    <3>2. Sub(op, sub.channel, 0).op = op
      BY DEF Sub
    <3> QED
      BY <3>1, <3>2 DEF MediaAnswered, Answered
  <2>3. CASE TopologyAnswered(sub)
    BY <2>3 DEF TopologyAnswered, Answered
  <2>4. CASE \E success \in BOOLEAN : EngineOpened(sub.channel, success)
    <3>1. Sub("open", sub.channel, 0).op = "open"
      BY DEF Sub
    <3> QED
      BY <2>4, <3>1 DEF EngineOpened, Answered
  <2>5. CASE EngineClosed(sub.channel)
    <3>1. Sub("close", sub.channel, 0).op = "close"
      BY DEF Sub
    <3> QED
      BY <2>5, <3>1 DEF EngineClosed, Answered
  <2>6. CASE MachineDeactivated(sub.channel)
    <3>1. Sub("stop", sub.channel, 0).op = "stop"
      BY DEF Sub
    <3> QED
      BY <2>6, <3>1 DEF MachineDeactivated, Answered
  <2> QED
    BY <2>1, <2>2, <2>3, <2>4, <2>5, <2>6
<1>3. /\ DOMAIN channels' = DOMAIN channels
      /\ \A d \in DOMAIN channels : channels'[d].id = channels[d].id
  <2>1. \/ \E c : channels' = [channels EXCEPT ![c].waiting_for_channel = FALSE]
        \/ \E c : channels' = [channels EXCEPT ![c].waiting_for_termination = FALSE]
        \/ channels' = channels
    BY DEF ChannelRemoved, MediaAnswered, TopologyAnswered, EngineOpened,
           EngineClosed, MachineDeactivated
  <2> QED
    BY <2>1, MarkCleared
<1>4. ASSUME InProgress("OFFER")
      PROVE  /\ answer'.control = answer.control /\ answer'.audio = answer.audio
             /\ answer'.ok => answer.ok
  <2>1. answer \in Answer
    BY <1>4 DEF Inv, PhaseInv
  <2>2. CASE answer' = answer
    BY <2>2
  <2>3. ASSUME NEW success \in BOOLEAN, answer' = [answer EXCEPT !.ok = @ /\ success]
        PROVE  /\ answer'.control = answer.control /\ answer'.audio = answer.audio
               /\ answer'.ok => answer.ok
    BY <2>1, <2>3 DEF Answer
  <2> QED
    BY <2>2, <2>3 DEF ChannelRemoved, MediaAnswered, TopologyAnswered, EngineOpened,
                      EngineClosed, MachineDeactivated
<1> QED
  BY <1>1, <1>2, <1>3, <1>4, AnswerDescribes

(* When a request ends, the next one is yet to be dispatched.              *)
LEMMA PopEnds ==
  ASSUME PopRequest
  PROVE  ~InProgress("OFFER")'
BY Zenon DEF PopRequest, InProgress

(* mrcp_server_session_offer_process: for each medium that the answer is to *)
(* describe, a sub-request is sent.                                        *)
LEMMA OfferProcessCompletes ==
  ASSUME Inv, CompleteInv, OfferProcess, UnknownLast \/ answer'.ok
  PROVE  CompleteInv'
<1> DEFINE new == in_progress.offer
<1>1. dispatching /\ in_progress # NULL /\ in_progress.type = "OFFER"
  BY Zenon DEF OfferProcess, Dispatches, Inv, PhaseInv
<1>2. new \in Offers
  BY <1>1 DEF Inv, TargetsInv, Targeted
<1>3. outstanding = {}
  BY <1>1, NothingOutstanding
<1>4. offer' = new /\ last_offer' = last_offer /\ last_answer' = last_answer
  BY DEF OfferProcess
<1>5. PICK order \in Increasing(NewPositions(new)),
           full \in SUBSET NewPositions(new), ok \in BOOLEAN :
             Taken(new, order, full, ok)
  BY OfferTaken
<1> HIDE DEF new
<1>6. /\ channels' = OfferedChannels(new, order, full)
      /\ answer' = EmptyAnswer(new, ok)
      /\ outstanding' = OfferRequests(new, channels')
      /\ ok => \A i \in DOMAIN new.control :
                  i > Len(channels) => new.control[i].resource = "known"
  BY <1>3, <1>5 DEF Taken, StateSet
<1>7. /\ DOMAIN channels \subseteq DOMAIN channels'
      /\ DOMAIN channels = 1 .. Len(channels) /\ Len(channels) \in Nat
      /\ new.control \in Seq(ControlMedia) /\ new.audio \in Nat
  <2>1. DOMAIN channels \subseteq DOMAIN channels'
    BY <1>2, <1>6, OfferedChannelsAre
  <2> QED
    BY <1>2, <2>1, OfferTyped DEF Inv, TypeOK, ChannelsTypeOK
<1>8. /\ \A c \in DOMAIN channels' : channels'[c].id = c
      /\ \A i \in DOMAIN new.control :
            new.control[i].resource # "unknown" => i \in DOMAIN channels'
  <2>1. NumberedInv
    BY DEF CompleteInv
  <2>2. answer'.ok = ok
    BY <1>6 DEF EmptyAnswer
  <2>3. NoGap(new)
    BY <1>2, <1>6, <1>7, <2>2 DEF NoGap, UnknownLast
  <2> QED
    BY <1>2, <1>6, <2>1, <2>3, OfferNumbers
<1>9. NumberedInv'
  BY <1>8 DEF NumberedInv
<1>10. DOMAIN answer'.control = DOMAIN new.control /\ answer'.ok = ok
  BY <1>6 DEF EmptyAnswer
<1>11. ASSUME ok, NEW i \in DOMAIN new.control
       PROVE  ToDescribe(i)'
  <2>1. i \in 1 .. Len(new.control) /\ Len(new.control) \in Nat
    BY <1>7
  <2>2. CASE i \in DOMAIN channels
    <3>1. Sub("modify channel", i, 0) \in outstanding'
      BY <1>6, <2>2 DEF OfferRequests, ControlRequests, Each
    <3>2. /\ Sub("modify channel", i, 0).op = "modify channel"
          /\ Sub("modify channel", i, 0).channel = i
      BY DEF Sub
    <3> QED
      BY <3>1, <3>2 DEF ToDescribe
  <2>3. CASE i \notin DOMAIN channels
    <3>1. i > Len(channels)
      BY <1>7, <2>1, <2>3
    <3>2. i \in DOMAIN channels'
      BY <1>6, <1>8, <1>11, <3>1
    <3>3. Sub("add channel", i, 0) \in outstanding'
      BY <1>6, <2>3, <3>2 DEF OfferRequests, ControlRequests, Each
    <3>4. /\ Sub("add channel", i, 0).op = "add channel"
          /\ Sub("add channel", i, 0).channel = i
      BY DEF Sub
    <3> QED
      BY <3>3, <3>4 DEF ToDescribe
  <2> QED
    BY <2>2, <2>3
<1>15. /\ EachSlot("modify slot", (1 .. new.audio) \cap DOMAIN terminations) \subseteq outstanding'
       /\ EachSlot("add slot", (1 .. new.audio) \ DOMAIN terminations) \subseteq outstanding'
  <2> DEFINE slots == 1 .. new.audio
             associations ==
               {Sub("associate", c, s) : c \in WithEngine(channels'), s \in slots}
  <2>1. AudioRequests(new, channels') =
          EachSlot("modify slot", slots \cap DOMAIN terminations)
            \cup EachSlot("add slot", slots \ DOMAIN terminations)
            \cup associations
    BY DEF AudioRequests
  <2> HIDE DEF associations
  <2> QED
    BY <1>6, <2>1 DEF OfferRequests
<1>12. ASSUME NEW s \in 1 .. new.audio
       PROVE  ToAnswer(s)'
  <2>1. CASE s \in DOMAIN terminations
    <3>0. s \in (1 .. new.audio) \cap DOMAIN terminations
      BY <2>1
    <3>1. Sub("modify slot", 0, s) \in outstanding'
      <4>1. Sub("modify slot", 0, s) \in EachSlot("modify slot", (1 .. new.audio) \cap DOMAIN terminations)
        BY <3>0, Zenon DEF EachSlot
      <4> QED
        BY <1>15, <4>1, Zenon
    <3>2. /\ Sub("modify slot", 0, s).op = "modify slot"
          /\ Sub("modify slot", 0, s).slot = s
      BY DEF Sub
    <3> QED
      BY <3>1, <3>2 DEF ToAnswer
  <2>2. CASE s \notin DOMAIN terminations
    <3>0. s \in (1 .. new.audio) \ DOMAIN terminations
      BY <2>2
    <3>1. Sub("add slot", 0, s) \in outstanding'
      <4>1. Sub("add slot", 0, s) \in EachSlot("add slot", (1 .. new.audio) \ DOMAIN terminations)
        BY <3>0, Zenon DEF EachSlot
      <4> QED
        BY <1>15, <4>1, Zenon
    <3>2. /\ Sub("add slot", 0, s).op = "add slot"
          /\ Sub("add slot", 0, s).slot = s
      BY DEF Sub
    <3> QED
      BY <3>1, <3>2 DEF ToAnswer
  <2> QED
    BY <2>1, <2>2
<1>13. Described'
  BY <1>4, <1>10, <1>11, <1>12 DEF Described
<1>14. last_offer' # NULL => Complete(last_offer', last_answer')
  BY <1>4 DEF CompleteInv
<1> QED
  BY <1>9, <1>13, <1>14 DEF CompleteInv, Complete

(* An offer that is repeated gets an answer that was complete.             *)
LEMMA OfferRepeatedCompletes ==
  ASSUME Inv, CompleteInv, OfferRepeated
  PROVE  CompleteInv'
<1>1. dispatching /\ in_progress # NULL /\ in_progress.type = "OFFER"
  BY Zenon DEF OfferRepeated, Dispatches, Inv, PhaseInv
<1>2. in_progress.offer \in Offers
  BY <1>1 DEF Inv, TargetsInv, Targeted
<1>3. /\ offer' = last_offer /\ answer' = last_answer
      /\ channels' = channels /\ last_offer' = last_offer /\ last_answer' = last_answer
      /\ in_progress.offer = last_offer
  BY DEF OfferRepeated
<1>4. last_offer # NULL
  BY <1>2, <1>3, SessionAssumption
<1>5. Complete(last_offer, last_answer)
  BY <1>4 DEF CompleteInv
<1>6. Described'
  BY <1>3, <1>5 DEF Described, Complete
<1> QED
  BY <1>3, <1>6, CompleteKept

(* mrcp_server_session_answer_send: nothing is to come, so that what the   *)
(* client gets is complete.                                                *)
LEMMA AnswerSendCompletes ==
  ASSUME Inv, CompleteInv, AnswerSend
  PROVE  Complete(offer, answer) /\ CompleteInv'
<1>1. Continues /\ state = "INITIALIZING"
  BY DEF AnswerSend, ContinuesIn
<1>2. outstanding = {} /\ InProgress("OFFER")
  BY <1>1, NothingOutstandingToo DEF Inv, PhaseInv
<1>3. Described
  BY <1>2 DEF CompleteInv
<1>4. Complete(offer, answer)
  BY <1>2, <1>3 DEF Described, Complete, ToDescribe, ToAnswer
<1>5. last_offer' = offer /\ last_answer' = answer /\ channels' = channels
  BY DEF AnswerSend
<1>6. ~InProgress("OFFER")'
  BY PopEnds DEF AnswerSend
<1>7. NumberedInv'
  BY <1>5 DEF CompleteInv, NumberedInv
<1> QED
  BY <1>4, <1>5, <1>6, <1>7 DEF CompleteInv, Complete

(* The steps that are not about an offer.                                  *)
LEMMA RequestsComplete ==
  ASSUME Inv, CompleteInv,
         \/ ClientStep \/ Completion \/ ControlProcess \/ Deactivate
         \/ TerminateProcess \/ TerminateSend \/ UNCHANGED vars
         \/ \E c : ControlAnswered(c)
  PROVE  CompleteInv'
<1>1. /\ last_offer' = last_offer /\ last_answer' = last_answer
      /\ offer' = offer /\ answer' = answer
  BY DEF ClientStep, ClientOffer, ClientControl, ClientTerminate, Send, Completion,
         ControlCompleted, ControlProcess, ControlAnswered, ControlFrame, Deactivate,
         TerminateProcess, TerminateSend, vars, offerVars
<1>2. /\ DOMAIN channels' = DOMAIN channels
      /\ \A c \in DOMAIN channels : channels'[c].id = channels[c].id
  <2>1. CASE TerminateProcess
    <3>1. channels' = Leaving
      BY <2>1 DEF TerminateProcess, Leaving
    <3>2. \A c \in DOMAIN channels : channels[c] \in Channel
      BY DEF Inv, TypeOK, ChannelsTypeOK
    <3> QED
      BY <3>1, <3>2 DEF Leaving, Channel
  <2>2. CASE ~TerminateProcess
    <3>1. channels' = channels
      BY <2>2 DEF ClientStep, ClientOffer, ClientControl, ClientTerminate, Send,
         Completion, ControlCompleted, ControlProcess, ControlAnswered, ControlFrame,
         Deactivate, TerminateSend, vars
    <3> QED
      BY <3>1
  <2> QED
    BY <2>1, <2>2
<1>3. ASSUME InProgress("OFFER")'
      PROVE  InProgress("OFFER") /\ outstanding' = outstanding
  <2>1. CASE ClientStep
    <3>1. \E request : Send(request)
      BY <2>1 DEF ClientStep, ClientOffer, ClientControl, ClientTerminate
    <3>2. PICK request : Send(request)
      BY <3>1
    <3>3. Enqueue(request) /\ ~dispatching'
      BY <1>3, <3>2, Zenon DEF Send, InProgress
    <3>6. UNCHANGED <<in_progress, dispatching>>
      <4>1. CASE dispatching' = TRUE
        BY <3>3, <4>1, Zenon
      <4> QED
        BY <3>3, <4>1 DEF Enqueue
    <3>7. in_progress' = in_progress /\ dispatching' = dispatching
      BY <3>6
    <3>4. in_progress' = in_progress /\ ~dispatching
      BY <3>3, <3>7, Zenon
    <3>5. InProgress("OFFER")
      BY <1>3, <3>4, Zenon DEF InProgress
    <3> QED
      BY <3>2, <3>5 DEF Send
  <2>2. CASE Completion
    <3>2. in_progress' = in_progress
      BY <2>2 DEF Completion, ControlCompleted, queueVars
    <3>3. dispatching' = dispatching
      BY <2>2, Zenon DEF Completion, ControlCompleted, queueVars
    <3>1. InProgress("OFFER")
      BY <1>3, <3>2, <3>3, Zenon DEF InProgress
    <3> QED
      BY <2>2, <3>1 DEF Completion, ControlCompleted
  <2>3. CASE ControlProcess
    <3>1. in_progress.type = "CONTROL" /\ (PopRequest \/ in_progress' = in_progress)
      BY <2>3 DEF ControlProcess, Dispatches
    <3> QED
      BY <1>3, <3>1, PopEnds, Zenon DEF InProgress
  <2>4. CASE Deactivate
    <3>1. in_progress.type = "TERMINATE" /\ in_progress' = in_progress
      BY <2>4 DEF Deactivate, Dispatches
    <3> QED
      BY <1>3, <3>1, Zenon DEF InProgress
  <2>5. CASE TerminateProcess
    <3>1. InProgress("TERMINATE")
      BY <2>5 DEF TerminateProcess, ContinuesIn, Inv, PhaseInv
    <3>2. in_progress' = in_progress
      BY <2>5 DEF TerminateProcess, queueVars
    <3> QED
      BY <1>3, <3>1, <3>2, Zenon DEF InProgress
  <2>6. CASE TerminateSend
    <3>1. InProgress("OFFER")
      BY <1>3, <2>6, Zenon DEF TerminateSend, queueVars, InProgress
    <3> QED
      BY <2>6, <3>1 DEF TerminateSend
  <2>7. CASE UNCHANGED vars
    <3>1. InProgress("OFFER")
      BY <1>3, <2>7, Zenon DEF vars, queueVars, InProgress
    <3> QED
      BY <2>7, <3>1 DEF vars
  <2>8. CASE \E c : ControlAnswered(c)
    BY <1>3, <2>8, PopEnds DEF ControlAnswered
  <2> QED
    BY <2>1, <2>2, <2>3, <2>4, <2>5, <2>6, <2>7, <2>8
<1>4. ASSUME InProgress("OFFER")' PROVE Described'
  BY <1>1, <1>3, <1>4 DEF CompleteInv, Described, ToDescribe, ToAnswer
<1> QED
  BY <1>1, <1>2, <1>4, CompleteKept

(* mrcp_server_engine_channels_update follows the last description.        *)
LEMMA EngineChannelsUpdateCompletes ==
  ASSUME Inv, CompleteInv, EngineChannelsUpdate
  PROVE  CompleteInv'
<1>1. Continues /\ state = "GENERATING_ANSWER"
  BY DEF EngineChannelsUpdate, ContinuesIn
<1>2. outstanding = {} /\ InProgress("OFFER")
  BY <1>1, NothingOutstandingToo DEF Inv, PhaseInv
<1>3. offer \in Offers /\ Described
  BY <1>2 DEF Inv, PhaseInv, CompleteInv
<1>4. /\ offer' = offer /\ answer' = answer /\ channels' = EngineChannelsUpdated
      /\ last_offer' = last_offer /\ last_answer' = last_answer
  BY DEF EngineChannelsUpdate, offerVars
<1>5. /\ DOMAIN channels' = DOMAIN channels
      /\ \A c \in DOMAIN channels : channels'[c].id = channels[c].id
  <2>1. DOMAIN channels' = DOMAIN channels
    BY <1>4 DEF EngineChannelsUpdated
  <2> QED
    BY <1>3, <1>4, <2>1, EngineChannelsAre
<1>6. Described'
  BY <1>2, <1>3, <1>4 DEF Described, ToDescribe, ToAnswer
<1> QED
  BY <1>4, <1>5, <1>6, CompleteKept

(* Every step keeps an answer complete in the end.                         *)
LEMMA NextCompletes ==
  ASSUME Inv, CompleteInv, [Next]_vars,
         UnknownLast \/ (OfferProcess => answer'.ok)
  PROVE  CompleteInv'
<1>1. CASE TasksAnswer
  <2>1. PICK sub \in outstanding : SubAnswered(sub)
    BY <1>1 DEF TasksAnswer
  <2>2. CASE ControlAnswered(sub.channel)
    BY <2>2, RequestsComplete
  <2>3. CASE \E op \in {"add channel", "modify channel"} : \E position :
                ChannelModified(op, sub.channel, position)
    BY <2>3, ChannelModifiedCompletes
  <2>4. CASE \E op \in SlotOps : SlotAnswered(op, sub.slot)
    BY <2>4, SlotAnsweredCompletes
  <2> QED
    BY <2>1, <2>2, <2>3, <2>4, OthersComplete DEF SubAnswered, SlotOps
<1>2. CASE ServerStep
  BY <1>2, OfferRepeatedCompletes, OfferProcessCompletes, RequestsComplete,
     EngineChannelsUpdateCompletes, AnswerSendCompletes DEF ServerStep
<1> QED
  BY <1>1, <1>2, RequestsComplete DEF Next

(* Only the answer to an offer counts as one.                              *)
LEMMA OnlyAnswers ==
  ASSUME [Next]_vars, ~AnswerSend
  PROVE  answered' = answered
<1>1. ASSUME Next PROVE answered' = answered
  BY <1>1 DEF Next, ClientStep, ClientOffer, ClientControl, ClientTerminate, Send,
         TasksAnswer, SubAnswered, ChannelModified, ChannelRemoved, MediaAnswered,
         SlotAnswered, TopologyAnswered, EngineOpened, EngineClosed,
         MachineDeactivated, ControlAnswered, AnswerFrame, ControlFrame,
         Completion, ControlCompleted, ServerStep, OfferRepeated, OfferProcess,
         ControlProcess, Deactivate, EngineChannelsUpdate, TerminateProcess,
         TerminateSend, clientVars
<1> QED
  BY <1>1 DEF vars, clientVars

(***************************************************************************)
(* An answer of status OK describes every control medium and every audio   *)
(* medium of its offer, in whichever order the tasks describe them, and    *)
(* the answer to a repeated offer does too, as long as no offer has an     *)
(* unknown medium before another one (mrcp_server_session_answer_send;     *)
(* mrcp_session_control_media_set goes by the id of the channel).          *)
(***************************************************************************)
THEOREM AnswersAreComplete == ASSUME UnknownLast PROVE Spec => AnswerComplete
<1>1. Init => CompleteInv
  BY DEF Init, QueueInit, CompleteInv, NumberedInv, InProgress
<1>2. ASSUME Inv, CompleteInv, [Next]_vars
      PROVE  [AnswersOffer /\ answer.ok =>
                /\ \A i \in DOMAIN offer.control : answer.control[i] # "absent"
                /\ 1 .. offer.audio \subseteq answer.audio]_vars
  <2>1. CASE AnswerSend
    BY <1>2, <2>1, AnswerSendCompletes DEF Complete
  <2> QED
    BY <1>2, <2>1, OnlyAnswers DEF AnswersOffer
<1> QED
  BY <1>1, <1>2, InitInv, NextInv, NextCompletes, PTL DEF Spec, AnswerComplete

-----------------------------------------------------------------------------
(* What is agreed to is served.  Until an offer fails (Clean), every       *)
(* channel has an engine and the number of its medium, a channel that the  *)
(* answer agrees to was to be opened (WantedInv), and a channel that the   *)
(* session takes for open is open, or its engine has yet to answer         *)
(* (OpenInv).                                                              *)

Clean == ~refused /\ (InProgress("OFFER") => answer.ok)

EnginesInv == \A c \in DOMAIN channels : channels[c].engine

Opening(c) == \E sub \in outstanding : sub.op = "open" /\ sub.channel = c

Closing(c) == \E sub \in outstanding : sub.op = "close" /\ sub.channel = c

OpenInv ==
    \A c \in DOMAIN channels :
        /\ channels[c].is_open => <<"engine", c>> \in held \/ Opening(c)
        /\ Closing(c) => ~channels[c].is_open

Agreed(asked, given, c) ==
    c \in DOMAIN channels /\ c \in DOMAIN asked.control /\ given.control[c] = "granted"

Wanted(c) ==
    /\ state = "GENERATING_ANSWER" => offer.control[c].port
    /\ state = "INITIALIZING" => channels[c].is_open

WantedInv ==
    /\ state = "GENERATING_ANSWER" => InProgress("OFFER")
    /\ InProgress("OFFER") => \A c : Agreed(offer, answer, c) => Wanted(c)
    /\ last_offer # NULL /\ state = "INITIALIZING" /\ ~InProgress("OFFER") =>
         \A c : Agreed(last_offer, last_answer, c) => channels[c].is_open

ServedInv == EnginesInv /\ OpenInv /\ WantedInv

CleanInv == Clean => CompleteInv /\ ServedInv

(* The steps that leave channels and engines alone.                        *)
LEMMA ServesKept ==
  ASSUME ServedInv, UNCHANGED <<channels, held, state, last_offer, last_answer>>,
         \A sub \in outstanding : sub.op = "open" => sub \in outstanding',
         \A sub \in outstanding' : sub.op = "close" => sub \in outstanding,
         InProgress("OFFER")' <=> InProgress("OFFER"),
         InProgress("OFFER") => offer' = offer /\ answer' = answer
  PROVE  ServedInv'
<1>1. EnginesInv'
  BY DEF ServedInv, EnginesInv
<1>2. OpenInv'
  BY DEF ServedInv, OpenInv, Opening, Closing
<1>3. WantedInv'
  <2>1. \A asked, given, c : Agreed(asked, given, c)' <=> Agreed(asked, given, c)
    BY DEF Agreed
  <2>2. InProgress("OFFER") => \A c : Agreed(offer, answer, c)' => Agreed(offer, answer, c)
    BY DEF Agreed
  <2>3. InProgress("OFFER") => \A c : Wanted(c) => Wanted(c)'
    BY DEF Wanted
  <2>4. \A c : Agreed(last_offer, last_answer, c)' => Agreed(last_offer, last_answer, c)
    BY DEF Agreed
  <2> QED
    BY <2>2, <2>3, <2>4 DEF ServedInv, WantedInv
<1> QED
  BY <1>1, <1>2, <1>3 DEF ServedInv

(* What is common to the answers of the tasks.                             *)
LEMMA AnswerServes ==
  ASSUME ServedInv, NEW sub \in outstanding, outstanding' = outstanding \ {sub},
         AnswerFrame, DOMAIN channels' = DOMAIN channels,
         \A c \in DOMAIN channels : /\ channels'[c].engine = channels[c].engine
                                    /\ channels'[c].is_open = channels[c].is_open,
         \A c : /\ <<"engine", c>> \in held
                /\ ~(sub.op = "close" /\ sub.channel = c)
                => <<"engine", c>> \in held',
         sub.op = "open" => <<"engine", sub.channel>> \in held',
         InProgress("OFFER") =>
           \A c \in DOMAIN channels :
              c \in DOMAIN offer.control /\ answer'.control[c] = "granted"
                => answer.control[c] = "granted" \/ Wanted(c)
  PROVE  ServedInv'
<1>1. UNCHANGED <<state, offer, last_offer, last_answer>>
  BY DEF AnswerFrame
<1>2. InProgress("OFFER")' <=> InProgress("OFFER")
  BY Zenon DEF AnswerFrame, queueVars, InProgress
<1>3. EnginesInv'
  BY DEF ServedInv, EnginesInv
<1>4. OpenInv'
  <2> SUFFICES ASSUME NEW c \in DOMAIN channels
               PROVE  /\ channels[c].is_open => <<"engine", c>> \in held' \/ Opening(c)'
                      /\ Closing(c)' => ~channels[c].is_open
    BY DEF OpenInv
  <2>1. /\ channels[c].is_open => <<"engine", c>> \in held \/ Opening(c)
        /\ Closing(c) => ~channels[c].is_open
    BY DEF ServedInv, OpenInv
  <2>2. Closing(c)' => Closing(c)
    BY DEF Closing
  <2>3. Opening(c) => Opening(c)' \/ <<"engine", c>> \in held'
    BY DEF Opening
  <2>4. channels[c].is_open => ~(sub.op = "close" /\ sub.channel = c)
    BY <2>1 DEF Closing
  <2> QED
    BY <2>1, <2>2, <2>3, <2>4
<1>5. WantedInv'
  <2>1. \A c : Agreed(last_offer, last_answer, c)' => Agreed(last_offer, last_answer, c)
    BY <1>1 DEF Agreed
  <2>2. \A c \in DOMAIN channels : Wanted(c) => Wanted(c)'
    BY <1>1 DEF Wanted
  <2>3. ASSUME InProgress("OFFER"), NEW c, Agreed(offer, answer, c)'
        PROVE  Wanted(c)'
    <3>1. /\ c \in DOMAIN channels /\ c \in DOMAIN offer.control
          /\ answer'.control[c] = "granted"
      BY <1>1, <2>3 DEF Agreed
    <3>2. answer.control[c] = "granted" \/ Wanted(c)
      BY <2>3, <3>1
    <3>3. Wanted(c)
      BY <2>3, <3>1, <3>2 DEF ServedInv, WantedInv, Agreed
    <3> QED
      BY <2>2, <3>1, <3>3
  <2>4. last_offer' # NULL /\ state' = "INITIALIZING" /\ ~InProgress("OFFER") =>
           \A c : Agreed(last_offer, last_answer, c)' => channels'[c].is_open
    BY <1>1, <2>1 DEF ServedInv, WantedInv, Agreed
  <2> QED
    BY <1>1, <1>2, <2>3, <2>4 DEF ServedInv, WantedInv
<1> QED
  BY <1>3, <1>4, <1>5 DEF ServedInv

(* mrcp_server_on_channel_modify agrees to a medium that has a port, and   *)
(* whose channel is to be opened for that.                                 *)
LEMMA ChannelModifiedServes ==
  ASSUME Inv, HoldInv, CompleteInv, ServedInv,
         NEW op \in {"add channel", "modify channel"}, NEW c,
         NEW position, position = c \/ position = channels[c].id,
         ChannelModified(op, c, position)
  PROVE  ServedInv'
<1>1. PICK sub \in outstanding :
         /\ sub.op = op /\ sub.channel = c
         /\ outstanding' = outstanding \ {sub}
  <2>1. Sub(op, c, 0) \in outstanding /\ outstanding' = outstanding \ {Sub(op, c, 0)}
    BY DEF ChannelModified, Answered
  <2>2. Sub(op, c, 0).op = op /\ Sub(op, c, 0).channel = c
    BY DEF Sub
  <2> QED
    BY <2>1, <2>2
<1>2. c \in DOMAIN channels /\ channels[c].waiting_for_channel /\ InProgress("OFFER")
  BY <1>1 DEF Inv, MarksInv, Marked, PhaseInv, ChannelOps, OfferOps
<1>3. answer \in Answer
  BY <1>2 DEF Inv, PhaseInv
<1>4. channels[c].id = c /\ position = c
  BY <1>2 DEF CompleteInv, NumberedInv
<1>5. SetControl(c, offer.control[c].port)
  BY <1>2, <1>4 DEF ChannelModified
<1>6. state = "GENERATING_ANSWER"
  BY <1>1 DEF HoldInv, AddInv
<1>7. /\ DOMAIN channels' = DOMAIN channels
      /\ \A d \in DOMAIN channels : /\ channels'[d].engine = channels[d].engine
                                    /\ channels'[d].is_open = channels[d].is_open
  BY MarkCleared DEF ChannelModified
<1>8. AnswerFrame /\ held' = held \cup {<<"channel", c>>}
  BY DEF ChannelModified
<1>9. ASSUME NEW d \in DOMAIN channels,
             d \in DOMAIN offer.control, answer'.control[d] = "granted"
      PROVE  answer.control[d] = "granted" \/ Wanted(d)
  <2>1. d \in DOMAIN answer.control
    BY <1>2, <1>9 DEF CompleteInv, Described
  <2>2. CASE d = c
    <3>1. PICK port : port = offer.control[c].port
      OBVIOUS
    <3>2. SetControl(c, port)
      BY <1>5, <3>1
    <3>3. answer'.control[c] = IF port THEN "granted" ELSE "refused"
      <4>1. \A i \in DOMAIN answer.control :
              answer'.control[i] = IF i = c THEN IF port THEN "granted" ELSE "refused"
                                            ELSE answer.control[i]
        BY <1>3, <3>2, SetControlIs, Zenon
      <4> QED
        BY <2>1, <2>2, <4>1
    <3>4. offer.control[c].port
      BY <1>9, <2>2, <3>1, <3>3
    <3> QED
      BY <1>6, <2>2, <3>4 DEF Wanted
  <2>3. CASE d # c
    BY <1>3, <1>5, <1>9, <2>1, <2>3, SetControlIs
  <2> QED
    BY <2>2, <2>3
<1>10. sub.op # "open" /\ sub.op # "close"
  BY <1>1
<1>11. \A d : <<"engine", d>> \in held => <<"engine", d>> \in held'
  BY <1>8
<1> QED
  BY <1>1, <1>7, <1>8, <1>9, <1>10, <1>11, AnswerServes

(* on_termination_modify and on_termination_subtract, of a media slot.     *)
LEMMA SlotAnsweredServes ==
  ASSUME Inv, ServedInv, NEW op \in SlotOps, NEW s, SlotAnswered(op, s)
  PROVE  ServedInv'
<1>1. PICK sub \in outstanding :
         /\ sub.op = op /\ sub.slot = s
         /\ outstanding' = outstanding \ {sub}
  <2>1. Sub(op, 0, s) \in outstanding /\ outstanding' = outstanding \ {Sub(op, 0, s)}
    BY DEF SlotAnswered, Answered
  <2>2. Sub(op, 0, s).op = op /\ Sub(op, 0, s).slot = s
    BY DEF Sub
  <2> QED
    BY <2>1, <2>2
<1>2. AnswerFrame /\ channels' = channels
  BY DEF SlotAnswered
<1>3. /\ answer' = answer \/ answer' = [answer EXCEPT !.audio = @ \cup {s}]
      /\ held' = held \ {<<"slot", s>>} \/ held' = held \cup {<<"slot", s>>}
  BY DEF SlotAnswered
<1>4. ASSUME InProgress("OFFER")
      PROVE  answer'.control = answer.control
  <2>1. answer \in Answer
    BY <1>4 DEF Inv, PhaseInv
  <2> QED
    BY <1>3, <2>1 DEF Answer
<1>5. sub.op # "open" /\ sub.op # "close"
  BY <1>1 DEF SlotOps
<1>6. \A d : <<"engine", d>> \in held => <<"engine", d>> \in held'
  BY <1>3
<1> QED
  BY <1>1, <1>2, <1>4, <1>5, <1>6, AnswerServes

(* An engine that opens is held; the other answers are about neither an    *)
(* engine that is open nor the status of a medium.                         *)
LEMMA OthersServe ==
  ASSUME Inv, Clean', ServedInv, NEW sub \in outstanding,
         \/ ChannelRemoved(sub.channel)
         \/ \E op \in {"add media", "subtract media"} : MediaAnswered(op, sub.channel)
         \/ TopologyAnswered(sub)
         \/ \E success \in BOOLEAN : EngineOpened(sub.channel, success)
         \/ EngineClosed(sub.channel)
         \/ MachineDeactivated(sub.channel)
  PROVE  ServedInv'
<1> DEFINE c == sub.channel
           Keeps(other) ==
              /\ outstanding' = outstanding \ {other}
              /\ \A d : /\ <<"engine", d>> \in held
                        /\ ~(other.op = "close" /\ other.channel = d)
                        => <<"engine", d>> \in held'
              /\ other.op = "open" => <<"engine", other.channel>> \in held'
<1>1. AnswerFrame
  BY DEF ChannelRemoved, MediaAnswered, TopologyAnswered, EngineOpened,
         EngineClosed, MachineDeactivated
<1>2. \E other \in outstanding : Keeps(other)
  <2>1. CASE ChannelRemoved(c)
    <3>1. Sub("remove channel", c, 0).op = "remove channel"
      BY DEF Sub
    <3>2. held' = held \ {<<"channel", c>>}
      BY <2>1 DEF ChannelRemoved
    <3>3. PICK other \in outstanding :
             other.op = "remove channel" /\ outstanding' = outstanding \ {other}
      BY <2>1, <3>1 DEF ChannelRemoved, Answered
    <3> QED
      BY <3>2, <3>3
  <2>2. ASSUME NEW op \in {"add media", "subtract media"}, MediaAnswered(op, c)
        PROVE  \E other \in outstanding : Keeps(other)
    <3>1. Sub(op, c, 0).op = op
      BY DEF Sub
    <3>2. held' = held \ {<<"media", c>>} \/ held' = held \cup {<<"media", c>>}
      BY <2>2 DEF MediaAnswered
    <3>3. PICK other \in outstanding :
             other.op = op /\ outstanding' = outstanding \ {other}
      BY <2>2, <3>1 DEF MediaAnswered, Answered
    <3> QED
      BY <3>2, <3>3
  <2>3. CASE TopologyAnswered(sub)
    <3>1. held' = held /\ sub.op \notin {"open", "close"}
          /\ outstanding' = outstanding \ {sub}
      BY <2>3 DEF TopologyAnswered, Answered
    <3> QED
      BY <3>1
  <2>4. ASSUME NEW success \in BOOLEAN, EngineOpened(c, success)
        PROVE  \E other \in outstanding : Keeps(other)
    <3>1. success
      <4>1. InProgress("OFFER") /\ Sub("open", c, 0) \in outstanding
        <5>1. Sub("open", c, 0) \in outstanding /\ Sub("open", c, 0).op = "open"
          BY <2>4 DEF EngineOpened, Answered, Sub
        <5> QED
          BY <5>1 DEF Inv, PhaseInv, OfferOps
      <4>2. InProgress("OFFER")'
        BY <1>1, <4>1, Zenon DEF AnswerFrame, queueVars, InProgress
      <4>3. answer'.ok = (answer.ok /\ success)
        BY <2>4, <4>1 DEF EngineOpened, Inv, PhaseInv, Answer
      <4>4. answer'.ok
        BY <4>2, Zenon DEF Clean
      <4> QED
        BY <4>3, <4>4
    <3>2. held' = held \cup {<<"engine", c>>}
      BY <2>4, <3>1 DEF EngineOpened
    <3>3. PICK other \in outstanding :
             /\ other.op = "open" /\ other.channel = c
             /\ outstanding' = outstanding \ {other}
      <4>1. /\ Sub("open", c, 0) \in outstanding
            /\ outstanding' = outstanding \ {Sub("open", c, 0)}
        BY <2>4 DEF EngineOpened, Answered
      <4>2. Sub("open", c, 0).op = "open" /\ Sub("open", c, 0).channel = c
        BY DEF Sub
      <4> QED
        BY <4>1, <4>2
    <3> QED
      BY <3>2, <3>3
  <2>5. CASE EngineClosed(c)
    <3>1. held' = held \ {<<"engine", c>>}
      BY <2>5 DEF EngineClosed
    <3>2. PICK other \in outstanding :
             /\ other.op = "close" /\ other.channel = c
             /\ outstanding' = outstanding \ {other}
      <4>1. /\ Sub("close", c, 0) \in outstanding
            /\ outstanding' = outstanding \ {Sub("close", c, 0)}
        BY <2>5 DEF EngineClosed, Answered
      <4>2. Sub("close", c, 0).op = "close" /\ Sub("close", c, 0).channel = c
        BY DEF Sub
      <4> QED
        BY <4>1, <4>2
    <3> QED
      BY <3>1, <3>2
  <2>6. CASE MachineDeactivated(c)
    <3>1. held' = held
      BY <2>6 DEF MachineDeactivated
    <3>2. /\ Sub("stop", c, 0) \in outstanding
          /\ outstanding' = outstanding \ {Sub("stop", c, 0)}
      BY <2>6, Zenon DEF MachineDeactivated, Answered
    <3>3. Sub("stop", c, 0).op # "open" /\ Sub("stop", c, 0).op # "close"
      BY DEF Sub
    <3>4. Keeps(Sub("stop", c, 0))
      BY <3>1, <3>2, <3>3, Zenon
    <3> QED
      BY <3>2, <3>4, Zenon
  <2> QED
    BY <2>1, <2>2, <2>3, <2>4, <2>5, <2>6
<1>3. PICK other \in outstanding : Keeps(other)
  BY <1>2
<1>4. /\ DOMAIN channels' = DOMAIN channels
      /\ \A d \in DOMAIN channels : /\ channels'[d].engine = channels[d].engine
                                    /\ channels'[d].is_open = channels[d].is_open
  <2>1. \/ \E d : channels' = [channels EXCEPT ![d].waiting_for_channel = FALSE]
        \/ \E d : channels' = [channels EXCEPT ![d].waiting_for_termination = FALSE]
        \/ channels' = channels
    BY DEF ChannelRemoved, MediaAnswered, TopologyAnswered, EngineOpened,
           EngineClosed, MachineDeactivated
  <2> QED
    BY <2>1, MarkCleared
<1>5. ASSUME InProgress("OFFER")
      PROVE  answer'.control = answer.control
  <2>1. answer \in Answer
    BY <1>5 DEF Inv, PhaseInv
  <2>2. answer' = answer \/ \E success \in BOOLEAN : answer' = [answer EXCEPT !.ok = @ /\ success]
    BY DEF ChannelRemoved, MediaAnswered, TopologyAnswered, EngineOpened,
           EngineClosed, MachineDeactivated
  <2> QED
    BY <2>1, <2>2 DEF Answer
<1> QED
  BY <1>1, <1>3, <1>4, <1>5, AnswerServes

(* A channel that is new for a medium that is known, with a plugin that has *)
(* a channel left.                                                         *)
LEMMA NewChannelServes ==
  ASSUME NEW new, NEW i, NEW full,
         new.control[i].resource = "known", i \notin full
  PROVE  NewChannel(new, i, full).engine /\ ~NewChannel(new, i, full).is_open
<1> DEFINE plugged == new.control[i].resource = "known"
           engine == plugged /\ i \notin full
<1>1. engine
  OBVIOUS
<1>2. NewChannel(new, i, full) =
        [id |-> i, machine |-> plugged, engine |-> engine, is_open |-> FALSE,
         waiting_for_channel |-> TRUE, waiting_for_termination |-> engine]
  BY DEF NewChannel
<1> HIDE DEF plugged, engine
<1> QED
  BY <1>1, <1>2

(* mrcp_server_session_offer_process: a new channel has an engine, that is *)
(* not open yet; nothing is agreed to so far.                              *)
LEMMA OfferProcessServes ==
  ASSUME Inv, CompleteInv, ServedInv, OfferProcess, answer'.ok
  PROVE  ServedInv'
<1> DEFINE new == in_progress.offer
<1>1. dispatching /\ in_progress # NULL /\ in_progress.type = "OFFER"
  BY Zenon DEF OfferProcess, Dispatches, Inv, PhaseInv
<1>2. new \in Offers
  BY <1>1 DEF Inv, TargetsInv, Targeted
<1>3. outstanding = {}
  BY <1>1, NothingOutstanding
<1>4. offer' = new /\ held' = held
  BY DEF OfferProcess
<1>5. InProgress("OFFER")'
  BY <1>1, Zenon DEF OfferProcess, InProgress
<1>6. PICK order \in Increasing(NewPositions(new)),
           full \in SUBSET NewPositions(new), ok \in BOOLEAN :
             Taken(new, order, full, ok)
  BY OfferTaken
<1> HIDE DEF new
<1>7. /\ channels' = OfferedChannels(new, order, full)
      /\ answer' = EmptyAnswer(new, ok)
      /\ outstanding' = OfferRequests(new, channels')
      /\ state' = "GENERATING_ANSWER"
      /\ \A i \in DOMAIN new.control :
            i > Len(channels) => new.control[i].resource = "known" /\ i \notin full
  <2>1. answer' = EmptyAnswer(new, ok)
    BY <1>6 DEF Taken
  <2>2. ok
    BY <2>1 DEF EmptyAnswer
  <2> QED
    BY <1>3, <1>6, <2>2 DEF Taken, StateSet
<1>8. /\ DOMAIN channels \subseteq DOMAIN channels'
      /\ \A c \in DOMAIN channels : /\ channels'[c].engine = channels[c].engine
                                    /\ channels'[c].is_open = channels[c].is_open
  BY <1>2, <1>7, OfferedChannelsAre
<1>9. ASSUME NEW c \in DOMAIN channels' \ DOMAIN channels
      PROVE  channels'[c].engine /\ ~channels'[c].is_open
  <2>1. c \in NewPositions(new) /\ channels'[c] = NewChannel(new, c, full)
    <3>1. NumberedInv
      BY DEF CompleteInv
    <3>2. NoGap(new)
      <4>1. new.control \in Seq(ControlMedia) /\ Len(channels) \in Nat
        BY <1>2, OfferTyped DEF Inv, TypeOK, ChannelsTypeOK
      <4> QED
        BY <1>7, <4>1 DEF NoGap
    <3> QED
      BY <1>2, <1>7, <1>9, <3>1, <3>2, OfferNumbers
  <2>2. c \in DOMAIN new.control /\ c > Len(channels)
    BY <2>1 DEF NewPositions
  <2>4. new.control[c].resource = "known"
    BY <1>7, <2>2
  <2>5. c \notin full
    BY <1>7, <2>2
  <2>6. NewChannel(new, c, full).engine /\ ~NewChannel(new, c, full).is_open
    BY <2>4, <2>5, NewChannelServes
  <2> QED
    BY <2>1, <2>6
<1>10. EnginesInv'
  BY <1>8, <1>9 DEF ServedInv, EnginesInv
<1>11. OpenInv'
  <2> SUFFICES ASSUME NEW c \in DOMAIN channels'
               PROVE  /\ channels'[c].is_open => <<"engine", c>> \in held
                      /\ ~Closing(c)'
    BY <1>4 DEF OpenInv
  <2>1. ~Closing(c)'
    BY <1>7, OfferOpens DEF Closing
  <2>2. channels'[c].is_open => c \in DOMAIN channels /\ channels[c].is_open
    BY <1>8, <1>9
  <2>3. channels'[c].is_open => <<"engine", c>> \in held
    BY <1>3, <2>2 DEF ServedInv, OpenInv, Opening
  <2> QED
    BY <2>1, <2>3
<1>12. \A c \in DOMAIN new.control : answer'.control[c] = "absent"
  BY <1>7 DEF EmptyAnswer
<1>13. WantedInv'
  BY <1>4, <1>5, <1>7, <1>12 DEF WantedInv, Agreed
<1> QED
  BY <1>10, <1>11, <1>13 DEF ServedInv

(* An offer that is repeated: its channels are as the last answer left     *)
(* them.                                                                   *)
LEMMA OfferRepeatedServes ==
  ASSUME Inv, ServedInv, OfferRepeated
  PROVE  ServedInv'
<1>1. dispatching /\ in_progress # NULL /\ in_progress.type = "OFFER"
  BY Zenon DEF OfferRepeated, Dispatches, Inv, PhaseInv
<1>2. in_progress.offer \in Offers
  BY <1>1 DEF Inv, TargetsInv, Targeted
<1>3. UNCHANGED <<channels, held, state, last_offer, last_answer, outstanding>>
  BY DEF OfferRepeated
<1>4. offer' = last_offer /\ answer' = last_answer /\ in_progress.offer = last_offer
  BY DEF OfferRepeated
<1>5. last_offer # NULL
  BY <1>2, <1>4, SessionAssumption
<1>6. ~InProgress("OFFER") /\ ~InProgress("TERMINATE")
  BY <1>1, Zenon DEF InProgress
<1>7. state = "INITIALIZING"
  BY <1>5, <1>6 DEF Inv, PhaseInv, TypeOK, TasksTypeOK, ServedInv, WantedInv
<1>8. EnginesInv'
  BY <1>3 DEF ServedInv, EnginesInv
<1>9. OpenInv'
  BY <1>3 DEF ServedInv, OpenInv, Opening, Closing
<1>10. \A c : Agreed(last_offer, last_answer, c) => channels[c].is_open
  BY <1>5, <1>6, <1>7 DEF ServedInv, WantedInv
<1>11. InProgress("OFFER")'
  BY <1>1, Zenon DEF OfferRepeated, InProgress
<1>12. WantedInv'
  BY <1>3, <1>4, <1>7, <1>10, <1>11 DEF WantedInv, Agreed, Wanted
<1> QED
  BY <1>8, <1>9, <1>12 DEF ServedInv

(* mrcp_server_engine_channels_update asks for what was agreed to.         *)
LEMMA EngineChannelsUpdateServes ==
  ASSUME Inv, ServedInv, EngineChannelsUpdate
  PROVE  ServedInv'
<1>1. Continues /\ state = "GENERATING_ANSWER"
  BY DEF EngineChannelsUpdate, ContinuesIn
<1>2. outstanding = {} /\ InProgress("OFFER")
  BY <1>1, NothingOutstandingToo DEF Inv, PhaseInv
<1>3. offer \in Offers
  BY <1>2 DEF Inv, PhaseInv
<1>4. /\ offer' = offer /\ answer' = answer /\ channels' = EngineChannelsUpdated
      /\ state' = "INITIALIZING" /\ outstanding' = EngineRequests
      /\ held' = held
  BY <1>2 DEF EngineChannelsUpdate, StateSet, offerVars
<1>5. DOMAIN channels' = DOMAIN channels
  BY <1>4 DEF EngineChannelsUpdated
<1>6. \A c \in DOMAIN channels :
         /\ channels'[c].engine = channels[c].engine
         /\ c \notin Offered => channels'[c].is_open = channels[c].is_open
         /\ c \in Offered => channels'[c].is_open = Port(c)
  BY <1>3, <1>4, EngineChannelsAre
<1>7. EnginesInv'
  BY <1>5, <1>6 DEF ServedInv, EnginesInv
<1>8. OpenInv'
  <2> SUFFICES ASSUME NEW c \in DOMAIN channels
               PROVE  /\ channels'[c].is_open => <<"engine", c>> \in held \/ Opening(c)'
                      /\ Closing(c)' => ~channels'[c].is_open
    BY <1>4, <1>5 DEF OpenInv
  <2>1. channels[c].is_open => <<"engine", c>> \in held
    BY <1>2 DEF ServedInv, OpenInv, Opening
  <2>2. ASSUME channels'[c].is_open, ~channels[c].is_open
        PROVE  Opening(c)'
    <3>1. c \in Offered /\ Port(c)
      BY <1>6, <2>2
    <3> QED
      BY <1>3, <1>4, <2>2, <3>1, EngineChannelsAre DEF Opening
  <2>3. ASSUME NEW sub \in EngineRequests, sub.op = "close", sub.channel = c
        PROVE  ~channels'[c].is_open
    BY <1>3, <1>6, <2>3, EngineChannelsAre
  <2> QED
    BY <1>4, <2>1, <2>2, <2>3 DEF Closing
<1>9. ASSUME NEW c, Agreed(offer, answer, c)
      PROVE  channels'[c].is_open
  <2>1. offer.control[c].port
    BY <1>1, <1>2, <1>9 DEF ServedInv, WantedInv, Wanted
  <2>2. c \in DOMAIN channels /\ c \in Offered
    BY <1>9 DEF Agreed, Offered, WithEngine, ServedInv, EnginesInv
  <2> QED
    BY <1>6, <2>1, <2>2 DEF Port
<1>10. InProgress("OFFER")'
  BY <1>2, Zenon DEF EngineChannelsUpdate, queueVars, InProgress
<1>11. WantedInv'
  BY <1>4, <1>5, <1>9, <1>10 DEF WantedInv, Agreed, Wanted
<1> QED
  BY <1>7, <1>8, <1>11 DEF ServedInv

(* mrcp_server_session_answer_send: each engine has answered, so that what *)
(* is agreed to is held open.                                              *)
LEMMA AnswerSendServes ==
  ASSUME Inv, ServedInv, AnswerSend
  PROVE  /\ ServedInv'
         /\ \A c : Agreed(offer, answer, c) => <<"engine", c>> \in held
<1>1. Continues /\ state = "INITIALIZING"
  BY DEF AnswerSend, ContinuesIn
<1>2. outstanding = {} /\ InProgress("OFFER")
  BY <1>1, NothingOutstandingToo DEF Inv, PhaseInv
<1>3. /\ last_offer' = offer /\ last_answer' = answer
      /\ UNCHANGED <<state, channels, held, outstanding>>
  BY DEF AnswerSend
<1>4. ~InProgress("OFFER")'
  BY PopEnds DEF AnswerSend
<1>5. \A c : Agreed(offer, answer, c) => channels[c].is_open
  BY <1>1, <1>2 DEF ServedInv, WantedInv, Wanted
<1>6. EnginesInv' /\ OpenInv'
  BY <1>3 DEF ServedInv, EnginesInv, OpenInv, Opening, Closing
<1>7. WantedInv'
  BY <1>1, <1>3, <1>4, <1>5 DEF WantedInv, Agreed
<1>8. \A c \in DOMAIN channels : channels[c].is_open => <<"engine", c>> \in held
  BY <1>2 DEF ServedInv, OpenInv, Opening
<1> QED
  BY <1>5, <1>6, <1>7, <1>8 DEF ServedInv, Agreed

(* The steps that are not about an offer.                                  *)
LEMMA RequestsServe ==
  ASSUME Inv, ServedInv,
         \/ ClientStep \/ Completion \/ ControlProcess \/ Deactivate
         \/ TerminateSend \/ UNCHANGED vars \/ \E c : ControlAnswered(c)
  PROVE  ServedInv'
<1>1. UNCHANGED <<channels, held, last_offer, last_answer, offer, answer>>
  BY DEF ClientStep, ClientOffer, ClientControl, ClientTerminate, Send, Completion,
         ControlCompleted, ControlProcess, ControlAnswered, ControlFrame, Deactivate,
         TerminateSend, vars, offerVars
<1>2. ASSUME state' = state,
             \A sub \in outstanding : sub.op = "open" => sub \in outstanding',
             \A sub \in outstanding' : sub.op = "close" => sub \in outstanding,
             InProgress("OFFER")' <=> InProgress("OFFER")
      PROVE  ServedInv'
  BY <1>1, <1>2, ServesKept
<1>3. CASE ClientStep
  <2>1. PICK request : Send(request)
    BY <1>3 DEF ClientStep, ClientOffer, ClientControl, ClientTerminate
  <2>2. UNCHANGED <<state, outstanding>> /\ Enqueue(request) /\ ~dispatching
    BY <2>1, Zenon DEF Send, Waiting
  <2>3. InProgress("OFFER")' <=> InProgress("OFFER")
    <3>1. CASE in_progress = NULL
      <4>1. ~InProgress("OFFER")
        BY <3>1 DEF InProgress
      <4>2. dispatching' = TRUE
        BY <2>2, <3>1 DEF Enqueue
      <4> QED
        BY <4>1, <4>2, Zenon DEF InProgress
    <3>2. CASE in_progress # NULL
      <4>1. UNCHANGED <<in_progress, dispatching>>
        BY <2>2, <3>2 DEF Enqueue
      <4>2. in_progress' = in_progress /\ dispatching' = dispatching
        BY <4>1
      <4> QED
        BY <4>2, Zenon DEF InProgress
    <3> QED
      BY <3>1, <3>2
  <2> QED
    BY <1>2, <2>2, <2>3
<1>4. CASE Completion
  <2>1. in_progress' = in_progress /\ UNCHANGED <<state, outstanding>>
    BY <1>4 DEF Completion, ControlCompleted, ControlFrame, queueVars
  <2>2. dispatching' = dispatching
    BY <1>4, Zenon DEF Completion, ControlCompleted, queueVars
  <2>3. InProgress("OFFER")' <=> InProgress("OFFER")
    BY <2>1, <2>2, Zenon DEF InProgress
  <2> QED
    BY <1>2, <2>1, <2>3
<1>5. CASE ControlProcess
  <2> DEFINE request == Sub("request", in_progress.channel, 0)
  <2>1. /\ in_progress.type = "CONTROL" /\ dispatching
        /\ PopRequest \/ in_progress' = in_progress
        /\ outstanding' \in {outstanding, outstanding \cup {request}}
        /\ state' = state
    BY <1>5 DEF ControlProcess, Dispatches, ControlFrame
  <2>2. request.op = "request"
    BY DEF Sub
  <2> HIDE DEF request
  <2>3. ~InProgress("OFFER") /\ ~InProgress("OFFER")'
    BY <2>1, PopEnds, Zenon DEF InProgress
  <2> QED
    BY <1>2, <2>1, <2>2, <2>3
<1>6. CASE Deactivate
  <2>1. /\ in_progress.type = "TERMINATE" /\ in_progress' = in_progress
        /\ state' = "DEACTIVATING"
        /\ outstanding' = outstanding \cup Each("stop", busy)
    BY <1>6 DEF Deactivate, Dispatches, StateSet
  <2>2. ~InProgress("OFFER")'
    BY <2>1, Zenon DEF InProgress
  <2>3. \A sub \in Each("stop", busy) : sub.op = "stop"
    BY EachOp
  <2>4. EnginesInv' /\ OpenInv'
    BY <1>1, <2>1, <2>3 DEF ServedInv, EnginesInv, OpenInv, Opening, Closing
  <2>5. WantedInv'
    BY <2>1, <2>2 DEF WantedInv
  <2> QED
    BY <2>4, <2>5 DEF ServedInv
<1>7. CASE TerminateSend
  <2>1. UNCHANGED <<state, outstanding>>
    BY <1>7 DEF TerminateSend
  <2>2. InProgress("OFFER")' <=> InProgress("OFFER")
    BY <1>7, Zenon DEF TerminateSend, queueVars, InProgress
  <2> QED
    BY <1>2, <2>1, <2>2
<1>8. CASE UNCHANGED vars
  <2>1. UNCHANGED <<state, outstanding>>
    BY <1>8 DEF vars
  <2>2. InProgress("OFFER")' <=> InProgress("OFFER")
    BY <1>8, Zenon DEF vars, queueVars, InProgress
  <2> QED
    BY <1>2, <2>1, <2>2
<1>9. ASSUME NEW c, ControlAnswered(c)
      PROVE  ServedInv'
  <2>1. Sub("request", c, 0) \in outstanding
        /\ outstanding' = outstanding \ {Sub("request", c, 0)}
        /\ state' = state /\ PopRequest
    BY <1>9 DEF ControlAnswered, Answered, ControlFrame
  <2>2. Sub("request", c, 0).op = "request"
    BY DEF Sub
  <2>3. InProgress("CONTROL")
    BY <2>1, <2>2 DEF Inv, PhaseInv
  <2>4. ~InProgress("OFFER") /\ ~InProgress("OFFER")'
    BY <2>1, <2>3, PopEnds DEF InProgress
  <2> QED
    BY <1>2, <2>1, <2>2, <2>4
<1> QED
  BY <1>3, <1>4, <1>5, <1>6, <1>7, <1>8, <1>9

(* mrcp_server_session_terminate_process: no channel is open any more.     *)
LEMMA TerminateProcessServes ==
  ASSUME Inv, ServedInv, TerminateProcess
  PROVE  ServedInv'
<1>1. channels' = Leaving /\ state' = "TERMINATING" /\ in_progress' = in_progress
  BY DEF TerminateProcess, Leaving, StateSet, queueVars
<1>2. InProgress("TERMINATE")
  BY DEF TerminateProcess, ContinuesIn, Inv, PhaseInv
<1>3. ~InProgress("OFFER")'
  BY <1>1, <1>2, Zenon DEF InProgress
<1>4. /\ DOMAIN channels' = DOMAIN channels
      /\ \A c \in DOMAIN channels : /\ channels'[c].engine = channels[c].engine
                                    /\ ~channels'[c].is_open
  <2>1. \A c \in DOMAIN channels : channels[c] \in Channel
    BY DEF Inv, TypeOK, ChannelsTypeOK
  <2> QED
    BY <1>1, <2>1 DEF Leaving, Channel
<1>5. EnginesInv' /\ OpenInv'
  BY <1>4 DEF ServedInv, EnginesInv, OpenInv
<1>6. WantedInv'
  BY <1>1, <1>3 DEF WantedInv
<1> QED
  BY <1>5, <1>6 DEF ServedInv

(* Only the answer to an offer tells the client of a failure.              *)
LEMMA RefusedChanges ==
  ASSUME [Next]_vars
  PROVE  refused' = refused \/ (AnswerSend /\ refused' = (refused \/ ~answer.ok))
<1>1. ASSUME Next, ~AnswerSend PROVE refused' = refused
  BY <1>1, Zenon DEF Next, ClientStep, ClientOffer, ClientControl, ClientTerminate, Send,
         TasksAnswer, SubAnswered, ChannelModified, ChannelRemoved, MediaAnswered,
         SlotAnswered, TopologyAnswered, EngineOpened, EngineClosed,
         MachineDeactivated, ControlAnswered, AnswerFrame, ControlFrame,
         Completion, ControlCompleted, ServerStep, OfferRepeated, OfferProcess,
         ControlProcess, Deactivate, EngineChannelsUpdate, TerminateProcess,
         TerminateSend, clientVars
<1>2. ASSUME AnswerSend PROVE refused' = (refused \/ ~answer.ok)
  BY <1>2, Zenon DEF AnswerSend
<1>3. ASSUME UNCHANGED vars PROVE refused' = refused
  BY <1>3, Zenon DEF vars, clientVars
<1> QED
  BY <1>1, <1>2, <1>3, Zenon

(* An offer stays in progress until it is answered, and what has failed of *)
(* its answer is not mended.                                               *)
LEMMA OfferStays ==
  ASSUME Inv, [Next]_vars, ~AnswerSend, InProgress("OFFER")
  PROVE  InProgress("OFFER")' /\ (answer'.ok => answer.ok)
<1>1. answer \in Answer
  BY DEF Inv, PhaseInv
<1>2. ~dispatching /\ in_progress # NULL /\ in_progress.type = "OFFER"
  BY Zenon DEF InProgress
<1>3. ASSUME UNCHANGED <<in_progress, dispatching>> PROVE InProgress("OFFER")'
  BY <1>3, Zenon DEF InProgress
<1>4. CASE ClientStep
  <2>1. PICK request : Send(request)
    BY <1>4 DEF ClientStep, ClientOffer, ClientControl, ClientTerminate
  <2>2. UNCHANGED <<in_progress, dispatching>>
    BY <1>2, <2>1, Zenon DEF Send, Enqueue
  <2>3. answer' = answer
    BY <2>1 DEF Send, offerVars
  <2> QED
    BY <1>3, <2>2, <2>3
<1>5. CASE TasksAnswer
  <2>1. PICK sub \in outstanding : SubAnswered(sub)
    BY <1>5 DEF TasksAnswer
  <2>2. ~ControlAnswered(sub.channel)
    <3>1. ASSUME ControlAnswered(sub.channel) PROVE FALSE
      <4>1. Sub("request", sub.channel, 0) \in outstanding
        BY <3>1 DEF ControlAnswered, Answered
      <4>2. Sub("request", sub.channel, 0).op = "request"
        BY DEF Sub
      <4>3. InProgress("CONTROL")
        BY <4>1, <4>2 DEF Inv, PhaseInv
      <4> QED
        BY <1>2, <4>3 DEF InProgress
    <3> QED
      BY <3>1
  <2>3. AnswerFrame /\ (answer'.ok => answer.ok)
    <3>1. CASE \E op, c, position : ChannelModified(op, c, position)
      BY <1>1, <3>1 DEF ChannelModified, SetControl, Answer
    <3>2. CASE \E op, s : SlotAnswered(op, s)
      BY <1>1, <3>2 DEF SlotAnswered, Answer
    <3>3. CASE \E c : \E success \in BOOLEAN : EngineOpened(c, success)
      BY <1>1, <3>3 DEF EngineOpened, Answer
    <3>4. CASE \/ \E c : ChannelRemoved(c) \/ EngineClosed(c) \/ MachineDeactivated(c)
               \/ \E op, c : MediaAnswered(op, c)
               \/ TopologyAnswered(sub)
      BY <3>4 DEF ChannelRemoved, EngineClosed, MachineDeactivated, MediaAnswered,
                  TopologyAnswered
    <3> QED
      BY <2>1, <2>2, <3>1, <3>2, <3>3, <3>4, Zenon DEF SubAnswered
  <2>4. UNCHANGED <<in_progress, dispatching>>
    BY <2>3, Zenon DEF AnswerFrame, queueVars
  <2> QED
    BY <1>3, <2>3, <2>4
<1>6. CASE Completion
  <2>1. UNCHANGED <<in_progress, dispatching>> /\ answer' = answer
    BY <1>6, Zenon DEF Completion, ControlCompleted, ControlFrame, queueVars, offerVars
  <2> QED
    BY <1>3, <2>1
<1>7. CASE ServerStep
  <2>1. ~(OfferRepeated \/ OfferProcess \/ ControlProcess \/ Deactivate)
    BY <1>2, Zenon DEF OfferRepeated, OfferProcess, ControlProcess, Deactivate, Dispatches
  <2>2. CASE EngineChannelsUpdate \/ TerminateProcess \/ TerminateSend
    <3>1. UNCHANGED <<in_progress, dispatching>> /\ answer' = answer
      BY <2>2, Zenon DEF EngineChannelsUpdate, TerminateProcess, TerminateSend,
                         queueVars, offerVars
    <3> QED
      BY <1>3, <3>1
  <2> QED
    BY <1>7, <2>1, <2>2 DEF ServerStep
<1>8. CASE UNCHANGED vars
  <2>1. UNCHANGED <<in_progress, dispatching>> /\ answer' = answer
    BY <1>8, Zenon DEF vars, queueVars, offerVars
  <2> QED
    BY <1>3, <2>1
<1> QED
  BY <1>4, <1>5, <1>6, <1>7, <1>8 DEF Next

(* An answer that has failed stays so, and its client will know.           *)
LEMMA CleanBefore ==
  ASSUME Inv, [Next]_vars, Clean'
  PROVE  Clean
<1>1. refused' = refused \/ (AnswerSend /\ refused' = (refused \/ ~answer.ok))
  BY RefusedChanges
<1>2. ~refused
  BY <1>1, Zenon DEF Clean
<1>3. ASSUME InProgress("OFFER") PROVE answer.ok
  <2>1. CASE AnswerSend
    <3>1. refused' = (refused \/ ~answer.ok)
      BY <2>1, Zenon DEF AnswerSend
    <3> QED
      BY <3>1, Zenon DEF Clean
  <2>2. CASE ~AnswerSend
    <3>1. InProgress("OFFER")' /\ (answer'.ok => answer.ok)
      BY <1>3, <2>2, OfferStays
    <3> QED
      BY <3>1, Zenon DEF Clean
  <2> QED
    BY <2>1, <2>2
<1> QED
  BY <1>2, <1>3, Zenon DEF Clean

(* Every step keeps what is agreed to served in the end.                   *)
LEMMA NextServes ==
  ASSUME Inv, HoldInv, CleanInv, [Next]_vars
  PROVE  CleanInv'
<1> SUFFICES ASSUME Clean'
             PROVE  CompleteInv' /\ ServedInv'
  BY DEF CleanInv
<1>1. CompleteInv /\ ServedInv
  BY CleanBefore DEF CleanInv
<1>2. ASSUME OfferProcess PROVE answer'.ok
  <2>1. dispatching' = FALSE /\ UNCHANGED in_progress /\ Dispatches("OFFER")
    BY <1>2, Zenon DEF OfferProcess
  <2>2. in_progress # NULL
    BY <2>1, Zenon DEF Dispatches, Inv, PhaseInv
  <2>3. InProgress("OFFER")'
    BY <2>1, <2>2, Zenon DEF Dispatches, InProgress
  <2> QED
    BY <2>3, Zenon DEF Clean
<1>3. CompleteInv'
  BY <1>1, <1>2, NextCompletes
<1>4. CASE TasksAnswer
  <2>1. PICK sub \in outstanding : SubAnswered(sub)
    BY <1>4 DEF TasksAnswer
  <2>2. CASE ControlAnswered(sub.channel)
    BY <1>1, <1>3, <2>2, RequestsServe
  <2>3. CASE ChannelModified("modify channel", sub.channel, sub.channel)
    BY <1>1, <1>3, <2>3, ChannelModifiedServes
  <2>4. CASE ChannelModified("add channel", sub.channel, channels[sub.channel].id)
    BY <1>1, <1>3, <2>4, ChannelModifiedServes
  <2>5. CASE \E op \in SlotOps : SlotAnswered(op, sub.slot)
    BY <1>1, <1>3, <2>5, SlotAnsweredServes
  <2> QED
    BY <1>1, <1>3, <2>1, <2>2, <2>3, <2>4, <2>5, OthersServe DEF SubAnswered, SlotOps
<1>5. CASE ServerStep
  BY <1>1, <1>2, <1>3, <1>5, OfferRepeatedServes, OfferProcessServes, RequestsServe,
     EngineChannelsUpdateServes, AnswerSendServes, TerminateProcessServes
     DEF ServerStep
<1> QED
  BY <1>1, <1>3, <1>4, <1>5, RequestsServe DEF Next

(***************************************************************************)
(* Until an offer is answered with a failure, an answer of status OK       *)
(* agrees only to control media whose channel has an engine that is open,  *)
(* whatever the offers name and whatever plugins lack, are full or fail to *)
(* open (mrcp_server_on_channel_modify answers a medium by its port alone; *)
(* mrcp_server_engine_channels_update then opens what has a port, and      *)
(* mrcp_server_on_engine_channel_open spoils the answer that one failed).  *)
(***************************************************************************)
THEOREM GrantedAreServed == Spec => GrantedIsServed
<1>1. Init => HoldInv /\ CleanInv
  BY DEF Init, QueueInit, HoldInv, HeldInv, ReleaseInv, AddInv, GoneInv, CompleteInv,
         NumberedInv, ServedInv, EnginesInv, OpenInv, WantedInv, InProgress, CleanInv
<1>2. ASSUME Inv, CleanInv, [Next]_vars
      PROVE  [AnswersOffer /\ answer.ok /\ ~refused =>
                \A c \in DOMAIN channels :
                    /\ channels[c].id \in DOMAIN offer.control
                    /\ answer.control[channels[c].id] = "granted"
                    => <<"engine", c>> \in held]_vars
  <2>1. ASSUME AnswerSend, answer.ok, ~refused, NEW c \in DOMAIN channels,
               channels[c].id \in DOMAIN offer.control,
               answer.control[channels[c].id] = "granted"
        PROVE  <<"engine", c>> \in held
    <3>1. Clean
      BY <2>1, Zenon DEF Clean
    <3>2. CompleteInv /\ ServedInv
      BY <1>2, <3>1 DEF CleanInv
    <3>3. \A d : Agreed(offer, answer, d) => <<"engine", d>> \in held
      BY <1>2, <2>1, <3>2, AnswerSendServes
    <3>4. channels[c].id = c
      BY <3>2 DEF CompleteInv, NumberedInv
    <3> QED
      BY <2>1, <3>3, <3>4 DEF Agreed
  <2> QED
    BY <1>2, <2>1, OnlyAnswers DEF AnswersOffer
<1> QED
  BY <1>1, <1>2, InitInv, NextInv, NextHolds, NextServes, PTL
     DEF Spec, GrantedIsServed
=============================================================================
