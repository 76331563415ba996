------------------------------ MODULE RtcpTimers ------------------------------
(* The RTCP timers of the RTP streams (mpf_rtp_stream.c) in the timer queue of *)
(* the media engine (mpf_engine.c), whose scheduler advances it by a fixed     *)
(* time and never asks it for a timeout.                                       *)
EXTENDS TimerQueue, FiniteSets

CONSTANTS Streams,     \* the RTP streams of the engine, RTCP enabled; Timers is Streams \X {"tx", "rx"}
          TxInterval,  \* rtcp_tx_interval, in units of the timer clock
          RxInterval   \* rtcp_rx_resolution

VARIABLES queue,    \* engine->timer_queue
          pc,       \* the engine's thread: between two steps, or in the timer queue
          enabled,  \* streams in state MPF_MEDIA_ENABLED
          reports   \* streams whose report the last step sent

vars == <<queue, pc, enabled, reports>>

Interval(t) == IF t[2] = "tx" THEN TxInterval ELSE RxInterval

TypeOK == /\ QueueType(queue)
          /\ pc \in {"main", "advance"}
          /\ enabled \subseteq Streams
          /\ reports \subseteq Streams /\ Cardinality(reports) <= 1

Init == /\ queue = NewQueue
        /\ pc = "main"
        /\ enabled = {}
        /\ reports = {}

(* mpf_rtp_stream_media_negotiate: the remote side enables the media.          *)
Enable(s) ==
  /\ pc = "main" /\ s \notin enabled
  /\ enabled' = enabled \cup {s}
  /\ queue' = TimerSet(TimerSet(queue, <<s, "tx">>, TxInterval), <<s, "rx">>, RxInterval)
  /\ reports' = {}
  /\ UNCHANGED pc

(* The remote side disables it, no codec matches, or the stream is removed.    *)
Disable(s) ==
  /\ pc = "main" /\ s \in enabled
  /\ enabled' = enabled \ {s}
  /\ queue' = TimerKilled(TimerKilled(queue, <<s, "tx">>), <<s, "rx">>)
  /\ reports' = {}
  /\ UNCHANGED pc

(* mpf_engine_timer_proc.                                                      *)
Advance == /\ pc = "main"
           /\ Advances(queue)
           /\ queue' = Advanced(queue, 1)
           /\ pc' = "advance"
           /\ reports' = {}
           /\ UNCHANGED enabled

(* Both timer procedures end with setting their timer anew.                    *)
Fire(t) == /\ pc = "advance"
           /\ IsDue(queue) /\ t = Head(queue.ring)
           /\ queue' = TimerSet(FirstTaken(queue), t, Interval(t))
           /\ reports' = IF t[2] = "tx" THEN {t[1]} ELSE {}
           /\ UNCHANGED <<pc, enabled>>

AdvanceEnds == /\ pc = "advance" /\ ~IsDue(queue)
               /\ pc' = "main"
               /\ reports' = {}
               /\ UNCHANGED <<queue, enabled>>

Next == \/ Advance \/ AdvanceEnds
        \/ \E s \in Streams : Enable(s) \/ Disable(s)
        \/ \E t \in Timers : Fire(t)

Spec == Init /\ [][Next]_vars

(* The media engine runs by its clock.                                         *)
FairSpec == Spec /\ WF_vars(Advance) /\ WF_vars(AdvanceEnds) /\ WF_vars(\E t \in Timers : Fire(t))

-----------------------------------------------------------------------------
(* As long as a stream is enabled, it sends one RTCP report after another.     *)
ReportsAreSent == \A s \in Streams : s \in enabled ~> (s \in reports \/ s \notin enabled)
=============================================================================
