----------------------------- MODULE PollerTimers -----------------------------
(* A poller task and its timers (apt_poller_task.c): it waits for descriptors  *)
(* no longer than the first timer allows, handles what was signalled, and      *)
(* tells the timer queue how long all this took.  The connection agents of     *)
(* MRCPv2 and RTSP are such tasks; their handlers set and kill timers, their   *)
(* timer procedures do neither.                                                *)
(*                                                                             *)
(* Time is what passes between two iterations; nothing depends on what the     *)
(* clock shows.  One tick is 1/TicksPerMs of a millisecond.                    *)
EXTENDS TimerQueue

CONSTANTS NULL,
          Timeouts,      \* the timeouts handlers ask for, in milliseconds
          TicksPerMs,    \* ticks of the clock in a millisecond
          MaxHandling,   \* bound: ticks by which an iteration outlasts the wait, its handlers included
          MaxAge,        \* bound: no timer is older than this many ticks, or rounds
          MaxWakeups     \* bound: iterations in which a descriptor is signalled

ASSUME PollerAssumption == /\ NULL \notin Nat
                           /\ Timeouts \subseteq Nat \ {0}
                           /\ TicksPerMs \in Nat \ {0}
                           /\ MaxHandling \in Nat /\ MaxWakeups \in Nat /\ MaxAge \in Nat

VARIABLES queue,    \* task->timer_queue
          pc,       \* where apt_poller_task_run is
          timeout,  \* how long it waits; NULL: for ever
          waited,   \* time_now - time_last, in ticks
          handled,  \* those of them that the handlers took
          wakeups,  \* iterations with a signalled descriptor so far
          asked     \* of each timer: what was asked for, and how long ago

vars == <<queue, pc, timeout, waited, handled, wakeups, asked>>

NotAsked == [timeout |-> 0, age |-> 0, before |-> 0, rounds |-> 0]

TypeOK ==
  /\ QueueType(queue)
  /\ pc \in {"loop", "poll", "handle", "advance"}
  /\ timeout \in {NULL} \cup (0..(2^Width - 1))
  /\ waited \in Nat /\ handled \in 0..MaxHandling
  /\ wakeups \in 0..MaxWakeups
  /\ asked \in [Timers -> [timeout : {0} \cup Timeouts, age : 0..MaxAge, before : Nat, rounds : 0..MaxAge]]

Init == /\ queue = NewQueue
        /\ pc = "loop"
        /\ timeout = NULL
        /\ waited = 0 /\ handled = 0
        /\ wakeups = 0
        /\ asked = [t \in Timers |-> NotAsked]

Capped(n) == IF n > MaxAge THEN MaxAge ELSE n

Older(t, by, rounded) ==
  IF asked[t].timeout = 0 THEN asked[t]
                          ELSE [asked[t] EXCEPT !.age = Capped(@ + by), !.rounds = Capped(@ + rounded)]

(* The time is read only when there is a timer to wait for.                    *)
BeginPoll == /\ pc = "loop"
             /\ queue' = TimeoutTaken(queue)
             /\ timeout' = IF HasTimeout(queue) THEN Timeout(queue) ELSE NULL
             /\ waited' = 0 /\ handled' = 0
             /\ pc' = "poll"
             /\ UNCHANGED <<wakeups, asked>>

Pass == /\ waited' = waited + 1
        /\ asked' = [t \in Timers |-> Older(t, 1, 0)]
        /\ UNCHANGED <<queue, pc, timeout, wakeups>>

(* Nothing is seen of a wait without a timer.                                  *)
Wait == /\ pc = "poll"
        /\ timeout # NULL /\ waited < timeout * TicksPerMs
        /\ Pass
        /\ UNCHANGED handled

Handle == /\ pc = "handle"
          /\ handled < MaxHandling
          /\ Pass
          /\ handled' = handled + 1

(* apt_pollset_poll: a descriptor is signalled, or the timeout is over.        *)
Signalled == /\ pc = "poll"
             /\ wakeups < MaxWakeups
             /\ wakeups' = wakeups + 1
             /\ pc' = "handle"
             /\ UNCHANGED <<queue, timeout, waited, handled, asked>>

TimedOut == /\ pc = "poll"
            /\ timeout # NULL /\ waited = timeout * TicksPerMs
            /\ pc' = "handle"
            /\ UNCHANGED <<queue, timeout, waited, handled, wakeups, asked>>

(* The handlers of the messages and descriptors that were signalled.           *)
HandlerSets(t, ms) ==
  /\ pc = "handle"
  /\ queue' = TimerSet(queue, t, ms)
  /\ asked' = [asked EXCEPT ![t] = [timeout |-> ms, age |-> 0, before |-> waited, rounds |-> 0]]
  /\ UNCHANGED <<pc, timeout, waited, handled, wakeups>>

HandlerKills(t) ==
  /\ pc = "handle"
  /\ queue' = TimerKilled(queue, t)
  /\ asked' = [asked EXCEPT ![t] = NotAsked]
  /\ UNCHANGED <<pc, timeout, waited, handled, wakeups>>

(* What is left of a millisecond is lost.  Without a timeout nothing has       *)
(* elapsed, whatever the handlers took.                                        *)
Advance ==
  /\ pc = "handle"
  /\ IF timeout # NULL /\ waited > 0 /\ Advances(queue)
     THEN /\ queue' = Advanced(queue, waited \div TicksPerMs)
          /\ pc' = "advance"
          /\ asked' = [t \in Timers |-> Older(t, 0, 1)]
     ELSE /\ pc' = "loop"
          /\ UNCHANGED <<queue, asked>>
  /\ UNCHANGED <<timeout, waited, handled, wakeups>>

Fire(t) == /\ pc = "advance"
           /\ IsDue(queue) /\ t = Head(queue.ring)
           /\ queue' = FirstTaken(queue)
           /\ asked' = [asked EXCEPT ![t] = NotAsked]
           /\ UNCHANGED <<pc, timeout, waited, handled, wakeups>>

AdvanceEnds == /\ pc = "advance"
               /\ ~IsDue(queue)
               /\ pc' = "loop"
               /\ UNCHANGED <<queue, timeout, waited, handled, wakeups, asked>>

Next == \/ BeginPoll \/ Wait \/ Handle \/ Signalled \/ TimedOut \/ Advance \/ AdvanceEnds
        \/ \E t \in Timers : HandlerKills(t) \/ Fire(t)
        \/ \E t \in Timers, ms \in Timeouts : HandlerSets(t, ms)

Spec == Init /\ [][Next]_vars

(* The task goes on, its handlers return, and time passes.                     *)
Fairness == /\ WF_vars(BeginPoll) /\ WF_vars(TimedOut) /\ WF_vars(AdvanceEnds)
            /\ WF_vars(Wait)
            /\ WF_vars(Advance)
            /\ \A t \in Timers : WF_vars(Fire(t))

FairSpec == Spec /\ Fairness

-----------------------------------------------------------------------------
Armed(t) == asked[t].timeout # 0

(* Whenever handlers run, the ring holds the timers that are set, each once    *)
(* and in order: apt_timers_reschedule leaves no time below zero, which wraps, *)
(* and no time of zero, which makes a timer of the ring look like one that is  *)
(* not set (apt_timer_set would link it twice, apt_timer_kill not unlink it).  *)
(* The types hold with it: no time of the ring has left the width.             *)
RingMirrorsTimers ==
  /\ TypeOK
  /\ pc # "advance" => /\ Mirrors(queue)
                       /\ \A t \in Timers : Armed(t) <=> Contains(queue.ring, t)

(* A timer fires no earlier than asked, but for the part of the wait in        *)
(* progress that was over when it was set, which apt_timer_queue_advance       *)
(* counts too; and no later than the handlers that set it took and what each  *)
(* rounding to milliseconds loses.                                             *)
FiresInTime ==
  [][\A t \in Timers : Fire(t) =>
       LET due == asked[t].timeout * TicksPerMs
       IN  /\ asked[t].age >= due - asked[t].before
           /\ asked[t].age <= due + MaxHandling + asked[t].rounds * (TicksPerMs - 1)]_vars

(* A timer that is set goes off, unless it is killed or set anew: no timer is  *)
(* left behind in the ring by the reset flag or by the reschedule.             *)
TimersFire == \A t \in Timers : Armed(t) ~> (~Armed(t) \/ asked[t].age = 0)
=============================================================================
