------------------------------ MODULE TimerQueue ------------------------------
(* The timer queue of the toolkit (apt_timer_queue.c): a ring of the timers    *)
(* that are set, by the time they are due, and the time that has elapsed.      *)
(* The queue has no clock; whoever owns it says how much time has gone by.     *)
EXTENDS Integers, Sequences, SequencesExt

CONSTANTS Timers,      \* the timers created for the queue
          Width,       \* bits of an unsigned integer (32 in the code)
          Threshold    \* elapsed time at which the times start again (0xFFFF)

ASSUME TimerAssumption == /\ Width \in Nat \ {0}
                          /\ Threshold \in 1..(2^Width - 1)

Unsigned(n) == n % 2^Width

NewQueue == [ring |-> <<>>, scheduled |-> [t \in Timers |-> 0], elapsed |-> 0, reset |-> FALSE]

(* Nothing but what the code keeps: a timer that is set twice into the ring,   *)
(* or has a time and is not in it, is a state of this type too.                *)
QueueType(q) == /\ q.ring \in Seq(Timers)
                /\ q.scheduled \in [Timers -> 0..(2^Width - 1)]
                /\ q.elapsed \in 0..(2^Width - 1)
                /\ q.reset \in BOOLEAN

UnlinkedStillTimed(q, t) == [q EXCEPT !.ring = RemoveFirst(@, t)]

Unlinked(q, t) == [q EXCEPT !.ring = RemoveFirst(@, t), !.scheduled[t] = 0]

(* When the last timer goes, the time starts again.                            *)
TimerRemoved(q, t) ==
  LET left == Unlinked(q, t)
  IN  IF left.ring = <<>> THEN [left EXCEPT !.elapsed = 0, !.reset = TRUE] ELSE left

(* Behind the last timer that is due no later.                                 *)
TimerInserted(q, t) ==
  LET earlier == {i \in DOMAIN q.ring : q.scheduled[q.ring[i]] <= q.scheduled[t]}
      place   == IF earlier = {} THEN 1 ELSE 1 + CHOOSE i \in earlier : \A j \in earlier : j <= i
  IN  [q EXCEPT !.ring = InsertAt(@, place, t)]

TimerSet(q, t, timeout) ==
  LET free == IF q.scheduled[t] # 0 THEN TimerRemoved(q, t) ELSE q
  IN  TimerInserted([free EXCEPT !.scheduled[t] = Unsigned(free.elapsed + timeout)], t)

TimerKilled(q, t) == IF q.scheduled[t] = 0 THEN q ELSE TimerRemoved(q, t)

HasTimeout(q) == q.ring # <<>>
Timeout(q)    == Unsigned(q.scheduled[Head(q.ring)] - q.elapsed)

TimeoutTakenOnly(q) == q

(* The owner asks how long it may wait: what it waits counts from now on.      *)
TimeoutTaken(q) == [q EXCEPT !.reset = FALSE]

(* All times are made relative to now.                                         *)
RescheduledTwice(q) ==
  [q EXCEPT !.scheduled = [t \in Timers |-> IF Contains(q.ring, t) THEN Unsigned(@[t] - q.elapsed)
                                                                   ELSE @[t]]]

Rescheduled(q) ==
  [q EXCEPT !.scheduled = [t \in Timers |-> IF Contains(q.ring, t) THEN Unsigned(@[t] - q.elapsed)
                                                                   ELSE @[t]],
            !.elapsed = 0]

Advanced(q, time) ==
  LET later == [q EXCEPT !.elapsed = Unsigned(@ + time)]
  IN  IF later.elapsed >= Threshold THEN Rescheduled(later) ELSE later

(* Time counts only while a timer is set, and not if the last one was removed  *)
(* since the owner asked for its timeout.                                      *)
Advances(q) == q.ring # <<>> /\ ~q.reset

IsDue(q)      == q.ring # <<>> /\ q.scheduled[Head(q.ring)] <= q.elapsed
FirstTaken(q) == Unlinked(q, Head(q.ring))

(* What the queue is meant to be: each timer that has a time is in the ring    *)
(* once, and no timer waits behind one that is due later.                      *)
Mirrors(q) ==
  /\ IsInjective(q.ring)
  /\ \A t \in Timers : Contains(q.ring, t) <=> q.scheduled[t] # 0
  /\ \A i, j \in DOMAIN q.ring : i < j => q.scheduled[q.ring[i]] <= q.scheduled[q.ring[j]]

=============================================================================
