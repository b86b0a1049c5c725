----------------------------- MODULE TimerService -----------------------------
(***************************************************************************)
(* What Timer (src/src/App/Evm/Timer.cpp) and the timer half of Evm        *)
(* (src/src/App/Evm/Evm.cpp) promise to the code that uses them: a timer   *)
(* is pending at most once, it fires when its expiry time has come, the    *)
(* earliest expiry first, and timers that share an expiry fire in the      *)
(* order in which they were armed.  Nothing is said of how: no sequence    *)
(* number, no comparator, no search tree.  Module Timer says how, and is   *)
(* checked to implement this module; module Evm uses it as its timer list. *)
(***************************************************************************)
EXTENDS Integers, Sequences, SequencesExt, FiniteSets

CONSTANTS
  Timers,       \* the Timer objects
  MaxTime,      \* bound: the clock stops here
  DueTimes,     \* the expiry times a timer may be armed for
  Periods,      \* the durations an interval timer may be armed with
  OneShot,      \* the "period" of a timer that is not an interval timer
  MaxRunning    \* bound: callbacks on the call stack at once

VARIABLES
  now,       \* the time, PAL.Micros()
  pending,   \* the timers that wait for their expiry, next to fire first
  dueAt,     \* the expiry time of each timer
  period,    \* the period of each timer, or OneShot
  running    \* the timers whose callbacks are on the stack, innermost first

vars == <<now, pending, dueAt, period, running>>

TypeOK ==
  /\ now \in 0 .. MaxTime
  /\ pending \in Seq(Timers)
  /\ dueAt \in [Timers -> Nat]
  /\ period \in [Timers -> Periods \cup {OneShot}]
  /\ running \in Seq(Timers)
  /\ Len(running) <= MaxRunning

Init ==
  /\ now = 0
  /\ pending = <<>>
  /\ dueAt = [t \in Timers |-> 0]
  /\ period = [t \in Timers |-> OneShot]
  /\ running = <<>>

-----------------------------------------------------------------------------
(* A timer is pending at most once.                                        *)
Without(queue, t) ==
  IF \E i \in DOMAIN queue : queue[i] = t
  THEN RemoveAt(queue, CHOOSE i \in DOMAIN queue : queue[i] = t)
  ELSE queue

(* A newly armed timer goes behind every timer that is due no later.       *)
Enqueue(queue, due, t) ==
  LET ahead == {i \in DOMAIN queue : due[queue[i]] <= due[t]}
  IN  InsertAt(queue, Cardinality(ahead) + 1, t)

(* Arm timer t to fire at time at, and every p after that unless p is      *)
(* OneShot.  Whatever it was armed for before is forgotten.                *)
Arm(t, at, p) ==
  /\ dueAt' = [dueAt EXCEPT ![t] = at]
  /\ period' = [period EXCEPT ![t] = p]
  /\ pending' = Enqueue(Without(pending, t), dueAt', t)
  /\ UNCHANGED <<now, running>>

Cancel(t) ==
  /\ pending' = Without(pending, t)
  /\ period' = [period EXCEPT ![t] = OneShot]
  /\ UNCHANGED <<now, dueAt, running>>

Due(t) == t \in ToSet(pending) /\ dueAt[t] <= now

(* The first pending timer has expired: it leaves the list and its         *)
(* callback starts.                                                        *)
Fire ==
  /\ pending # <<>>
  /\ dueAt[Head(pending)] <= now
  /\ Len(running) < MaxRunning
  /\ running' = <<Head(pending)>> \o running
  /\ pending' = Tail(pending)
  /\ UNCHANGED <<now, dueAt, period>>

(* The innermost callback returns.  An interval timer that its callback    *)
(* left alone is armed again for one period after its last expiry, however *)
(* late the callback ran.                                                  *)
Return ==
  LET t == Head(running) IN
  /\ running # <<>>
  /\ running' = Tail(running)
  /\ IF period[t] = OneShot \/ t \in ToSet(pending)
     THEN UNCHANGED <<pending, dueAt>>
     ELSE /\ dueAt' = [dueAt EXCEPT ![t] = @ + period[t]]
          /\ pending' = Enqueue(pending, dueAt', t)
  /\ UNCHANGED <<now, period>>

Tick ==
  /\ now < MaxTime
  /\ now' = now + 1
  /\ UNCHANGED <<pending, dueAt, period, running>>

Next ==
  \/ \E t \in Timers, at \in DueTimes, p \in Periods \cup {OneShot} : Arm(t, at, p)
  \/ \E t \in Timers : Cancel(t)
  \/ Fire
  \/ Return
  \/ Tick

Spec == Init /\ [][Next]_vars
=============================================================================
