-------------------------------- MODULE Timer --------------------------------
(***************************************************************************)
(* Timer (src/src/App/Evm/Timer.cpp) and the part of Evm                   *)
(* (src/src/App/Evm/Evm.cpp, Evm.h) that keeps the registered timers in    *)
(* timerList_, a std::multiset<Timer *> ordered by CmpTimer.  The key of a *)
(* timer, (timeoutAtUs_, seqNo_), is read from the Timer object at every   *)
(* comparison, so an object that changes while it is in the list changes   *)
(* the order under the tree.                                               *)
(*                                                                         *)
(* timerList_ is modelled by the sequence an in-order walk of the tree     *)
(* visits.  A search of the tree ends in a gap between two neighbours it   *)
(* has compared with, so the outcomes of a search are the gaps both of     *)
(* whose neighbours answer as the search requires: exactly one when the    *)
(* sequence is in order, and any of several when it is not.                *)
(*                                                                         *)
(* Everything here runs in the Evm thread.  Between any two steps client   *)
(* code (a callback, or work that Evm runs) may arm, re-arm and cancel any *)
(* timer, and a callback may run a nested Evm::MainLoop().                 *)
(***************************************************************************)
EXTENDS Integers, Sequences, SequencesExt, FiniteSets

CONSTANTS
  Timers,               \* the Timer objects
  MaxTime,              \* bound: PAL.Micros() stops here
  MaxSeqNo,             \* bound: clients arm no timer beyond this seqNoNext_
  MaxRunning,           \* bound: callbacks on the call stack at once
  Times,                \* the arguments of TimeoutAtUs
  Durations,            \* the arguments of TimeoutInUs
  Intervals,            \* the arguments of TimeoutIntervalUs
  Snaps                 \* the arguments of SetSnapToUs

ASSUME TimerAssumption ==
  /\ MaxTime \in Nat
  /\ MaxSeqNo \in Nat
  /\ MaxRunning \in Nat \ {0}
  /\ Times \subseteq Nat
  /\ Durations \subseteq Nat
  /\ Intervals \subseteq Nat
  /\ Snaps \subseteq Nat

VARIABLES
  now,                 \* PAL.Micros()
  timerList,           \* Evm::timerList_, in the order of the tree
  timeoutAtUs,         \* Timer::timeoutAtUs_
  seqNo,               \* Timer::seqNo_
  seqNoNext,           \* Timer::seqNoNext_
  isInterval,          \* Timer::isInterval_
  durationIntervalUs,  \* Timer::durationIntervalUs_
  snapToUs,            \* Timer::snapToUs_
  running              \* timers whose cbFn_() is on the stack, innermost first

settings == <<isInterval, durationIntervalUs, snapToUs>>
vars == <<now, timerList, timeoutAtUs, seqNo, seqNoNext, settings, running>>

Init ==
  /\ now = 0
  /\ timerList = <<>>
  /\ timeoutAtUs = [t \in Timers |-> 0]
  /\ seqNo = [t \in Timers |-> 0]
  /\ seqNoNext = 1
  /\ isInterval = [t \in Timers |-> FALSE]
  /\ durationIntervalUs = [t \in Timers |-> 0]
  /\ snapToUs = [t \in Timers |-> 0]
  /\ running = <<>>

-----------------------------------------------------------------------------
(* The multiset.  Every operator takes the keys as arguments: an action    *)
(* searches with the keys as they are at that point of the code.           *)

CmpTimer(at, sn, t, u) ==
  /\ t # u
  /\ \/ at[t] < at[u]
     \/ at[t] = at[u] /\ sn[t] < sn[u]

(* The gaps where a search for the first entry not before t may end.       *)
LowerBounds(list, at, sn, t) ==
  {g \in 1 .. Len(list) + 1 :
     /\ g > 1 => CmpTimer(at, sn, list[g - 1], t)
     /\ g <= Len(list) => ~CmpTimer(at, sn, list[g], t)}

(* The gaps where a search for the first entry after t may end.            *)
UpperBounds(list, at, sn, t) ==
  {g \in 1 .. Len(list) + 1 :
     /\ g > 1 => ~CmpTimer(at, sn, t, list[g - 1])
     /\ g <= Len(list) => CmpTimer(at, sn, t, list[g])}

(* Evm::RegisterTimer: multiset::insert, after the entries equal to t.     *)
RegisterTimer(list, at, sn, t) ==
  {InsertAt(list, g, t) : g \in UpperBounds(list, at, sn, t)}

Cut(list, lo, hi) == SubSeq(list, 1, lo - 1) \o SubSeq(list, hi, Len(list))

(* Evm::DeRegisterTimer: multiset::erase by key, the whole equal range.    *)
DeRegisterTimer(list, at, sn, t) ==
  {Cut(list, g[1], g[2]) :
     g \in {h \in LowerBounds(list, at, sn, t) \X UpperBounds(list, at, sn, t) :
              h[1] <= h[2]}}

-----------------------------------------------------------------------------
(* "optionally snap to ms, only going forward in time when necessary"      *)
SnapUp(at, snap) ==
  IF snap = 0 \/ at % snap = 0 THEN at ELSE (at \div snap) * snap + snap

(* Timer::Register.                                                        *)
Register(list, t) ==
  /\ seqNo' = [seqNo EXCEPT ![t] = seqNoNext]
  /\ seqNoNext' = seqNoNext + 1
  /\ timerList' \in RegisterTimer(list, timeoutAtUs', seqNo', t)

\* Mutant: the new expiry is stored before the old registration is cancelled.
TimeoutBeforeCancel(t, at, interval) ==
  /\ seqNoNext < MaxSeqNo
  /\ timeoutAtUs' = [timeoutAtUs EXCEPT ![t] = SnapUp(at, snapToUs[t])]
  /\ \E list \in DeRegisterTimer(timerList, timeoutAtUs', seqNo, t) : Register(list, t)
  /\ isInterval' = [isInterval EXCEPT ![t] = interval.on]
  /\ durationIntervalUs' = [durationIntervalUs EXCEPT ![t] = interval.us]
  /\ UNCHANGED <<now, snapToUs, running>>

(* The common body of TimeoutAtUs, TimeoutInUs and TimeoutIntervalUs:      *)
(* cancel with the old key, then set the new key and register.             *)
Timeout(t, at, interval) ==
  /\ seqNoNext < MaxSeqNo
  /\ timeoutAtUs' = [timeoutAtUs EXCEPT ![t] = SnapUp(at, snapToUs[t])]
  /\ \E list \in DeRegisterTimer(timerList, timeoutAtUs, seqNo, t) : Register(list, t)
  /\ isInterval' = [isInterval EXCEPT ![t] = interval.on]
  /\ durationIntervalUs' = [durationIntervalUs EXCEPT ![t] = interval.us]
  /\ UNCHANGED <<now, snapToUs, running>>

NoInterval == [on |-> FALSE, us |-> 0]

TimeoutAtUs(t, at) == Timeout(t, at, NoInterval)

TimeoutInUs(t, us) == Timeout(t, now + us, NoInterval)

(* "changed to interval again ... hmm, not quite fine actually, just don't *)
(* do that one" (OnTimeout): no callback arms its own timer as an interval. *)
TimeoutIntervalUs(t, us, firstInUs) ==
  /\ t \notin ToSet(running)
  /\ Timeout(t, now + firstInUs, [on |-> TRUE, us |-> us])

\* Mutant: the timer stays marked as an interval timer.
CancelKeepInterval(t) ==
  /\ timerList' \in DeRegisterTimer(timerList, timeoutAtUs, seqNo, t)
  /\ UNCHANGED <<now, timeoutAtUs, seqNo, seqNoNext, settings, running>>

(* Timer::Cancel, and Timer::~Timer.                                       *)
Cancel(t) ==
  /\ timerList' \in DeRegisterTimer(timerList, timeoutAtUs, seqNo, t)
  /\ isInterval' = [isInterval EXCEPT ![t] = FALSE]
  /\ UNCHANGED <<now, timeoutAtUs, seqNo, seqNoNext, durationIntervalUs, snapToUs, running>>

SetSnapToUs(t, us) ==
  /\ snapToUs' = [snapToUs EXCEPT ![t] = us]
  /\ UNCHANGED <<now, timerList, timeoutAtUs, seqNo, seqNoNext, isInterval,
                 durationIntervalUs, running>>

(* Evm::ServiceTimers up to the call of cbFn_() in Timer::OnTimeout.  The  *)
(* quota of one timer a pass is the caller's loop: a pass is one step.     *)
ServiceTimers ==
  /\ Len(running) < MaxRunning
  /\ timerList # <<>>
  /\ LET t == Head(timerList) IN
     /\ timeoutAtUs[t] <= now
     /\ timerList' \in DeRegisterTimer(timerList, timeoutAtUs, seqNo, t)
     /\ running' = <<t>> \o running
  /\ UNCHANGED <<now, timeoutAtUs, seqNo, seqNoNext, settings>>

(* Timer::OnTimeout after cbFn_() returns: the key moves, then Register.   *)
OnTimeoutReturns ==
  LET t == Head(running) IN
  /\ running # <<>>
  /\ running' = Tail(running)
  /\ IF isInterval[t]
     THEN /\ timeoutAtUs' = [timeoutAtUs EXCEPT ![t] = @ + durationIntervalUs[t]]
          /\ Register(timerList, t)
     ELSE UNCHANGED <<timerList, timeoutAtUs, seqNo, seqNoNext>>
  /\ UNCHANGED <<now, settings>>

Tick ==
  /\ now < MaxTime
  /\ now' = now + 1
  /\ UNCHANGED <<timerList, timeoutAtUs, seqNo, seqNoNext, settings, running>>

Next ==
  \/ \E t \in Timers :
       \/ \E at \in Times : TimeoutAtUs(t, at)
       \/ \E us \in Durations : TimeoutInUs(t, us)
       \/ \E us, firstInUs \in Intervals : TimeoutIntervalUs(t, us, firstInUs)
       \/ Cancel(t)
       \/ \E us \in Snaps : SetSnapToUs(t, us)
  \/ ServiceTimers
  \/ OnTimeoutReturns
  \/ Tick

Spec == Init /\ [][Next]_vars

-----------------------------------------------------------------------------
(* Types of the state, and the bounds on the counters.                     *)
TypeOK ==
  /\ now \in 0 .. MaxTime
  /\ timerList \in Seq(Timers)
  /\ timeoutAtUs \in [Timers -> Nat]
  /\ seqNo \in [Timers -> Nat]
  /\ seqNoNext \in Nat \ {0}
  /\ isInterval \in [Timers -> BOOLEAN]
  /\ durationIntervalUs \in [Timers -> Nat]
  /\ snapToUs \in [Timers -> Nat]
  /\ running \in Seq(Timers)
  /\ Len(running) <= MaxRunning

(* The tree is always strictly in the order of the keys the timers have    *)
(* now: nobody changed a key while its timer was in the list, and no timer *)
(* is in the list twice ("never let different objects compare equivalent", *)
(* Evm.h).  begin() is the next timer to fire, and erase finds its timer,  *)
(* only while this holds.                                                  *)
TimerListInOrder ==
  \A i, j \in DOMAIN timerList :
    i < j => CmpTimer(timeoutAtUs, seqNo, timerList[i], timerList[j])

(* An interval timer is never lost: until somebody cancels it, it is either *)
(* registered or in its callback (after which OnTimeout registers it), and  *)
(* never both, which would register it a second time.                       *)
IntervalKeepsGoing ==
  \A t \in Timers :
    isInterval[t] => (t \in ToSet(timerList)) # (t \in ToSet(running))

(* A callback starts only when its timer has expired, and no registered    *)
(* timer expires earlier, or at the same time having been registered       *)
(* earlier: "earliest-to-latest-to-register", Timer.h.                     *)
FiresEarliest ==
  Len(running') > Len(running) =>
    LET t == Head(running') IN
    /\ timeoutAtUs[t] <= now
    /\ \A u \in ToSet(timerList) \ {t} :
         \/ timeoutAtUs[t] < timeoutAtUs[u]
         \/ timeoutAtUs[t] = timeoutAtUs[u] /\ seqNo[t] < seqNo[u]

EarliestFirst == [][FiresEarliest]_vars

-----------------------------------------------------------------------------
(* The service these timers implement: an interval timer is one with a     *)
(* period, and the expiry times asked for are those the calls can make.    *)
ExpiryTimes ==
  {SnapUp(at, snap) :
     at \in Times \cup {n + us : n \in 0 .. MaxTime, us \in Durations \cup Intervals},
     snap \in Snaps \cup {0}}

Service == INSTANCE TimerService WITH
  DueTimes <- ExpiryTimes,
  Periods <- Intervals,
  OneShot <- -1,
  pending <- timerList,
  dueAt <- timeoutAtUs,
  period <- [t \in Timers |-> IF isInterval[t] THEN durationIntervalUs[t] ELSE -1]

(* The sequence numbers, the comparator and the searches of the tree give   *)
(* exactly the first-in first-out service that TimerService specifies.      *)
ImplementsService == Service!Spec
=============================================================================
