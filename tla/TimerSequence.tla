----------------------------- MODULE TimerSequence -----------------------------
(***************************************************************************)
(* TimerSequence (src/src/App/Evm/TimerSequence.cpp): a list of steps that *)
(* one timer runs one after the other.  When a step is to start is kept in *)
(* the step before it, as a delay or as a time, and that of the first step *)
(* in firstStep_; a delay is followed by a step that does nothing.         *)
(*                                                                         *)
(* Everything runs in the Evm thread: the program builds and starts the    *)
(* sequence, also from its own steps, and Evm runs the timer's callback.   *)
(* The timer is what module TimerService promises of one.  What a step     *)
(* does is the program's, but for calls of the sequence itself.  A time is *)
(* kept as what is left until then, 0 when it has come.                    *)
(*                                                                         *)
(* The code checks nothing of when it is called.  Calls that come when     *)
(* they can have no effect, or spoil that of others, are part of the       *)
(* model, and which steps they concern is remembered.                      *)
(***************************************************************************)
EXTENDS Integers, Sequences

CONSTANTS
  MaxDelay,   \* the longest of Delays: times since are told apart up to it
  MaxSteps,   \* bound: steps of a sequence
  Delays,     \* the arguments of DelayUs
  Times,      \* the arguments of StartAtUs
  None        \* no time

ASSUME TimerSequenceAssumption ==
  /\ MaxDelay \in Nat /\ MaxSteps \in Nat
  /\ Delays \subseteq 0 .. MaxDelay /\ Times \subseteq Nat
  /\ None \notin Nat

VARIABLES
  due,           \* when timer_ expires, or None
  firstStep_,    \* what it says of the step after it, as do
  stepList_,     \* the steps
  stepListIdx_,
  calling,       \* is the callback of the step at stepListIdx_ running?
  dangling,      \* has stepList_ moved since OnTimeout() took its reference?
  asked,         \* when each step was asked to start, as a delay or as a time
  since,         \* the time since the sequence was started, or its last step
                 \* returned, or None
  missed         \* history: the steps whose start a call came too late for, or
                 \* changed, or that was looked up in a list that had moved

lists == <<firstStep_, stepList_, asked>>
sequenceVars == <<due, lists, stepListIdx_, calling, dangling, since, missed>>

ScheduleIn(d) == [type |-> "ScheduleIn", us |-> d]
ScheduleAt(t) == [type |-> "ScheduleAt", us |-> t]
Schedule == [type : {"ScheduleIn", "ScheduleAt"}, us : Nat]

SequenceInit ==
  /\ due = None
  /\ firstStep_ = ScheduleIn(0)
  /\ stepList_ = <<>>
  /\ stepListIdx_ = 0
  /\ calling = FALSE
  /\ dangling = FALSE
  /\ asked = <<>>
  /\ since = None
  /\ missed = {}

Size == Len(stepList_)

-----------------------------------------------------------------------------
(* Calls of the program, between steps or from inside of one.              *)

Misses(step, really) == missed' = missed \cup (IF really THEN {step} ELSE {})

(* Pushed to the back.  From inside of a step that may move the list, and  *)
(* OnTimeout() goes on with a reference into freed memory, from which it   *)
(* takes when the next step starts.                                        *)
Push(rule) ==
  /\ Size < MaxSteps
  /\ asked' = Append(asked, rule)
  /\ dangling' \in {dangling, calling}
  /\ UNCHANGED <<due, stepListIdx_, calling, since>>

Add ==
  /\ stepList_' = Append(stepList_, ScheduleIn(0))
  /\ Push(ScheduleIn(0))
  /\ Misses(stepListIdx_ + 2, dangling')
  /\ UNCHANGED firstStep_

(* The last step says when the next one starts: too late once it has run.  *)
DelayUs(d) ==
  LET late == Size > 0 /\ stepListIdx_ >= Size
  IN  /\ Push(ScheduleIn(d))
      /\ Misses(IF late THEN Size + 1 ELSE stepListIdx_ + 2, late \/ dangling')
      /\ IF Size = 0
         THEN /\ firstStep_' = ScheduleIn(d)
              /\ stepList_' = <<ScheduleIn(0)>>
         ELSE /\ stepList_' = Append([stepList_ EXCEPT ![Size] = ScheduleIn(d)], ScheduleIn(0))
              /\ UNCHANGED firstStep_

(* Mutant: the step before is taken to be the last one.                    *)
StartAtUsBack(t) ==
  /\ Size >= 1
  /\ stepList_' = [stepList_ EXCEPT ![Size] = ScheduleAt(t)]
  /\ asked' = [asked EXCEPT ![Size] = ScheduleAt(t)]
  /\ Misses(Size, Size = 1 \/ stepListIdx_ >= Size - 1)
  /\ UNCHANGED <<due, firstStep_, stepListIdx_, calling, dangling, since>>

(* The step before the last one says when the last one starts.  With a     *)
(* single step that is stepList_[-1], and some other memory is written;    *)
(* and it has no effect any more when the timer already runs for the last. *)
StartAtUs(t) ==
  /\ Size >= 1
  /\ stepList_' = IF Size >= 2 THEN [stepList_ EXCEPT ![Size - 1] = ScheduleAt(t)] ELSE stepList_
  /\ asked' = [asked EXCEPT ![Size] = ScheduleAt(t)]
  /\ Misses(Size, Size = 1 \/ stepListIdx_ >= Size - 1)
  /\ UNCHANGED <<due, firstStep_, stepListIdx_, calling, dangling, since>>

(* TimeoutInUs or TimeoutAtUs, if there is a step left.                    *)
ScheduleNextFromStep(step, idx) == due' = IF idx < Size THEN step.us ELSE due

(* Called again while its timer runs, it makes the next step start by the  *)
(* delay of the first.  From inside of a step it starts the timer too,     *)
(* which then runs for the next step, and is set anew if there is one yet. *)
Start ==
  /\ ScheduleNextFromStep(firstStep_, stepListIdx_)
  /\ since' = IF calling THEN since ELSE 0
  /\ Misses(stepListIdx_ + 1, due # None /\ ~calling /\ stepListIdx_ < Size)
  /\ UNCHANGED <<lists, stepListIdx_, calling, dangling>>

(* From inside of a step it is followed by the counting of that step, so   *)
(* that the sequence then begins with its second step.                     *)
Reset ==
  /\ due' = None
  /\ firstStep_' = ScheduleIn(0) /\ stepList_' = <<>> /\ asked' = <<>>
  /\ stepListIdx_' = 0
  /\ dangling' = calling
  /\ since' = None
  /\ missed' = IF calling THEN 1 .. MaxSteps ELSE {}
  /\ UNCHANGED calling

-----------------------------------------------------------------------------
(* Evm, and OnTimeout().                                                   *)

(* The callback of the step starts.                                        *)
StepStarts ==
  /\ due = 0 /\ ~calling
  /\ due' = None
  /\ calling' = (stepListIdx_ < Size)
  /\ UNCHANGED <<lists, stepListIdx_, dangling, since, missed>>

(* Mutant: the step is scheduled from before it is counted.                *)
StepReturnsEarly ==
  /\ calling /\ calling' = FALSE
  /\ stepListIdx_' = stepListIdx_ + 1
  /\ ScheduleNextFromStep(stepList_[stepListIdx_ + 1], stepListIdx_' + 1)
  /\ dangling' = FALSE
  /\ since' = 0
  /\ UNCHANGED <<lists, missed>>

(* It returns, and the next step is scheduled.  From a step that has moved *)
(* anything may be read.                                                   *)
StepReturns ==
  /\ calling /\ calling' = FALSE
  /\ stepListIdx_' = stepListIdx_ + 1
  /\ IF dangling
     THEN \/ UNCHANGED due
          \/ \E d \in Delays : ScheduleNextFromStep(ScheduleIn(d), stepListIdx_')
     ELSE ScheduleNextFromStep(stepList_[stepListIdx_ + 1], stepListIdx_')
  /\ dangling' = FALSE
  /\ since' = 0
  /\ UNCHANGED <<lists, missed>>

Later(us) == IF us = 0 THEN 0 ELSE us - 1
LaterAt(step) == IF step.type = "ScheduleAt" THEN [step EXCEPT !.us = Later(@)] ELSE step
AllLater(steps) == [i \in DOMAIN steps |-> LaterAt(steps[i])]

SequenceTick ==
  /\ due' = IF due = None THEN None ELSE Later(due)
  /\ stepList_' = AllLater(stepList_)
  /\ asked' = AllLater(asked)
  /\ since' = IF since = None \/ since = MaxDelay THEN since ELSE since + 1
  /\ UNCHANGED <<firstStep_, stepListIdx_, calling, dangling, missed>>

SequenceNext ==
  \/ Add
  \/ \E d \in Delays : DelayUs(d)
  \/ \E t \in Times : StartAtUs(t)
  \/ Start
  \/ Reset
  \/ StepStarts
  \/ StepReturns
  \/ SequenceTick

SequenceSpec == SequenceInit /\ [][SequenceNext]_sequenceVars

(* Time passes, Evm runs timers that are due, and steps return.            *)
SequenceFairness ==
  /\ WF_sequenceVars(SequenceTick) /\ WF_sequenceVars(StepStarts) /\ WF_sequenceVars(StepReturns)

-----------------------------------------------------------------------------
(* Types of the state.                                                     *)
SequenceTypeOK ==
  /\ due \in Nat \cup {None} /\ since \in 0 .. MaxDelay \cup {None}
  /\ firstStep_ \in Schedule
  /\ stepList_ \in Seq(Schedule) /\ Size <= MaxSteps
  /\ asked \in Seq(Schedule) /\ Len(asked) = Size
  /\ stepListIdx_ \in 0 .. Size + 1
  /\ missed \subseteq 1 .. MaxSteps
  /\ calling \in BOOLEAN /\ dangling \in BOOLEAN

(* A step starts no earlier than it was asked to: a delay after the one    *)
(* before it returned, or the sequence was started, or at its time.  What  *)
(* keeps a step from that are calls that concern this very step: a delay   *)
(* or a time that is asked for when the timer runs already or for a single *)
(* step, a second Start(), and a list that moved under the step before it; *)
(* and a Reset() from inside of a step, until the next one from outside.   *)
StartsAsAsked ==
  calling =>
    \/ stepListIdx_ + 1 \in missed
    \/ LET rule == asked[stepListIdx_ + 1]
       IN  IF rule.type = "ScheduleIn" THEN since >= rule.us ELSE rule.us = 0

(* Once a sequence is started all of its steps run, also those that are    *)
(* added meanwhile, unless it is Reset(), or a call missed a step.         *)
StepsRun ==
  \A i \in 1 .. MaxSteps :
    (due # None /\ i <= Size /\ missed = {}) ~> (stepListIdx_ >= i \/ since = None \/ missed # {})
=============================================================================
