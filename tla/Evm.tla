--------------------------------- MODULE Evm ---------------------------------
(***************************************************************************)
(* The event manager (src/src/App/Evm/Evm.cpp): the main loop of the       *)
(* application thread, its two work queues and semaphore                   *)
(* (src/src/App/Kernel/KMessagePassing.h), the time it sleeps              *)
(* (src/src/App/Kernel/KTime.cpp), and the threads and interrupt handlers  *)
(* that hand it work.  The timer list is module TimerService.              *)
(*                                                                         *)
(* One core.  An interrupt handler runs between any two steps, and its     *)
(* kernel calls never wait.  A task has a lower priority than the Evm      *)
(* thread: it runs while that thread waits, in Take() or in a callback,    *)
(* and may be preempted between any two of its kernel calls.               *)
(*                                                                         *)
(* A unit of work is the label it was queued with, which names who queued  *)
(* it; what the work does is what any callback may do: use timers, queue   *)
(* and clear work, run a nested MainLoop() and leave it.                   *)
(***************************************************************************)
EXTENDS Integers, Sequences, SequencesExt, FiniteSets

CONSTANTS
  Isrs,                \* the interrupt handlers
  Tasks,               \* the threads of a lower priority
  EvmThread,           \* the application thread
  MAX_WORK_ITEMS,      \* capacity of each work queue
  MAX_EVENTS_HANDLED,  \* work taken from a queue in one pass of the loop
  CountLimit,          \* KSemaphore's countLimit
  LongSleep,           \* the sleep, in us, when no timer is registered
  TickUs,              \* microseconds in a tick of the kernel
  PortMaxDelay,        \* portMAX_DELAY, the largest value of a uint32_t
  MaxDepth,            \* bound: MainLoop() calls on the stack at once
  EvmQueuesWork,       \* does code in the Evm thread queue work?
  None,                \* no callback
  Timers, MaxTime, DueTimes, Periods, OneShot, MaxRunning  \* see TimerService

ASSUME EvmAssumption ==
  /\ Isrs \cap (Tasks \cup {EvmThread}) = {}
  /\ EvmThread \notin Tasks
  /\ None \notin Isrs \cup Tasks \cup {EvmThread} \cup Timers
  /\ Timers \cap (Isrs \cup Tasks \cup {EvmThread}) = {}
  /\ MAX_WORK_ITEMS \in Nat \ {0}
  /\ MAX_EVENTS_HANDLED \in Nat \ {0}
  /\ CountLimit \in Nat \ {0}
  /\ {LongSleep, TickUs, PortMaxDelay} \subseteq Nat \ {0}
  /\ MaxDepth \in Nat
  /\ EvmQueuesWork \in BOOLEAN
  /\ MaxTime \in Nat
  /\ DueTimes \cup Periods \subseteq Nat

VARIABLES
  now, pending, dueAt, period, running,  \* the timers, see TimerService
  fnWorkList,             \* Evm::fnWorkList_
  fnLowPriorityWorkList,  \* Evm::fnLowPriorityWorkList_
  sem,                    \* the count of Evm::sem_
  mainLoopStackDepth,     \* Evm::mainLoopStackDepth_
  stack,                  \* the calls of MainLoop(), innermost first
  timeToSleep,            \* MainLoop()'s, while it takes the semaphore, or 0
  wakeAt,                 \* when Take() times out, or Never
  passed,                 \* history: the time between reading the clock for
                          \* timeToSleep and waiting
  call                    \* how far each thread is in a call that queues work

timerVars == <<now, pending, dueAt, period, running>>
queueVars == <<fnWorkList, fnLowPriorityWorkList, sem, call>>
sleepVars == <<timeToSleep, wakeAt, passed>>
loopVars == <<mainLoopStackDepth, stack, sleepVars>>
vars == <<timerVars, queueVars, loopVars>>

Service == INSTANCE TimerService

Threads == Tasks \cup {EvmThread}
Labels == Isrs \cup Threads
Never == -1

(* A call of MainLoop(): where it is, what is left of the quota there, and *)
(* the work or timer whose callback it waits for.                          *)
Frame == [expectedStackDepth : Nat,
          at : {"loop", "work", "lowWork", "timers", "check", "checkLow", "sleep", "take",
                "asleep"},
          remainingEvents : 0 .. MAX_EVENTS_HANDLED,
          job : Labels \cup Timers \cup {None}]

Init ==
  /\ Service!Init
  /\ fnWorkList = <<>>
  /\ fnLowPriorityWorkList = <<>>
  /\ sem = 0
  /\ mainLoopStackDepth = 0
  /\ stack = <<>>
  /\ timeToSleep = 0 /\ wakeAt = Never /\ passed = 0
  /\ call = [c \in Threads |-> "idle"]

-----------------------------------------------------------------------------
(* The kernel.                                                             *)

IsFull(list) == Len(list) >= MAX_WORK_ITEMS

(* xSemaphoreGive: at the limit it fails, and nobody looks at the result.  *)
Give(count) == IF count < CountLimit THEN count + 1 ELSE count

(* Mutant: KTime rounds up to the next tick.                               *)
KTimeUp(us) ==
  LET word == us % (PortMaxDelay + 1)
  IN  IF word = PortMaxDelay THEN Never ELSE (word + TickUs - 1) \div TickUs

(* KTime: the microseconds Take() is given, cut to 32 bits, in whole ticks *)
(* of the kernel; PortMaxDelay stays as it is, and means for ever.         *)
KTime(us) ==
  LET word == us % (PortMaxDelay + 1)
  IN  IF word = PortMaxDelay THEN Never ELSE word \div TickUs

-----------------------------------------------------------------------------
(* The Evm thread.                                                         *)

Top == Head(stack)

At(place) == stack # <<>> /\ Top.at = place /\ Top.job = None

SetTop(frame) == stack' = <<frame>> \o Tail(stack)

(* Mutant: the quota is per call of MainLoop(), not per pass.              *)
GoToKeepQuota(place) == SetTop([Top EXCEPT !.at = place])

GoTo(place) == SetTop([Top EXCEPT !.at = place, !.remainingEvents = MAX_EVENTS_HANDLED])

(* Client code runs in the Evm thread: the application before and after    *)
(* MainLoop(), or a callback.                                              *)
ClientRuns == stack # <<>> => Top.job # None

(* The Evm thread runs no code and others of a lower priority may: it is   *)
(* asleep, or client code waits for something of its own.                  *)
Asleep == At("asleep")
EvmWaits == ClientRuns \/ (Asleep /\ sem = 0 /\ (wakeAt = Never \/ now < wakeAt))

(* MainLoop() up to its first test of the loop condition.                  *)
MainLoop ==
  /\ ClientRuns
  /\ call[EvmThread] = "idle"
  /\ Len(stack) < MaxDepth
  /\ mainLoopStackDepth' = mainLoopStackDepth + 1
  /\ stack' = <<[expectedStackDepth |-> mainLoopStackDepth', at |-> "loop",
                 remainingEvents |-> MAX_EVENTS_HANDLED, job |-> None]>> \o stack
  /\ UNCHANGED <<timerVars, queueVars, sleepVars>>

(* A call without a loop to leave would wrap the uint8_t: nobody does it.  *)
ExitMainLoop ==
  /\ ClientRuns
  /\ call[EvmThread] = "idle"
  /\ mainLoopStackDepth > 0
  /\ mainLoopStackDepth' = mainLoopStackDepth - 1
  /\ UNCHANGED <<timerVars, queueVars, stack, sleepVars>>

LoopCondition ==
  /\ At("loop")
  /\ IF mainLoopStackDepth = Top.expectedStackDepth
     THEN GoTo("work")
     ELSE stack' = Tail(stack)
  /\ UNCHANGED <<timerVars, queueVars, mainLoopStackDepth, sleepVars>>

Call(job) ==
  SetTop([Top EXCEPT !.remainingEvents = @ - 1, !.job = job])

ServiceWork ==
  /\ At("work")
  /\ IF fnWorkList # <<>> /\ Top.remainingEvents > 0
     THEN /\ Call(Head(fnWorkList))
          /\ fnWorkList' = Tail(fnWorkList)
     ELSE /\ GoTo("lowWork")
          /\ UNCHANGED fnWorkList
  /\ UNCHANGED <<timerVars, fnLowPriorityWorkList, sem, call, mainLoopStackDepth, sleepVars>>

ServiceLowPriorityWork ==
  /\ At("lowWork")
  /\ IF fnLowPriorityWorkList # <<>> /\ Top.remainingEvents > 0
     THEN /\ Call(Head(fnLowPriorityWorkList))
          /\ fnLowPriorityWorkList' = Tail(fnLowPriorityWorkList)
     ELSE /\ GoTo("timers")
          /\ UNCHANGED fnLowPriorityWorkList
  /\ UNCHANGED <<timerVars, fnWorkList, sem, call, mainLoopStackDepth, sleepVars>>

(* At most one timer a pass: the loop goes on to "check" either way.       *)
ServiceTimers ==
  /\ At("timers")
  /\ IF pending # <<>> /\ dueAt[Head(pending)] <= now
     THEN /\ SetTop([Top EXCEPT !.at = "check", !.job = Head(pending)])
          /\ Service!Fire
     ELSE /\ GoTo("check")
          /\ UNCHANGED timerVars
  /\ UNCHANGED <<queueVars, mainLoopStackDepth, sleepVars>>

CallbackReturns ==
  /\ stack # <<>>
  /\ Top.job # None
  /\ call[EvmThread] = "idle"
  /\ SetTop([Top EXCEPT !.job = None])
  /\ IF Top.job \in Timers THEN Service!Return ELSE UNCHANGED timerVars
  /\ UNCHANGED <<queueVars, mainLoopStackDepth, sleepVars>>

(* "Determine whether to keep processing": the counts are read one after   *)
(* the other.                                                              *)
CheckWork ==
  /\ At("check")
  /\ GoTo(IF fnWorkList = <<>> THEN "checkLow" ELSE "loop")
  /\ UNCHANGED <<timerVars, queueVars, mainLoopStackDepth, sleepVars>>

CheckLowPriorityWork ==
  /\ At("checkLow")
  /\ GoTo(IF fnLowPriorityWorkList = <<>> THEN "sleep" ELSE "loop")
  /\ UNCHANGED <<timerVars, queueVars, mainLoopStackDepth, sleepVars>>

(* Mutant: without the fast breakout.                                      *)
DurationWithoutBreakout ==
  IF pending = <<>> THEN LongSleep
  ELSE IF dueAt[Head(pending)] <= now THEN 0
  ELSE dueAt[Head(pending)] - now

GetDurationUsToNextTimerTimeout ==
  IF mainLoopStackDepth # Top.expectedStackDepth THEN 0
  ELSE IF pending = <<>> THEN LongSleep
  ELSE IF dueAt[Head(pending)] <= now THEN 0
  ELSE dueAt[Head(pending)] - now

(* "is there time to sleep?"  The clock is read for it, and time passes    *)
(* and interrupts come until the semaphore is taken.                       *)
ComputeTimeToSleep ==
  /\ At("sleep")
  /\ timeToSleep' = GetDurationUsToNextTimerTimeout /\ passed' = 0
  /\ GoTo(IF timeToSleep' = 0 THEN "loop" ELSE "take")
  /\ UNCHANGED <<timerVars, queueVars, mainLoopStackDepth, wakeAt>>

GoesOn == timeToSleep' = 0 /\ wakeAt' = Never /\ passed' = 0 /\ GoTo("loop")

(* sem_.Take(timeToSleep): returns at once, or the thread waits until the  *)
(* tick interrupt that ends the wait.                                      *)
Take ==
  LET ticks == KTime(timeToSleep)
  IN
  /\ At("take")
  /\ IF sem > 0 \/ ticks = 0
     THEN /\ GoesOn
          /\ sem' = IF sem > 0 THEN sem - 1 ELSE sem
     ELSE /\ GoTo("asleep")
          /\ wakeAt' = IF ticks = Never THEN Never ELSE (now \div TickUs + ticks) * TickUs
          /\ UNCHANGED <<sem, timeToSleep, passed>>
  /\ UNCHANGED <<timerVars, fnWorkList, fnLowPriorityWorkList, call, mainLoopStackDepth>>

Wake ==
  /\ Asleep
  /\ \/ sem > 0 /\ sem' = sem - 1
     \/ sem = 0 /\ wakeAt # Never /\ now >= wakeAt /\ UNCHANGED sem
  /\ GoesOn
  /\ UNCHANGED <<timerVars, fnWorkList, fnLowPriorityWorkList, call, mainLoopStackDepth>>

-----------------------------------------------------------------------------
(* What client code does with timers and with queued work.                 *)

ClientTimers(t) ==
  /\ ClientRuns
  /\ call[EvmThread] = "idle"
  /\ \/ \E at \in DueTimes : Service!Arm(t, at, OneShot)
     \/ \E at \in DueTimes, p \in Periods : t \notin ToSet(running) /\ Service!Arm(t, at, p)
     \/ Service!Cancel(t)
  /\ UNCHANGED <<queueVars, loopVars>>

(* With interrupts and the scheduler locked: one step.                     *)
ClearLowPriorityWorkByLabel(label) ==
  /\ ClientRuns
  /\ call[EvmThread] = "idle"
  /\ fnLowPriorityWorkList' = SelectSeq(fnLowPriorityWorkList, LAMBDA l : l # label)
  /\ UNCHANGED <<timerVars, fnWorkList, sem, call, loopVars>>

-----------------------------------------------------------------------------
(* Queueing work, from a thread: one kernel call a step.                   *)

CanRun(c) == IF c = EvmThread THEN ClientRuns ELSE EvmWaits

Step(c, from, to) ==
  /\ CanRun(c)
  /\ call[c] = from
  /\ call' = [call EXCEPT ![c] = to]
  /\ UNCHANGED <<timerVars, loopVars>>

QueueWork(c) ==
  /\ c = EvmThread => EvmQueuesWork
  /\ Step(c, "idle", "put")
  /\ UNCHANGED <<fnWorkList, fnLowPriorityWorkList, sem>>

(* Put() waits for as long as the queue is full.                           *)
PutWork(c) ==
  /\ Step(c, "put", "give")
  /\ ~IsFull(fnWorkList)
  /\ fnWorkList' = Append(fnWorkList, c)
  /\ UNCHANGED <<fnLowPriorityWorkList, sem>>

QueueLowPriorityWork(c) ==
  /\ c = EvmThread => EvmQueuesWork
  /\ Step(c, "idle", IF IsFull(fnLowPriorityWorkList) THEN "drop" ELSE "lowPut")
  /\ UNCHANGED <<fnWorkList, fnLowPriorityWorkList, sem>>

(* Get(tmp, 0): whatever is the oldest by now, if there is any.            *)
DropOldest(c) ==
  /\ Step(c, "drop", "lowPut")
  /\ fnLowPriorityWorkList' =
       IF fnLowPriorityWorkList = <<>> THEN <<>> ELSE Tail(fnLowPriorityWorkList)
  /\ UNCHANGED <<fnWorkList, sem>>

(* Mutant: low priority work does not give the semaphore.                  *)
PutLowPriorityWorkOnly(c) ==
  /\ Step(c, "lowPut", "idle")
  /\ ~IsFull(fnLowPriorityWorkList)
  /\ fnLowPriorityWorkList' = Append(fnLowPriorityWorkList, c)
  /\ UNCHANGED <<fnWorkList, sem>>

PutLowPriorityWork(c) ==
  /\ Step(c, "lowPut", "give")
  /\ ~IsFull(fnLowPriorityWorkList)
  /\ fnLowPriorityWorkList' = Append(fnLowPriorityWorkList, c)
  /\ UNCHANGED <<fnWorkList, sem>>

GiveSem(c) ==
  /\ Step(c, "give", "idle")
  /\ sem' = Give(sem)
  /\ UNCHANGED <<fnWorkList, fnLowPriorityWorkList>>

(* From an interrupt handler: nothing waits, and Put() into a full queue   *)
(* fails, whose result nobody looks at.                                    *)
IsrQueueWork(i) ==
  /\ fnWorkList' = IF IsFull(fnWorkList) THEN fnWorkList ELSE Append(fnWorkList, i)
  /\ sem' = Give(sem)
  /\ UNCHANGED <<timerVars, fnLowPriorityWorkList, call, loopVars>>

IsrQueueLowPriorityWork(i) ==
  /\ fnLowPriorityWorkList' =
       Append(IF IsFull(fnLowPriorityWorkList)
              THEN Tail(fnLowPriorityWorkList) ELSE fnLowPriorityWorkList, i)
  /\ sem' = Give(sem)
  /\ UNCHANGED <<timerVars, fnWorkList, call, loopVars>>

(* KTime::SetScalingFactor wakes the loop up.                              *)
ScalingFactorChanges ==
  /\ ClientRuns
  /\ call[EvmThread] = "idle"
  /\ sem' = Give(sem)
  /\ UNCHANGED <<timerVars, fnWorkList, fnLowPriorityWorkList, call, loopVars>>

Tick ==
  /\ Service!Tick
  /\ passed' = IF At("take") THEN passed + 1 ELSE passed
  /\ UNCHANGED <<queueVars, mainLoopStackDepth, stack, timeToSleep, wakeAt>>

-----------------------------------------------------------------------------
EvmStep ==
  \/ LoopCondition
  \/ ServiceWork
  \/ ServiceLowPriorityWork
  \/ ServiceTimers
  \/ CheckWork
  \/ CheckLowPriorityWork
  \/ ComputeTimeToSleep
  \/ Take
  \/ Wake

(* The rest of a call that queues work.                                    *)
CallStep(c) ==
  \/ PutWork(c)
  \/ DropOldest(c)
  \/ PutLowPriorityWork(c)
  \/ GiveSem(c)

Client ==
  \/ MainLoop
  \/ ExitMainLoop
  \/ \E t \in Timers : ClientTimers(t)
  \/ \E label \in Labels : ClearLowPriorityWorkByLabel(label)
  \/ ScalingFactorChanges

Next ==
  \/ EvmStep
  \/ CallbackReturns
  \/ Client
  \/ \E c \in Threads : QueueWork(c) \/ QueueLowPriorityWork(c) \/ CallStep(c)
  \/ \E i \in Isrs : IsrQueueWork(i) \/ IsrQueueLowPriorityWork(i)
  \/ Tick

Spec == Init /\ [][Next]_vars

(* The application thread has the highest priority of those that queue     *)
(* work, so it runs whenever it can; callbacks come to an end; and a task  *)
(* that could run for good does.  Time passes.                             *)
Fairness ==
  /\ WF_vars(Tick)
  /\ WF_vars(EvmStep)
  /\ WF_vars(CallbackReturns)
  /\ \A c \in Threads : WF_vars(CallStep(c))

FairSpec == Spec /\ Fairness

-----------------------------------------------------------------------------
(* Types of the state, and the bounds on the counters.                     *)
TypeOK ==
  /\ Service!TypeOK
  /\ fnWorkList \in Seq(Labels) /\ Len(fnWorkList) <= MAX_WORK_ITEMS
  /\ fnLowPriorityWorkList \in Seq(Labels) /\ Len(fnLowPriorityWorkList) <= MAX_WORK_ITEMS
  /\ sem \in 0 .. CountLimit
  /\ mainLoopStackDepth \in 0 .. MaxDepth
  /\ stack \in Seq(Frame) /\ Len(stack) <= MaxDepth
  /\ timeToSleep \in Nat /\ wakeAt \in Nat \cup {Never} /\ passed \in Nat
  /\ call \in [Threads -> {"idle", "put", "drop", "lowPut", "give"}]

(* "make sure though that I don't wind up going to sleep when an ISR has   *)
(* fired but I haven't re-looked at it" (Evm.cpp): when the loop sleeps    *)
(* and the semaphore will not wake it, no work is queued, or the thread    *)
(* that queued it is still about to give the semaphore.                    *)
NoLostWakeup ==
  Asleep /\ sem = 0 /\ (fnWorkList # <<>> \/ fnLowPriorityWorkList # <<>>)
    => \E c \in Threads : call[c] = "give"

(* "fast breakout for when a MainLoop stack exits": a loop that was told   *)
(* to exit does not sleep first.                                           *)
NoSleepAfterExit == Asleep => mainLoopStackDepth = Top.expectedStackDepth

(* "would rather be early than late" (KTime.cpp): the wait for the next    *)
(* timer is over no later than it is due, but for the time that passed     *)
(* between reading the clock and waiting, by which it may be late ("latent *)
(* wake", which the code counts); and but for a sleep of PortMaxDelay in   *)
(* its low word, which is one for ever.                                    *)
SleepNotPastDeadline ==
  Asleep /\ pending # <<>> /\ timeToSleep % (PortMaxDelay + 1) # PortMaxDelay =>
    wakeAt # Never /\ wakeAt <= dueAt[Head(pending)] + passed

(* Work that is queued is done, as long as the application stays in its    *)
(* main loop; low priority work may be dropped for newer work, but the     *)
(* queue of it is never left standing.                                     *)
WorkServed ==
  /\ \A l \in Labels :
       l \in ToSet(fnWorkList) ~>
         (\E i \in DOMAIN stack : stack[i].job = l) \/ stack = <<>>
  /\ fnLowPriorityWorkList # <<>> ~>
       \/ \E i \in DOMAIN stack : stack[i].at = "lowWork" /\ stack[i].job # None
       \/ fnLowPriorityWorkList = <<>>
       \/ stack = <<>>

(* No timer starves another: one that stays due without firing is one that *)
(* clients keep setting again, or keep setting other timers to go before,  *)
(* at an earlier time ("we don't want one to starve out another", Evm.h).  *)
(* A wait that the bound on time cuts off says nothing.                    *)
TimerServed ==
  \A t \in Timers :
    <>[](Service!Due(t) /\ stack # <<>> /\ wakeAt <= MaxTime) =>
      []<><<\E u \in Timers : ClientTimers(u) /\ (u = t \/ dueAt'[u] < dueAt[t])>>_vars

(* Neither keeps the other from being served, however much of it comes:    *)
(* Evm serves both in turn, four items of work at most between two looks   *)
(* at the timers.                                                          *)
Served == WorkServed /\ TimerServed
=============================================================================
