------------------------------ MODULE EvmProofs ------------------------------
(***************************************************************************)
(* Proofs about Evm, for any interrupt handlers, tasks, timers, queue      *)
(* capacity and quota.  NoLostWakeup speaks of the loop when it is asleep; *)
(* it is inductive only together with what the loop has found on the way   *)
(* there: from the moment a queue was seen empty, whatever is put into it  *)
(* has given the semaphore or is about to.                                 *)
(***************************************************************************)
EXTENDS Evm, SequenceTheorems, FiniteSetTheorems, TLAPS

Places ==
  {"loop", "work", "lowWork", "timers", "check", "checkLow", "sleep", "take", "asleep"}

USE DEF sleepVars

(* Frames whose callbacks are of some kind or other.                       *)
FrameOf(jobs) ==
  [expectedStackDepth : Nat, at : Places, remainingEvents : Int, job : jobs]

FramesOK ==
  /\ \E jobs : stack \in Seq(FrameOf(jobs))
  /\ mainLoopStackDepth \in Nat
  /\ sem \in Nat
  /\ call \in [Threads -> {"idle", "put", "drop", "lowPut", "give"}]

(* Only the innermost MainLoop() is not in a callback, and callbacks are   *)
(* called from the three services only.                                    *)
CallbacksBelow ==
  \A i \in 1 .. Len(stack) :
    /\ i > 1 => stack[i].job # None
    /\ stack[i].job # None => stack[i].at \in {"work", "lowWork", "check"}

(* Nothing is in the list, or the semaphore has been given or will be.     *)
Covered(list) ==
  list = <<>> \/ sem > 0 \/ \E c \in Threads : call[c] = "give"

SeenEmpty ==
  stack # <<>> =>
    /\ Top.at \in {"checkLow", "sleep", "take", "asleep"} => Covered(fnWorkList)
    /\ Top.at \in {"sleep", "take", "asleep"} => Covered(fnLowPriorityWorkList)
    /\ Top.at \in {"take", "asleep"} => mainLoopStackDepth = Top.expectedStackDepth

(* The inductive invariant.                                                *)
WakeupInv == FramesOK /\ CallbacksBelow /\ SeenEmpty

(* What SetTop leaves of the stack.                                        *)
LEMMA TopReplaced ==
  ASSUME NEW F, NEW s \in Seq(F), s # <<>>, NEW f \in F
  PROVE  /\ <<f>> \o Tail(s) \in Seq(F)
         /\ <<f>> \o Tail(s) # <<>>
         /\ Head(<<f>> \o Tail(s)) = f
         /\ Len(<<f>> \o Tail(s)) = Len(s)
         /\ (<<f>> \o Tail(s))[1] = f
         /\ \A i \in 2 .. Len(s) : (<<f>> \o Tail(s))[i] = s[i]
<1>1. /\ Tail(s) \in Seq(F) /\ Len(Tail(s)) = Len(s) - 1 /\ Len(s) \in Nat /\ Len(s) >= 1
      /\ \A i \in 1 .. Len(s) - 1 : Tail(s)[i] = s[i + 1]
  BY HeadTailProperties, EmptySeq, LenProperties
<1>2. <<f>> \in Seq(F) /\ Len(<<f>>) = 1 /\ <<f>>[1] = f
  OBVIOUS
<1> DEFINE r == <<f>> \o Tail(s)
<1>3. /\ r \in Seq(F)
      /\ Len(r) = Len(<<f>>) + Len(Tail(s))
      /\ \A i \in 1 .. Len(<<f>>) + Len(Tail(s)) :
           r[i] = IF i <= Len(<<f>>) THEN <<f>>[i] ELSE Tail(s)[i - Len(<<f>>)]
  BY <1>1, <1>2, ConcatProperties
<1> HIDE DEF r
<1>4. Len(r) = Len(s) /\ r[1] = f
  BY <1>1, <1>2, <1>3
<1>5. \A i \in 2 .. Len(s) : r[i] = s[i]
  BY <1>1, <1>2, <1>3
<1>6. r # <<>> /\ Head(r) = f
  BY <1>1, <1>3, <1>4, HeadTailProperties, EmptySeq
<1> QED
  BY <1>3, <1>4, <1>5, <1>6 DEF r

(* A stack with one more frame on it.                                      *)
LEMMA Pushed ==
  ASSUME NEW F, NEW s \in Seq(F), NEW f \in F
  PROVE  /\ <<f>> \o s \in Seq(F)
         /\ <<f>> \o s # <<>>
         /\ Head(<<f>> \o s) = f
         /\ Len(<<f>> \o s) = Len(s) + 1
         /\ (<<f>> \o s)[1] = f
         /\ \A i \in 2 .. Len(s) + 1 : (<<f>> \o s)[i] = s[i - 1]
<1>1. Len(s) \in Nat
  BY LenProperties
<1>2. <<f>> \in Seq(F) /\ Len(<<f>>) = 1 /\ <<f>>[1] = f
  OBVIOUS
<1> DEFINE r == <<f>> \o s
<1>3. /\ r \in Seq(F)
      /\ Len(r) = Len(<<f>>) + Len(s)
      /\ \A i \in 1 .. Len(<<f>>) + Len(s) :
           r[i] = IF i <= Len(<<f>>) THEN <<f>>[i] ELSE s[i - Len(<<f>>)]
  BY <1>2, ConcatProperties
<1> HIDE DEF r
<1>4. Len(r) = Len(s) + 1 /\ r[1] = f
  BY <1>1, <1>2, <1>3
<1>5. \A i \in 2 .. Len(s) + 1 : r[i] = s[i - 1]
  BY <1>1, <1>2, <1>3
<1>6. r # <<>> /\ Head(r) = f
  BY <1>1, <1>3, <1>4, HeadTailProperties, EmptySeq
<1> QED
  BY <1>3, <1>4, <1>5, <1>6 DEF r

(* What LoopCondition leaves of the stack when a MainLoop() returns.       *)
LEMMA Popped ==
  ASSUME NEW F, NEW s \in Seq(F), s # <<>>
  PROVE  /\ Tail(s) \in Seq(F)
         /\ Len(Tail(s)) = Len(s) - 1
         /\ Head(s) = s[1] /\ Head(s) \in F
         /\ Len(s) \in Nat \ {0}
         /\ \A i \in 1 .. Len(s) - 1 : Tail(s)[i] = s[i + 1]
         /\ Tail(s) # <<>> => Head(Tail(s)) = s[2] /\ Len(s) >= 2
<1>1. /\ Tail(s) \in Seq(F) /\ Len(Tail(s)) = Len(s) - 1 /\ Len(s) \in Nat /\ Len(s) >= 1
      /\ Head(s) = s[1] /\ Head(s) \in F
      /\ \A i \in 1 .. Len(s) - 1 : Tail(s)[i] = s[i + 1]
  BY HeadTailProperties, EmptySeq, LenProperties
<1>2. ASSUME Tail(s) # <<>> PROVE Head(Tail(s)) = s[2] /\ Len(s) >= 2
  <2>1. Len(Tail(s)) >= 1 /\ Head(Tail(s)) = Tail(s)[1]
    BY <1>1, <1>2, HeadTailProperties, EmptySeq, LenProperties
  <2> QED
    BY <1>1, <2>1
<1> QED
  BY <1>1, <1>2

(* A step that replaces the innermost frame by a good one.                 *)
LEMMA TopSet ==
  ASSUME WakeupInv, stack # <<>>, NEW J, NEW f \in FrameOf(J), SetTop(f),
         f.job # None => f.at \in {"work", "lowWork", "check"},
         UNCHANGED <<mainLoopStackDepth, call>>, sem' \in Nat
  PROVE  FramesOK' /\ CallbacksBelow' /\ stack' # <<>> /\ Top' = f
<1>1. PICK jobs : stack \in Seq(FrameOf(jobs))
  BY DEF WakeupInv, FramesOK
<1> DEFINE G == FrameOf(jobs \cup J)
<1>2. stack \in Seq(G)
  <2>1. FrameOf(jobs) \subseteq G
    BY DEF FrameOf
  <2> HIDE DEF G
  <2> QED
    BY <1>1, <2>1, SeqMonotonic
<1>3. f \in G
  BY DEF FrameOf
<1>4. stack' = <<f>> \o Tail(stack)
  BY DEF SetTop
<1> HIDE DEF G
<1>5. /\ stack' \in Seq(G) /\ stack' # <<>> /\ Head(stack') = f
      /\ Len(stack') = Len(stack) /\ stack'[1] = f
      /\ \A i \in 2 .. Len(stack) : stack'[i] = stack[i]
  BY <1>2, <1>3, <1>4, TopReplaced
<1>6. FramesOK'
  BY <1>5 DEF FramesOK, WakeupInv, G
<1>7. CallbacksBelow'
  <2>1. Len(stack) \in Nat
    BY <1>2, LenProperties
  <2>2. ASSUME NEW i \in 1 .. Len(stack')
        PROVE  /\ i > 1 => stack'[i].job # None
               /\ stack'[i].job # None => stack'[i].at \in {"work", "lowWork", "check"}
    <3>1. CASE i = 1
      BY <1>5, <3>1
    <3>2. CASE i # 1
      <4>1. i \in 2 .. Len(stack) /\ i \in 1 .. Len(stack)
        BY <1>5, <2>1, <3>2
      <4> QED
        BY <1>5, <4>1 DEF WakeupInv, CallbacksBelow
    <3> QED
      BY <3>1, <3>2
  <2> QED
    BY <2>2 DEF CallbacksBelow
<1> QED
  BY <1>5, <1>6, <1>7 DEF Top

(* The innermost frame of a stack that is not empty.                       *)
LEMMA TopFrame ==
  ASSUME WakeupInv, stack # <<>>
  PROVE  \E jobs :
           /\ Top \in FrameOf(jobs)
           /\ stack \in Seq(FrameOf(jobs))
           /\ Len(stack) \in Nat \ {0}
           /\ Top = stack[1]
           /\ Top.job # None => Top.at \in {"work", "lowWork", "check"}
<1>1. PICK jobs : stack \in Seq(FrameOf(jobs))
  BY DEF WakeupInv, FramesOK
<1>2. Head(stack) = stack[1] /\ Head(stack) \in FrameOf(jobs) /\ Len(stack) \in Nat \ {0}
  BY <1>1, Popped
<1>3. 1 \in 1 .. Len(stack)
  BY <1>2
<1> QED
  BY <1>1, <1>2, <1>3 DEF WakeupInv, CallbacksBelow, Top

(* A step that takes the loop to another place, where SeenEmpty claims no  *)
(* more than holds there.                                                  *)
LEMMA Moved ==
  ASSUME WakeupInv, stack # <<>>, Top.job = None, NEW place \in Places, GoTo(place),
         UNCHANGED <<mainLoopStackDepth, call, fnWorkList, fnLowPriorityWorkList>>,
         sem' \in Nat,
         MAX_EVENTS_HANDLED \in Nat,
         place \in {"checkLow", "sleep", "take", "asleep"} => Covered(fnWorkList) /\ sem' = sem,
         place \in {"sleep", "take", "asleep"} => Covered(fnLowPriorityWorkList),
         place \in {"take", "asleep"} => mainLoopStackDepth = Top.expectedStackDepth
  PROVE  WakeupInv'
<1>1. PICK jobs : Top \in FrameOf(jobs)
  BY TopFrame
<1> DEFINE f == [Top EXCEPT !.at = place, !.remainingEvents = MAX_EVENTS_HANDLED]
<1>2. /\ f \in FrameOf(jobs) /\ f.job = None /\ f.at = place
      /\ f.expectedStackDepth = Top.expectedStackDepth
  <2>1. MAX_EVENTS_HANDLED \in Int
    OBVIOUS
  <2> QED
    BY <1>1, <2>1 DEF FrameOf
<1>3. SetTop(f)
  BY DEF GoTo
<1> HIDE DEF f
<1>4. FramesOK' /\ CallbacksBelow' /\ stack' # <<>> /\ Top' = f
  BY <1>2, <1>3, TopSet
<1>5. Covered(fnWorkList) /\ sem' = sem => Covered(fnWorkList)'
  BY DEF Covered
<1>6. Covered(fnLowPriorityWorkList) /\ sem' = sem => Covered(fnLowPriorityWorkList)'
  BY DEF Covered
<1>7. SeenEmpty'
  BY <1>2, <1>4, <1>5, <1>6 DEF SeenEmpty
<1> QED
  BY <1>4, <1>7 DEF WakeupInv

(* A step that leaves the innermost frame at a service: with a callback to *)
(* wait for, or back from one.                                             *)
LEMMA Called ==
  ASSUME WakeupInv, stack # <<>>, NEW J, NEW f \in FrameOf(J),
         f.at \in {"work", "lowWork", "check"},
         SetTop(f), UNCHANGED <<mainLoopStackDepth, call, sem>>
  PROVE  WakeupInv'
<1>1. sem' \in Nat
  BY DEF WakeupInv, FramesOK
<1>2. FramesOK' /\ CallbacksBelow' /\ stack' # <<>> /\ Top' = f
  BY <1>1, TopSet
<1>3. SeenEmpty'
  BY <1>2 DEF SeenEmpty
<1> QED
  BY <1>2, <1>3 DEF WakeupInv

(* While client code runs, SeenEmpty claims nothing: whatever it does to   *)
(* the queues, the semaphore and the depth is seen by the loop again.      *)
LEMMA ClientKeeps ==
  ASSUME WakeupInv, ClientRuns, UNCHANGED stack,
         mainLoopStackDepth' \in Nat, sem' \in Nat,
         call' \in [Threads -> {"idle", "put", "drop", "lowPut", "give"}]
  PROVE  WakeupInv'
<1>1. FramesOK' /\ CallbacksBelow'
  BY DEF WakeupInv, FramesOK, CallbacksBelow
<1>2. SeenEmpty'
  <2>1. CASE stack = <<>>
    BY <2>1 DEF SeenEmpty
  <2>2. CASE stack # <<>>
    <3>1. Top.at \in {"work", "lowWork", "check"}
      BY <2>2, TopFrame DEF ClientRuns
    <3>2. Top' = Top
      BY DEF Top
    <3> QED
      BY <3>1, <3>2 DEF SeenEmpty
  <2> QED
    BY <2>1, <2>2
<1> QED
  BY <1>1, <1>2 DEF WakeupInv

(* A step of another thread or of an interrupt handler, which leaves the   *)
(* queues covered if they were.                                            *)
LEMMA OthersKeep ==
  ASSUME WakeupInv, UNCHANGED <<stack, mainLoopStackDepth>>, sem' \in Nat,
         call' \in [Threads -> {"idle", "put", "drop", "lowPut", "give"}],
         Covered(fnWorkList) => Covered(fnWorkList)',
         Covered(fnLowPriorityWorkList) => Covered(fnLowPriorityWorkList)'
  PROVE  WakeupInv'
<1>1. FramesOK' /\ CallbacksBelow'
  BY DEF WakeupInv, FramesOK, CallbacksBelow
<1>2. Top' = Top
  BY DEF Top
<1>3. SeenEmpty'
  BY <1>2 DEF SeenEmpty, WakeupInv
<1> QED
  BY <1>1, <1>3 DEF WakeupInv

(* Entering MainLoop(), from client code.                                  *)
LEMMA MainLoopKeeps ==
  ASSUME WakeupInv, MainLoop, MAX_EVENTS_HANDLED \in Nat
  PROVE  WakeupInv'
<1>1. PICK jobs : stack \in Seq(FrameOf(jobs))
  BY DEF WakeupInv, FramesOK
<1> DEFINE G == FrameOf(jobs \cup {None})
           f == [expectedStackDepth |-> mainLoopStackDepth', at |-> "loop",
                 remainingEvents |-> MAX_EVENTS_HANDLED, job |-> None]
<1>2. stack \in Seq(G)
  <2>1. FrameOf(jobs) \subseteq G
    BY DEF FrameOf
  <2> HIDE DEF G
  <2> QED
    BY <1>1, <2>1, SeqMonotonic
<1>3. mainLoopStackDepth' \in Nat /\ stack' = <<f>> \o stack
  BY DEF MainLoop, WakeupInv, FramesOK
<1>4. f \in G
  BY <1>3 DEF FrameOf, Places
<1>5. f.job = None /\ f.at = "loop"
  OBVIOUS
<1> HIDE DEF G, f
<1>6. /\ stack' \in Seq(G) /\ stack' # <<>> /\ Head(stack') = f
      /\ Len(stack') = Len(stack) + 1 /\ stack'[1] = f
      /\ \A i \in 2 .. Len(stack) + 1 : stack'[i] = stack[i - 1]
  BY <1>2, <1>3, <1>4, Pushed
<1>7. FramesOK'
  BY <1>3, <1>6 DEF FramesOK, WakeupInv, G, MainLoop, queueVars
<1>8. CallbacksBelow'
  <2>1. Len(stack) \in Nat
    BY <1>2, LenProperties
  <2>2. ASSUME NEW i \in 1 .. Len(stack')
        PROVE  /\ i > 1 => stack'[i].job # None
               /\ stack'[i].job # None => stack'[i].at \in {"work", "lowWork", "check"}
    <3>1. CASE i = 1
      BY <1>5, <1>6, <3>1
    <3>2. CASE i = 2
      <4>1. stack # <<>> /\ stack'[i] = stack[1]
        BY <1>6, <2>1, <2>2, <3>2
      <4>2. Top = stack[1] /\ Top.job # None
        BY <4>1, TopFrame DEF MainLoop, ClientRuns
      <4> QED
        BY <3>2, <4>1, <4>2, TopFrame
    <3>3. CASE i > 2
      <4>1. i - 1 \in 1 .. Len(stack) /\ i - 1 > 1 /\ stack'[i] = stack[i - 1]
        BY <1>6, <2>1, <2>2, <3>3
      <4> QED
        BY <4>1 DEF WakeupInv, CallbacksBelow
    <3> QED
      BY <2>1, <1>6, <3>1, <3>2, <3>3
  <2> QED
    BY <2>2 DEF CallbacksBelow
<1>9. SeenEmpty'
  BY <1>5, <1>6 DEF SeenEmpty, Top
<1> QED
  BY <1>7, <1>8, <1>9 DEF WakeupInv

(* The loop condition: on to the services, or back to the caller, which is *)
(* a callback again.                                                       *)
LEMMA LoopConditionKeeps ==
  ASSUME WakeupInv, LoopCondition, MAX_EVENTS_HANDLED \in Nat
  PROVE  WakeupInv'
<1>0. stack # <<>> /\ Top.job = None /\ sem' \in Nat
  BY DEF LoopCondition, At, WakeupInv, FramesOK, queueVars
<1>1. CASE mainLoopStackDepth = Top.expectedStackDepth
  <2>1. GoTo("work") /\ "work" \in Places
    BY <1>1 DEF LoopCondition, Places
  <2> QED
    BY <1>0, <2>1, Moved DEF LoopCondition, queueVars
<1>2. CASE mainLoopStackDepth # Top.expectedStackDepth
  <2>1. PICK jobs : stack \in Seq(FrameOf(jobs))
    BY DEF WakeupInv, FramesOK
  <2>2. stack' = Tail(stack)
    BY <1>2 DEF LoopCondition
  <2>3. /\ stack' \in Seq(FrameOf(jobs)) /\ Len(stack) \in Nat \ {0}
        /\ Len(stack') = Len(stack) - 1
        /\ \A i \in 1 .. Len(stack) - 1 : stack'[i] = stack[i + 1]
        /\ stack' # <<>> => Head(stack') = stack[2] /\ Len(stack) >= 2
    <3> DEFINE F == FrameOf(jobs)
    <3>1. stack \in Seq(F)
      BY <2>1
    <3> HIDE DEF F
    <3>2. /\ Tail(stack) \in Seq(F) /\ Len(stack) \in Nat \ {0}
          /\ Len(Tail(stack)) = Len(stack) - 1
          /\ \A i \in 1 .. Len(stack) - 1 : Tail(stack)[i] = stack[i + 1]
          /\ Tail(stack) # <<>> => Head(Tail(stack)) = stack[2] /\ Len(stack) >= 2
      BY <1>0, <3>1, Popped
    <3> QED
      BY <2>2, <3>2 DEF F
  <2>4. FramesOK'
    BY <2>3 DEF FramesOK, WakeupInv, LoopCondition, queueVars
  <2>5. CallbacksBelow'
    <3>1. ASSUME NEW i \in 1 .. Len(stack')
          PROVE  stack'[i].job # None /\ stack'[i].at \in {"work", "lowWork", "check"}
      <4>1. i + 1 \in 1 .. Len(stack) /\ i + 1 > 1 /\ stack'[i] = stack[i + 1]
        BY <2>3, <3>1
      <4> QED
        BY <4>1 DEF WakeupInv, CallbacksBelow
    <3> QED
      BY <3>1 DEF CallbacksBelow
  <2>6. SeenEmpty'
    <3>1. ASSUME stack' # <<>> PROVE Top'.at \in {"work", "lowWork", "check"}
      <4>1. Top' = stack[2] /\ 2 \in 1 .. Len(stack)
        BY <2>3, <3>1 DEF Top
      <4> QED
        BY <4>1 DEF WakeupInv, CallbacksBelow
    <3> QED
      BY <3>1 DEF SeenEmpty
  <2> QED
    BY <2>4, <2>5, <2>6 DEF WakeupInv
<1> QED
  BY <1>1, <1>2

(* The three services: the loop calls back or goes on.                     *)
LEMMA ServicesKeep ==
  ASSUME WakeupInv, MAX_EVENTS_HANDLED \in Nat,
         ServiceWork \/ ServiceLowPriorityWork \/ ServiceTimers
  PROVE  WakeupInv'
<1>1. stack # <<>> /\ Top.job = None /\ Top.at \in {"work", "lowWork", "timers"}
  BY DEF ServiceWork, ServiceLowPriorityWork, ServiceTimers, At
<1>2. UNCHANGED <<mainLoopStackDepth, call, sem>> /\ sem' \in Nat
  BY DEF ServiceWork, ServiceLowPriorityWork, ServiceTimers, queueVars, WakeupInv, FramesOK
<1>3. PICK jobs : Top \in FrameOf(jobs)
  BY <1>1, TopFrame
<1>4. ASSUME NEW job, Top.at \in {"work", "lowWork"}, Call(job) PROVE WakeupInv'
  <2> DEFINE f == [Top EXCEPT !.remainingEvents = @ - 1, !.job = job]
  <2>1. f \in FrameOf({job}) /\ f.at = Top.at
    <3>1. PICK left \in Int : left = Top.remainingEvents - 1
      BY <1>3 DEF FrameOf
    <3>2. f = [Top EXCEPT !.remainingEvents = left, !.job = job]
      BY <3>1
    <3> QED
      BY <1>3, <3>2 DEF FrameOf
  <2>2. SetTop(f)
    BY <1>4 DEF Call
  <2> HIDE DEF f
  <2> QED
    BY <1>1, <1>2, <1>4, <2>1, <2>2, Called
<1>5. CASE ServiceWork
  <2>1. CASE Call(Head(fnWorkList))
    BY <1>4, <1>5, <2>1 DEF ServiceWork, At
  <2>2. CASE GoTo("lowWork") /\ UNCHANGED fnWorkList
    BY <1>1, <1>2, <1>5, <2>2, Moved DEF ServiceWork, Places
  <2> QED
    BY <1>5, <2>1, <2>2 DEF ServiceWork
<1>6. CASE ServiceLowPriorityWork
  <2>1. CASE Call(Head(fnLowPriorityWorkList))
    BY <1>4, <1>6, <2>1 DEF ServiceLowPriorityWork, At
  <2>2. CASE GoTo("timers") /\ UNCHANGED fnLowPriorityWorkList
    BY <1>1, <1>2, <1>6, <2>2, Moved DEF ServiceLowPriorityWork, Places
  <2> QED
    BY <1>6, <2>1, <2>2 DEF ServiceLowPriorityWork
<1>7. CASE ServiceTimers
  <2>1. CASE SetTop([Top EXCEPT !.at = "check", !.job = Head(pending)])
    <3> DEFINE f == [Top EXCEPT !.at = "check", !.job = Head(pending)]
    <3>1. f \in FrameOf({Head(pending)}) /\ f.at = "check"
      BY <1>3 DEF FrameOf, Places
    <3>2. SetTop(f)
      BY <2>1
    <3> HIDE DEF f
    <3> QED
      BY <1>1, <1>2, <3>1, <3>2, Called
  <2>2. CASE GoTo("check")
    BY <1>1, <1>2, <1>7, <2>2, Moved DEF ServiceTimers, Places, queueVars
  <2> QED
    BY <1>7, <2>1, <2>2 DEF ServiceTimers
<1> QED
  BY <1>5, <1>6, <1>7

(* A callback returns to the service that called it.                       *)
LEMMA CallbackReturnsKeeps ==
  ASSUME WakeupInv, CallbackReturns
  PROVE  WakeupInv'
<1> DEFINE f == [Top EXCEPT !.job = None]
<1>1. stack # <<>> /\ Top.job # None /\ SetTop(f)
  BY DEF CallbackReturns
<1>2. Top.at \in {"work", "lowWork", "check"}
  BY <1>1, TopFrame
<1>3. PICK jobs : Top \in FrameOf(jobs)
  BY <1>1, TopFrame
<1>4. f \in FrameOf({None}) /\ f.at = Top.at
  BY <1>3 DEF FrameOf
<1> HIDE DEF f
<1> QED
  BY <1>1, <1>2, <1>4, Called DEF CallbackReturns, queueVars

(* Deciding to sleep, sleeping and waking up: a queue is passed by only    *)
(* when it is empty, and the semaphore is taken only on the way back to    *)
(* the services.                                                           *)
LEMMA SleepingKeeps ==
  ASSUME WakeupInv, MAX_EVENTS_HANDLED \in Nat,
         CheckWork \/ CheckLowPriorityWork \/ ComputeTimeToSleep \/ Take \/ Wake
  PROVE  WakeupInv'
<1>1. stack # <<>> /\ Top.job = None
  BY DEF CheckWork, CheckLowPriorityWork, ComputeTimeToSleep, Take, Wake, Asleep, At
<1>2. UNCHANGED <<mainLoopStackDepth, call, fnWorkList, fnLowPriorityWorkList>>
  BY DEF CheckWork, CheckLowPriorityWork, ComputeTimeToSleep, Take, Wake, queueVars
<1>3. sem \in Nat
  BY DEF WakeupInv, FramesOK
<1>4. CASE CheckWork
  <2>1. CASE fnWorkList = <<>>
    <3>1. GoTo("checkLow") /\ "checkLow" \in Places /\ sem' = sem
      BY <1>4, <2>1 DEF CheckWork, Places, queueVars
    <3>2. Covered(fnWorkList)
      BY <2>1 DEF Covered
    <3> QED
      BY <1>1, <1>2, <1>3, <3>1, <3>2, Moved
  <2>2. CASE fnWorkList # <<>>
    <3>1. GoTo("loop") /\ "loop" \in Places /\ sem' = sem
      BY <1>4, <2>2 DEF CheckWork, Places, queueVars
    <3> QED
      BY <1>1, <1>2, <1>3, <3>1, Moved
  <2> QED
    BY <2>1, <2>2
<1>5. CASE CheckLowPriorityWork
  <2>1. CASE fnLowPriorityWorkList = <<>>
    <3>1. GoTo("sleep") /\ "sleep" \in Places /\ sem' = sem
      BY <1>5, <2>1 DEF CheckLowPriorityWork, Places, queueVars
    <3>2. Covered(fnLowPriorityWorkList) /\ Covered(fnWorkList)
      BY <1>1, <1>5, <2>1 DEF Covered, WakeupInv, SeenEmpty, CheckLowPriorityWork, At
    <3> QED
      BY <1>1, <1>2, <1>3, <3>1, <3>2, Moved
  <2>2. CASE fnLowPriorityWorkList # <<>>
    <3>1. GoTo("loop") /\ "loop" \in Places /\ sem' = sem
      BY <1>5, <2>2 DEF CheckLowPriorityWork, Places, queueVars
    <3> QED
      BY <1>1, <1>2, <1>3, <3>1, Moved
  <2> QED
    BY <2>1, <2>2
<1>6. CASE ComputeTimeToSleep
  <2>1. sem' = sem /\ Covered(fnLowPriorityWorkList) /\ Covered(fnWorkList)
    BY <1>1, <1>6 DEF WakeupInv, SeenEmpty, ComputeTimeToSleep, At, queueVars
  <2>2. CASE timeToSleep' = 0
    <3>1. GoTo("loop") /\ "loop" \in Places
      BY <1>6, <2>2 DEF ComputeTimeToSleep, Places
    <3> QED
      BY <1>1, <1>2, <1>3, <2>1, <3>1, Moved
  <2>3. CASE timeToSleep' # 0
    <3>1. GoTo("take") /\ "take" \in Places
      BY <1>6, <2>3 DEF ComputeTimeToSleep, Places
    <3>2. mainLoopStackDepth = Top.expectedStackDepth
      BY <1>6, <2>3 DEF ComputeTimeToSleep, GetDurationUsToNextTimerTimeout
    <3> QED
      BY <1>1, <1>2, <1>3, <2>1, <3>1, <3>2, Moved
  <2> QED
    BY <2>2, <2>3
<1>8. CASE Take
  <2> DEFINE ticks == KTime(timeToSleep)
  <2>1. CASE sem > 0 \/ ticks = 0
    <3>1. GoTo("loop") /\ "loop" \in Places
      BY <1>8, <2>1 DEF Take, GoesOn, Places
    <3>2. sem' = IF sem > 0 THEN sem - 1 ELSE sem
      BY <1>8, <2>1 DEF Take
    <3>3. sem' \in Nat
      BY <1>3, <3>2
    <3> QED
      BY <1>1, <1>2, <3>1, <3>3, Moved
  <2>2. CASE ~(sem > 0 \/ ticks = 0)
    <3>1. GoTo("asleep") /\ "asleep" \in Places /\ sem' = sem
      BY <1>8, <2>2 DEF Take, Places
    <3>2. /\ Covered(fnLowPriorityWorkList) /\ Covered(fnWorkList)
          /\ mainLoopStackDepth = Top.expectedStackDepth
      BY <1>1, <1>8 DEF WakeupInv, SeenEmpty, Take, At
    <3> QED
      BY <1>1, <1>2, <1>3, <3>1, <3>2, Moved
  <2> QED
    BY <2>1, <2>2
<1>7. CASE Wake
  <2>1. GoTo("loop") /\ "loop" \in Places /\ sem' \in Nat
    BY <1>3, <1>7 DEF Wake, GoesOn, Places
  <2> QED
    BY <1>1, <1>2, <2>1, Moved
<1> QED
  BY <1>4, <1>5, <1>6, <1>7, <1>8

(* The threads and interrupt handlers that queue work: a list is covered   *)
(* from the moment something is put into it.                               *)
LEMMA QueueingKeeps ==
  ASSUME WakeupInv, CountLimit \in Nat \ {0},
         \/ \E c \in Threads : QueueWork(c) \/ QueueLowPriorityWork(c) \/ CallStep(c)
         \/ \E i \in Isrs : IsrQueueWork(i) \/ IsrQueueLowPriorityWork(i)
  PROVE  WakeupInv'
<1>1. /\ sem \in Nat
      /\ call \in [Threads -> {"idle", "put", "drop", "lowPut", "give"}]
  BY DEF WakeupInv, FramesOK
<1>2. Give(sem) \in Nat /\ Give(sem) > 0
  BY <1>1 DEF Give
<1>3. ASSUME NEW c \in Threads, NEW from, NEW to \in {"put", "drop", "lowPut", "give", "idle"},
             Step(c, from, to)
      PROVE  /\ UNCHANGED <<stack, mainLoopStackDepth>>
             /\ call[c] = from /\ call' = [call EXCEPT ![c] = to] /\ call'[c] = to
             /\ call' \in [Threads -> {"idle", "put", "drop", "lowPut", "give"}]
             /\ from # "give" => \A d \in Threads : call[d] = "give" => call'[d] = "give"
  BY <1>1, <1>3 DEF Step, loopVars
<1>4. ASSUME NEW c \in Threads, QueueWork(c) PROVE WakeupInv'
  <2>1. Step(c, "idle", "put") /\ UNCHANGED <<fnWorkList, fnLowPriorityWorkList, sem>>
    BY <1>4 DEF QueueWork
  <2> QED
    BY <1>1, <1>3, <2>1, OthersKeep DEF Covered
<1>5. ASSUME NEW c \in Threads, QueueLowPriorityWork(c) PROVE WakeupInv'
  <2>1. PICK to \in {"drop", "lowPut"} : Step(c, "idle", to)
    BY <1>5 DEF QueueLowPriorityWork
  <2>2. UNCHANGED <<fnWorkList, fnLowPriorityWorkList, sem>>
    BY <1>5 DEF QueueLowPriorityWork
  <2> QED
    BY <1>1, <1>3, <2>1, <2>2, OthersKeep DEF Covered
<1>6. ASSUME NEW c \in Threads, PutWork(c) \/ PutLowPriorityWork(c) PROVE WakeupInv'
  <2>1. PICK from \in {"put", "lowPut"} : Step(c, from, "give")
    BY <1>6 DEF PutWork, PutLowPriorityWork
  <2>2. sem' = sem
    BY <1>6 DEF PutWork, PutLowPriorityWork
  <2>3. Covered(fnWorkList)' /\ Covered(fnLowPriorityWorkList)'
    BY <1>3, <2>1 DEF Covered
  <2> QED
    BY <1>1, <1>3, <2>1, <2>2, <2>3, OthersKeep
<1>7. ASSUME NEW c \in Threads, DropOldest(c) PROVE WakeupInv'
  <2>1. Step(c, "drop", "lowPut") /\ UNCHANGED <<fnWorkList, sem>>
    BY <1>7 DEF DropOldest
  <2>2. fnLowPriorityWorkList = <<>> => fnLowPriorityWorkList' = <<>>
    BY <1>7 DEF DropOldest
  <2> QED
    BY <1>1, <1>3, <2>1, <2>2, OthersKeep DEF Covered
<1>8. ASSUME NEW c \in Threads, GiveSem(c) PROVE WakeupInv'
  <2>1. Step(c, "give", "idle") /\ sem' = Give(sem)
    BY <1>8 DEF GiveSem
  <2>2. Covered(fnWorkList)' /\ Covered(fnLowPriorityWorkList)'
    BY <1>2, <2>1 DEF Covered
  <2> QED
    BY <1>2, <1>3, <2>1, <2>2, OthersKeep
<1>9. ASSUME NEW i \in Isrs, IsrQueueWork(i) \/ IsrQueueLowPriorityWork(i) PROVE WakeupInv'
  <2>1. sem' = Give(sem) /\ UNCHANGED <<stack, mainLoopStackDepth, call>>
    BY <1>9 DEF IsrQueueWork, IsrQueueLowPriorityWork, loopVars
  <2>2. Covered(fnWorkList)' /\ Covered(fnLowPriorityWorkList)'
    BY <1>2, <2>1 DEF Covered
  <2> QED
    BY <1>1, <1>2, <2>1, <2>2, OthersKeep
<1> QED
  BY <1>4, <1>5, <1>6, <1>7, <1>8, <1>9 DEF CallStep

(* Evm preserves WakeupInv: it holds in every reachable state.             *)
THEOREM WakeupInvariant == Spec => []WakeupInv
<1>1. Init => WakeupInv
  <2> SUFFICES ASSUME Init PROVE WakeupInv
    OBVIOUS
  <2>1. stack = <<>> /\ mainLoopStackDepth = 0 /\ sem = 0 /\ call = [c \in Threads |-> "idle"]
    BY DEF Init
  <2>2. stack \in Seq(FrameOf({})) /\ Len(stack) = 0
    BY <2>1
  <2> QED
    BY <2>1, <2>2 DEF WakeupInv, FramesOK, CallbacksBelow, SeenEmpty
<1>2. WakeupInv /\ [Next]_vars => WakeupInv'
  <2> SUFFICES ASSUME WakeupInv, [Next]_vars PROVE WakeupInv'
    OBVIOUS
  <2>0. /\ MAX_EVENTS_HANDLED \in Nat /\ CountLimit \in Nat \ {0}
        /\ sem \in Nat /\ mainLoopStackDepth \in Nat
        /\ call \in [Threads -> {"idle", "put", "drop", "lowPut", "give"}]
    BY EvmAssumption DEF WakeupInv, FramesOK
  <2>1. CASE EvmStep
    BY <2>0, <2>1, LoopConditionKeeps, ServicesKeep, SleepingKeeps DEF EvmStep
  <2>2. CASE CallbackReturns
    BY <2>2, CallbackReturnsKeeps
  <2>3. CASE Client
    <3>1. CASE MainLoop
      BY <2>0, <3>1, MainLoopKeeps
    <3>2. CASE ExitMainLoop
      <4>1. mainLoopStackDepth' \in Nat
        BY <2>0, <3>2 DEF ExitMainLoop
      <4> QED
        BY <2>0, <3>2, <4>1, ClientKeeps DEF ExitMainLoop, queueVars
    <3>3. CASE \E t \in Timers : ClientTimers(t)
      BY <2>0, <3>3, ClientKeeps DEF ClientTimers, queueVars, loopVars
    <3>4. CASE \E label \in Labels : ClearLowPriorityWorkByLabel(label)
      BY <2>0, <3>4, ClientKeeps DEF ClearLowPriorityWorkByLabel, loopVars
    <3>5. CASE ScalingFactorChanges
      <4>1. sem' \in Nat
        BY <2>0, <3>5 DEF ScalingFactorChanges, Give
      <4> QED
        BY <2>0, <3>5, <4>1, ClientKeeps DEF ScalingFactorChanges, loopVars
    <3> QED
      BY <2>3, <3>1, <3>2, <3>3, <3>4, <3>5 DEF Client
  <2>4. CASE \/ \E c \in Threads : QueueWork(c) \/ QueueLowPriorityWork(c) \/ CallStep(c)
             \/ \E i \in Isrs : IsrQueueWork(i) \/ IsrQueueLowPriorityWork(i)
    BY <2>0, <2>4, QueueingKeeps
  <2>5. CASE Tick \/ UNCHANGED vars
    <3>1. UNCHANGED <<stack, mainLoopStackDepth, sem, call, fnWorkList, fnLowPriorityWorkList>>
      BY <2>5 DEF Tick, vars, queueVars, loopVars
    <3> QED
      BY <2>0, <3>1, OthersKeep DEF Covered
  <2> QED
    BY <2>1, <2>2, <2>3, <2>4, <2>5 DEF Next
<1> QED
  BY <1>1, <1>2, PTL DEF Spec

(* "make sure though that I don't wind up going to sleep when an ISR has   *)
(* fired but I haven't re-looked at it" (Evm.cpp).                         *)
THEOREM NoWakeupIsLost == Spec => []NoLostWakeup
<1>1. WakeupInv => NoLostWakeup
  BY DEF WakeupInv, SeenEmpty, Covered, NoLostWakeup, Asleep, At, FramesOK
<1> QED
  BY <1>1, WakeupInvariant, PTL

(* A loop that was told to exit does not sleep first.                      *)
THEOREM NoSleepOnceToldToExit == Spec => []NoSleepAfterExit
<1>1. WakeupInv => NoSleepAfterExit
  BY DEF WakeupInv, SeenEmpty, NoSleepAfterExit, Asleep, At
<1> QED
  BY <1>1, WakeupInvariant, PTL
-----------------------------------------------------------------------------
(* How long the loop sleeps.  Times, and the list of pending timers, are   *)
(* of their types; nothing touches the timers once the loop has computed   *)
(* how long it may sleep, so what was true then is true, but for the time  *)
(* that has passed, when it waits and for as long as it does.              *)

TimersTyped ==
  /\ now \in Nat
  /\ pending \in Seq(Timers)
  /\ dueAt \in [Timers -> Nat]
  /\ period \in [Timers -> Periods \cup {OneShot}]
  /\ running \in Seq(Timers)

(* A sleep that comes to an end does so by the time the next timer is due, *)
(* or is late by no more than passed before it.                            *)
EarlyIfAtAll ==
  Asleep /\ pending # <<>> /\ wakeAt # Never => wakeAt <= dueAt[Head(pending)] + passed

NotForEver ==
  Asleep /\ pending # <<>> /\ timeToSleep % (PortMaxDelay + 1) # PortMaxDelay => wakeAt # Never

(* What is left until the next timer is due.                               *)
LeftComputed ==
  At("take") /\ pending # <<>> => now + timeToSleep = dueAt[Head(pending)] + passed

SleepInv ==
  /\ TimersTyped /\ timeToSleep \in Nat /\ passed \in Nat
  /\ LeftComputed /\ EarlyIfAtAll /\ NotForEver

LEMMA WithoutTyped ==
  ASSUME NEW queue \in Seq(Timers), NEW t
  PROVE  Service!Without(queue, t) \in Seq(Timers)
<1>1. CASE \E i \in DOMAIN queue : queue[i] = t
  <2> DEFINE i == CHOOSE j \in DOMAIN queue : queue[j] = t
  <2>1. i \in 1 .. Len(queue) /\ Len(queue) \in Nat
    BY <1>1, LenProperties
  <2>2. \A j \in 1 .. Len(queue) : queue[j] \in Timers
    BY ElementOfSeq
  <2> HIDE DEF i
  <2>3. SubSeq(queue, 1, i - 1) \in Seq(Timers)
    <3>1. \A j \in 1 .. i - 1 : queue[j] \in Timers
      BY <2>1, <2>2
    <3> QED
      BY <2>1, <3>1, SubSeqProperties
  <2>4. SubSeq(queue, i + 1, Len(queue)) \in Seq(Timers)
    <3>1. \A j \in i + 1 .. Len(queue) : queue[j] \in Timers
      BY <2>1, <2>2
    <3> QED
      BY <2>1, <3>1, SubSeqProperties
  <2>5. SubSeq(queue, 1, i - 1) \o SubSeq(queue, i + 1, Len(queue)) \in Seq(Timers)
    BY <2>3, <2>4, ConcatProperties
  <2> QED
    BY <1>1, <2>5 DEF Service!Without, Service!RemoveAt, i
<1>2. CASE ~\E i \in DOMAIN queue : queue[i] = t
  BY <1>2 DEF Service!Without
<1> QED
  BY <1>1, <1>2

LEMMA EnqueueTyped ==
  ASSUME NEW queue \in Seq(Timers), NEW due, NEW t \in Timers
  PROVE  Service!Enqueue(queue, due, t) \in Seq(Timers)
<1> DEFINE ahead == {i \in DOMAIN queue : due[queue[i]] <= due[t]}
           g == Cardinality(ahead) + 1
<1>1. Len(queue) \in Nat /\ DOMAIN queue = 1 .. Len(queue)
  BY LenProperties
<1>2. g \in 1 .. Len(queue) + 1
  <2>1. IsFiniteSet(1 .. Len(queue)) /\ Cardinality(1 .. Len(queue)) = Len(queue)
    <3>1. /\ IsFiniteSet(1 .. Len(queue))
          /\ Cardinality(1 .. Len(queue)) = IF 1 > Len(queue) THEN 0 ELSE Len(queue) - 1 + 1
      BY <1>1, FS_Interval
    <3> QED
      BY <1>1, <3>1
  <2>2. ahead \subseteq 1 .. Len(queue)
    BY <1>1
  <2> HIDE DEF ahead
  <2>3. Cardinality(ahead) \in Nat /\ Cardinality(ahead) <= Len(queue)
    BY <2>1, <2>2, FS_Subset, FS_CardinalityType
  <2> QED
    BY <1>1, <2>3
<1>3. Service!Enqueue(queue, due, t)
        = SubSeq(queue, 1, g - 1) \o <<t>> \o SubSeq(queue, g, Len(queue))
  BY DEF Service!Enqueue, Service!InsertAt, Service!Cardinality, Cardinality
<1> HIDE DEF g
<1>4. \A j \in 1 .. Len(queue) : queue[j] \in Timers
  BY ElementOfSeq
<1>5. SubSeq(queue, 1, g - 1) \in Seq(Timers)
  <2>1. \A j \in 1 .. g - 1 : queue[j] \in Timers
    BY <1>1, <1>2, <1>4
  <2> QED
    BY <1>1, <1>2, <2>1, SubSeqProperties
<1>6. SubSeq(queue, g, Len(queue)) \in Seq(Timers)
  <2>1. \A j \in g .. Len(queue) : queue[j] \in Timers
    BY <1>1, <1>2, <1>4
  <2> QED
    BY <1>1, <1>2, <2>1, SubSeqProperties
<1>7. <<t>> \in Seq(Timers)
  OBVIOUS
<1>8. SubSeq(queue, 1, g - 1) \o <<t>> \in Seq(Timers)
  BY <1>5, <1>7, ConcatProperties
<1> QED
  BY <1>3, <1>6, <1>8, ConcatProperties

(* The four things that happen to timers keep their types.                 *)
LEMMA TimersTypedKept ==
  ASSUME TimersTyped,
         \/ \E t \in Timers, at \in DueTimes, p \in Periods \cup {OneShot} : Service!Arm(t, at, p)
         \/ \E t \in Timers : Service!Cancel(t)
         \/ Service!Fire
         \/ Service!Return
         \/ Service!Tick
         \/ UNCHANGED timerVars
  PROVE  TimersTyped'
<1>1. DueTimes \cup Periods \subseteq Nat
  BY EvmAssumption
<1>2. ASSUME NEW t \in Timers, NEW at \in DueTimes, NEW p \in Periods \cup {OneShot},
             Service!Arm(t, at, p)
      PROVE  TimersTyped'
  <2>1. pending' \in Seq(Timers)
    BY <1>2, WithoutTyped, EnqueueTyped DEF Service!Arm, TimersTyped
  <2> QED
    BY <1>1, <1>2, <2>1 DEF Service!Arm, TimersTyped
<1>3. ASSUME NEW t \in Timers, Service!Cancel(t) PROVE TimersTyped'
  <2>1. pending' \in Seq(Timers)
    BY <1>3, WithoutTyped DEF Service!Cancel, TimersTyped
  <2> QED
    BY <1>3, <2>1 DEF Service!Cancel, TimersTyped
<1>4. CASE Service!Fire
  <2>1. pending # <<>> /\ Head(pending) \in Timers /\ Tail(pending) \in Seq(Timers)
    BY <1>4, HeadTailProperties DEF Service!Fire, TimersTyped
  <2>2. <<Head(pending)>> \o running \in Seq(Timers)
    <3>1. <<Head(pending)>> \in Seq(Timers)
      BY <2>1
    <3> QED
      BY <3>1, ConcatProperties DEF TimersTyped
  <2> QED
    BY <1>4, <2>1, <2>2 DEF Service!Fire, TimersTyped
<1>5. CASE Service!Return
  <2> DEFINE t == Head(running)
  <2>1. t \in Timers /\ Tail(running) \in Seq(Timers)
    BY <1>5, HeadTailProperties DEF Service!Return, TimersTyped
  <2>2. CASE period[t] = OneShot \/ t \in Service!ToSet(pending)
    BY <1>5, <2>1, <2>2 DEF Service!Return, TimersTyped
  <2>3. CASE ~(period[t] = OneShot \/ t \in Service!ToSet(pending))
    <3>1. /\ dueAt' = [dueAt EXCEPT ![t] = @ + period[t]]
          /\ pending' = Service!Enqueue(pending, dueAt', t)
          /\ running' = Tail(running) /\ UNCHANGED <<now, period>>
      BY <1>5, <2>3 DEF Service!Return
    <3>2. period[t] \in Nat /\ dueAt[t] \in Nat
      BY <1>1, <2>1, <2>3 DEF TimersTyped
    <3>3. dueAt' \in [Timers -> Nat]
      <4>1. dueAt[t] + period[t] \in Nat
        BY <3>2
      <4> HIDE DEF t
      <4> QED
        BY <3>1, <4>1 DEF TimersTyped
    <3>4. pending' \in Seq(Timers)
      BY <2>1, <3>1, EnqueueTyped DEF TimersTyped
    <3> QED
      BY <2>1, <3>1, <3>3, <3>4 DEF TimersTyped
  <2> QED
    BY <2>2, <2>3
<1>6. CASE Service!Tick
  BY <1>6 DEF Service!Tick, TimersTyped
<1>7. CASE UNCHANGED timerVars
  BY <1>7 DEF timerVars, TimersTyped
<1> QED
  BY <1>2, <1>3, <1>4, <1>5, <1>6, <1>7

(* Timers are used through their service only.                             *)
LEMMA TimersTypedNext ==
  ASSUME TimersTyped, [Next]_vars
  PROVE  TimersTyped'
<1>1. \/ \E t \in Timers, at \in DueTimes, p \in Periods \cup {OneShot} : Service!Arm(t, at, p)
      \/ \E t \in Timers : Service!Cancel(t)
      \/ Service!Fire
      \/ Service!Return
      \/ Service!Tick
      \/ UNCHANGED timerVars
  <2>1. CASE EvmStep
    BY <2>1 DEF EvmStep, LoopCondition, ServiceWork, ServiceLowPriorityWork, ServiceTimers,
                CheckWork, CheckLowPriorityWork, ComputeTimeToSleep, Take, Wake
  <2>2. CASE CallbackReturns
    BY <2>2 DEF CallbackReturns
  <2>3. CASE Client
    BY <2>3 DEF Client, MainLoop, ExitMainLoop, ClientTimers, ClearLowPriorityWorkByLabel,
                ScalingFactorChanges
  <2>4. CASE \E c \in Threads : QueueWork(c) \/ QueueLowPriorityWork(c) \/ CallStep(c)
    BY <2>4 DEF QueueWork, QueueLowPriorityWork, CallStep, PutWork, DropOldest, PutLowPriorityWork,
                GiveSem, Step
  <2>5. CASE \E i \in Isrs : IsrQueueWork(i) \/ IsrQueueLowPriorityWork(i)
    BY <2>5 DEF IsrQueueWork, IsrQueueLowPriorityWork
  <2>6. CASE Tick \/ UNCHANGED vars
    BY <2>6 DEF Tick, vars
  <2> QED
    BY <2>1, <2>2, <2>3, <2>4, <2>5, <2>6 DEF Next
<1> QED
  BY <1>1, TimersTypedKept

(* What SetTop sets is the innermost frame.                                *)
LEMMA TopIsSet ==
  ASSUME WakeupInv, stack # <<>>, NEW f, SetTop(f)
  PROVE  Top' = f
<1>1. PICK jobs : stack \in Seq(FrameOf(jobs))
  BY DEF WakeupInv, FramesOK
<1> DEFINE G == FrameOf(jobs) \cup {f}
<1>2. stack \in Seq(G)
  BY <1>1, SeqMonotonic
<1>3. f \in G
  OBVIOUS
<1> HIDE DEF G
<1>4. Head(<<f>> \o Tail(stack)) = f
  BY <1>2, <1>3, TopReplaced
<1> QED
  BY <1>4 DEF Top, SetTop

LEMMA GoneTo ==
  ASSUME WakeupInv, stack # <<>>, NEW place, GoTo(place)
  PROVE  Top'.at = place
<1> DEFINE f == [Top EXCEPT !.at = place, !.remainingEvents = MAX_EVENTS_HANDLED]
<1>1. Top' = f
  BY TopIsSet DEF GoTo
<1>2. PICK jobs : Top \in FrameOf(jobs)
  BY TopFrame
<1> QED
  BY <1>1, <1>2 DEF FrameOf

(* The step that computes how long to sleep leads to taking the semaphore, *)
(* that to sleep, and every other step leaves a loop at such a place as it *)
(* was, but for the time, and leads none there.                            *)
LEMMA OnlyTheseWait ==
  ASSUME WakeupInv, [Next]_vars, NEW place \in {"take", "asleep"}, At(place)',
         ~(place = "take" /\ ComputeTimeToSleep), ~(place = "asleep" /\ Take)
  PROVE  /\ At(place) /\ UNCHANGED <<pending, dueAt, wakeAt, timeToSleep>>
         /\ (Tick \/ UNCHANGED <<now, passed>>)
<1>1. ASSUME NEW other, other # place, stack # <<>>, GoTo(other) PROVE FALSE
  BY <1>1, GoneTo DEF At
<1>2. ASSUME NEW job, stack # <<>>, Call(job), Top.at \in {"work", "lowWork"} PROVE FALSE
  <2> DEFINE f == [Top EXCEPT !.remainingEvents = @ - 1, !.job = job]
  <2>1. Top' = f
    BY <1>2, TopIsSet DEF Call
  <2>2. f.at = Top.at
    <3>1. PICK jobs : Top \in FrameOf(jobs)
      BY <1>2, TopFrame
    <3> QED
      BY <3>1 DEF FrameOf
  <2> QED
    BY <1>2, <2>1, <2>2 DEF At
<1>3. ~LoopCondition
  <2> SUFFICES ASSUME LoopCondition PROVE FALSE
    OBVIOUS
  <2>1. stack # <<>> /\ "work" # place
    BY DEF LoopCondition, At
  <2>2. stack' = Tail(stack)
    BY <1>1, <2>1 DEF LoopCondition
  <2>3. PICK jobs : stack \in Seq(FrameOf(jobs))
    BY DEF WakeupInv, FramesOK
  <2> DEFINE F == FrameOf(jobs)
  <2>4. stack \in Seq(F)
    BY <2>3
  <2> HIDE DEF F
  <2>5. Len(stack) \in Nat \ {0} /\ Tail(stack) # <<>> => Head(Tail(stack)) = stack[2] /\ Len(stack) >= 2
    BY <2>1, <2>4, Popped
  <2>6. Len(stack) \in Nat
    BY <2>4, LenProperties
  <2>7. Top' = stack[2] /\ 2 \in 1 .. Len(stack)
    BY <2>1, <2>2, <2>4, <2>5, <2>6, Popped DEF At, Top
  <2> QED
    BY <2>7 DEF WakeupInv, CallbacksBelow, At
<1>4. ~ServiceWork /\ ~ServiceLowPriorityWork
  BY <1>1, <1>2 DEF ServiceWork, ServiceLowPriorityWork, At
<1>5. ~ServiceTimers
  <2> SUFFICES ASSUME ServiceTimers PROVE FALSE
    OBVIOUS
  <2> DEFINE f == [Top EXCEPT !.at = "check", !.job = Head(pending)]
  <2>1. stack # <<>> /\ "check" # place
    BY DEF ServiceTimers, At
  <2>2. SetTop(f)
    BY <1>1, <2>1 DEF ServiceTimers
  <2>3. f.at = "check"
    <3>1. PICK jobs : Top \in FrameOf(jobs)
      BY <2>1, TopFrame
    <3> QED
      BY <3>1 DEF FrameOf
  <2> HIDE DEF f
  <2>4. Top' = f
    BY <2>1, <2>2, TopIsSet
  <2> QED
    BY <2>3, <2>4 DEF At
<1>6. ~CheckWork /\ ~CheckLowPriorityWork /\ ~Wake
  BY <1>1 DEF CheckWork, CheckLowPriorityWork, Wake, GoesOn, Asleep, At
<1>12. ~ComputeTimeToSleep /\ ~Take
  BY <1>1 DEF ComputeTimeToSleep, Take, GoesOn, At
<1>7. ~CallbackReturns
  <2> SUFFICES ASSUME CallbackReturns PROVE FALSE
    OBVIOUS
  <2> DEFINE f == [Top EXCEPT !.job = None]
  <2>1. stack # <<>> /\ Top.job # None /\ SetTop(f)
    BY DEF CallbackReturns
  <2>2. Top.at \in {"work", "lowWork", "check"}
    BY <2>1, TopFrame
  <2>3. f.at = Top.at
    <3>1. PICK jobs : Top \in FrameOf(jobs)
      BY <2>1, TopFrame
    <3> QED
      BY <3>1 DEF FrameOf
  <2> HIDE DEF f
  <2>4. Top' = f
    BY <2>1, TopIsSet
  <2> QED
    BY <2>2, <2>3, <2>4 DEF At
<1>8. ~MainLoop
  <2> SUFFICES ASSUME MainLoop PROVE FALSE
    OBVIOUS
  <2> DEFINE f == [expectedStackDepth |-> mainLoopStackDepth', at |-> "loop",
                   remainingEvents |-> MAX_EVENTS_HANDLED, job |-> None]
  <2>1. stack' = <<f>> \o stack
    BY DEF MainLoop
  <2>2. f.at = "loop"
    OBVIOUS
  <2>3. PICK jobs : stack \in Seq(FrameOf(jobs))
    BY DEF WakeupInv, FramesOK
  <2> HIDE DEF f
  <2> DEFINE G == FrameOf(jobs) \cup {f}
  <2>4. stack \in Seq(G)
    BY <2>3, SeqMonotonic
  <2>5. f \in G
    OBVIOUS
  <2> HIDE DEF G
  <2>6. Head(<<f>> \o stack) = f
    BY <2>4, <2>5, Pushed
  <2> QED
    BY <2>1, <2>2, <2>6 DEF At, Top
<1>9. CASE /\ UNCHANGED <<stack, pending, dueAt, wakeAt, timeToSleep>>
          /\ (Tick \/ UNCHANGED <<now, passed>>)
  BY <1>9 DEF At, Top
<1>10. ASSUME NEW t \in Timers, ClientTimers(t) PROVE FALSE
  <2>1. UNCHANGED stack /\ ClientRuns
    BY <1>10 DEF ClientTimers, loopVars
  <2> QED
    BY <2>1 DEF At, Top, ClientRuns
<1>11. /\ UNCHANGED <<stack, pending, dueAt, wakeAt, timeToSleep>>
       /\ (Tick \/ UNCHANGED <<now, passed>>)
  <2>1. ~EvmStep
    BY <1>3, <1>4, <1>5, <1>6, <1>12 DEF EvmStep
  <2>2. CASE Client
    BY <1>8, <1>10, <2>2 DEF Client, ExitMainLoop, ClearLowPriorityWorkByLabel,
                             ScalingFactorChanges, timerVars, loopVars
  <2>3. CASE \E c \in Threads : QueueWork(c) \/ QueueLowPriorityWork(c) \/ CallStep(c)
    BY <2>3 DEF QueueWork, QueueLowPriorityWork, CallStep, PutWork, DropOldest, PutLowPriorityWork,
                GiveSem, Step, timerVars, loopVars
  <2>4. CASE \E i \in Isrs : IsrQueueWork(i) \/ IsrQueueLowPriorityWork(i)
    BY <2>4 DEF IsrQueueWork, IsrQueueLowPriorityWork, timerVars, loopVars
  <2>5. CASE Tick
    BY <2>5 DEF Tick, Service!Tick
  <2>6. CASE UNCHANGED vars
    BY <2>6 DEF vars, timerVars, loopVars
  <2> QED
    BY <1>7, <2>1, <2>2, <2>3, <2>4, <2>5, <2>6 DEF Next
<1> QED
  BY <1>9, <1>11

(* Whole ticks of a time are no more than the time.                        *)
LEMMA TicksTruncate ==
  ASSUME NEW us \in Nat, NEW tick \in Nat \ {0}
  PROVE  us \div tick \in Nat /\ (us \div tick) * tick <= us
  OBVIOUS

LEMMA TicksAdd ==
  ASSUME NEW a \in Nat, NEW b \in Nat, NEW tick \in Nat
  PROVE  (a + b) * tick \in Nat /\ (a + b) * tick = a * tick + b * tick
  OBVIOUS

(* What a loop that lies down has worked out: it wakes up no later than    *)
(* the next timer is due, but for what has passed, unless it was given the *)
(* word for ever.                                                          *)
LEMMA SleepIsEarly ==
  ASSUME WakeupInv, SleepInv, Take, Asleep', pending # <<>>
  PROVE  /\ wakeAt' # Never => wakeAt' <= dueAt[Head(pending)] + passed
         /\ timeToSleep % (PortMaxDelay + 1) # PortMaxDelay => wakeAt' # Never
<1> DEFINE us == timeToSleep
           word == us % (PortMaxDelay + 1)
           due == dueAt[Head(pending)]
<1>1. TickUs \in Nat \ {0} /\ PortMaxDelay \in Nat \ {0} /\ now \in Nat /\ us \in Nat
      /\ passed \in Nat
  BY EvmAssumption DEF SleepInv, TimersTyped
<1>2. wakeAt' = IF KTime(us) = Never THEN Never ELSE (now \div TickUs + KTime(us)) * TickUs
  <2>1. ~GoTo("loop")
    <3>1. stack # <<>> /\ "loop" # "asleep"
      BY DEF Take, At
    <3> QED
      BY <3>1, GoneTo DEF Asleep, At
  <2> QED
    BY <2>1 DEF Take, GoesOn
<1>3. KTime(us) = IF word = PortMaxDelay THEN Never ELSE word \div TickUs
  BY DEF KTime
<1>4. due \in Nat
  BY HeadTailProperties DEF SleepInv, TimersTyped
<1>5. now + us = due + passed
  BY DEF SleepInv, LeftComputed, Take
<1> HIDE DEF us, due
<1>7. word \in Nat /\ word <= us
  BY <1>1
<1> HIDE DEF word
<1> DEFINE here == now \div TickUs
           ticks == word \div TickUs
<1>8. here \in Nat /\ here * TickUs <= now /\ ticks \in Nat /\ ticks * TickUs <= word
  BY <1>1, <1>7, TicksTruncate
<1>9. word # PortMaxDelay => KTime(us) = ticks /\ ticks # Never
  BY <1>3, <1>8 DEF Never
<1>10. word = PortMaxDelay => wakeAt' = Never
  BY <1>2, <1>3
<1>11. word # PortMaxDelay => wakeAt' = (here + ticks) * TickUs
  BY <1>2, <1>9
<1> HIDE DEF here, ticks
<1>12. (here + ticks) * TickUs \in Nat /\ (here + ticks) * TickUs = here * TickUs + ticks * TickUs
  BY <1>1, <1>8, TicksAdd
<1>13. here * TickUs \in Nat /\ ticks * TickUs \in Nat
  BY <1>1, <1>8
<1>14. (here + ticks) * TickUs <= due + passed
  BY <1>1, <1>4, <1>5, <1>7, <1>8, <1>12, <1>13
<1>15. wakeAt' # Never => wakeAt' <= due + passed
  BY <1>10, <1>11, <1>14
<1>16. word # PortMaxDelay => wakeAt' # Never
  BY <1>11, <1>12 DEF Never
<1> QED
  BY <1>15, <1>16 DEF due, word, us

(* What it has computed is what is left to the next timer.                 *)
LEMMA LeftIsComputed ==
  ASSUME WakeupInv, SleepInv, ComputeTimeToSleep, At("take")'
  PROVE  /\ timeToSleep' \in Nat /\ passed' = 0
         /\ pending # <<>> => now + timeToSleep' = dueAt[Head(pending)]
<1>1. /\ stack # <<>> /\ timeToSleep' = GetDurationUsToNextTimerTimeout /\ passed' = 0
      /\ GoTo(IF timeToSleep' = 0 THEN "loop" ELSE "take")
  BY DEF ComputeTimeToSleep, At
<1>2. timeToSleep' # 0
  BY <1>1, GoneTo DEF At
<1>3. pending # <<>> => dueAt[Head(pending)] \in Nat
  BY HeadTailProperties DEF SleepInv, TimersTyped
<1>4. now \in Nat /\ LongSleep \in Nat
  BY EvmAssumption DEF SleepInv, TimersTyped
<1> QED
  BY <1>1, <1>2, <1>3, <1>4 DEF GetDurationUsToNextTimerTimeout

(* The types of what it computes.                                          *)
LEMMA SleepTyped ==
  ASSUME SleepInv, [Next]_vars
  PROVE  timeToSleep' \in Nat /\ passed' \in Nat
<1>1. timeToSleep \in Nat /\ passed \in Nat /\ now \in Nat /\ LongSleep \in Nat
  BY EvmAssumption DEF SleepInv, TimersTyped
<1>2. CASE ComputeTimeToSleep
  <2>1. pending # <<>> => dueAt[Head(pending)] \in Nat
    BY HeadTailProperties DEF SleepInv, TimersTyped
  <2>2. timeToSleep' = GetDurationUsToNextTimerTimeout /\ passed' = 0
    BY <1>2 DEF ComputeTimeToSleep
  <2> QED
    BY <1>1, <2>1, <2>2 DEF GetDurationUsToNextTimerTimeout
<1>3. CASE Take \/ Wake
  BY <1>1, <1>3 DEF Take, Wake, GoesOn
<1>4. CASE Tick
  BY <1>1, <1>4 DEF Tick
<1>5. CASE UNCHANGED <<timeToSleep, passed>>
  BY <1>1, <1>5
<1>6. CASE LoopCondition \/ ServiceWork \/ ServiceLowPriorityWork \/ ServiceTimers \/ CheckWork
           \/ CheckLowPriorityWork \/ CallbackReturns
  BY <1>5, <1>6 DEF LoopCondition, ServiceWork, ServiceLowPriorityWork, ServiceTimers, CheckWork,
                    CheckLowPriorityWork, CallbackReturns
<1>7. CASE Client
  BY <1>5, <1>7 DEF Client, MainLoop, ExitMainLoop, ClientTimers, ClearLowPriorityWorkByLabel,
                    ScalingFactorChanges, loopVars
<1>8. CASE \E c \in Threads : QueueWork(c) \/ QueueLowPriorityWork(c) \/ CallStep(c)
  BY <1>5, <1>8 DEF QueueWork, QueueLowPriorityWork, CallStep, PutWork, DropOldest,
                    PutLowPriorityWork, GiveSem, Step, loopVars
<1>9. CASE \E i \in Isrs : IsrQueueWork(i) \/ IsrQueueLowPriorityWork(i)
  BY <1>5, <1>9 DEF IsrQueueWork, IsrQueueLowPriorityWork, loopVars
<1>10. CASE UNCHANGED vars
  BY <1>5, <1>10 DEF vars, loopVars
<1> QED
  BY <1>2, <1>3, <1>4, <1>6, <1>7, <1>8, <1>9, <1>10 DEF Next, EvmStep

LEMMA SleepInvNext ==
  ASSUME WakeupInv, SleepInv, [Next]_vars
  PROVE  SleepInv'
<1>1. TimersTyped' /\ timeToSleep' \in Nat /\ passed' \in Nat
  BY TimersTypedNext, SleepTyped DEF SleepInv
<1>2. LeftComputed'
  <2> SUFFICES ASSUME At("take")', pending' # <<>>
               PROVE  now' + timeToSleep' = dueAt'[Head(pending')] + passed'
    BY DEF LeftComputed
  <2>1. CASE ComputeTimeToSleep
    <3>1. UNCHANGED <<now, pending, dueAt>>
      BY <2>1 DEF ComputeTimeToSleep, timerVars
    <3>2. dueAt[Head(pending)] \in Nat
      BY <3>1, HeadTailProperties DEF SleepInv, TimersTyped
    <3> QED
      BY <2>1, <3>1, <3>2, LeftIsComputed
  <2>2. CASE ~ComputeTimeToSleep
    <3>1. /\ At("take") /\ UNCHANGED <<pending, dueAt, wakeAt, timeToSleep>>
          /\ (Tick \/ UNCHANGED <<now, passed>>)
      BY <2>2, OnlyTheseWait
    <3>2. dueAt[Head(pending)] \in Nat
      BY <3>1, HeadTailProperties DEF SleepInv, TimersTyped
    <3>3. now + timeToSleep = dueAt[Head(pending)] + passed
      BY <3>1 DEF SleepInv, LeftComputed
    <3>4. CASE Tick
      <4>1. now' = now + 1 /\ passed' = passed + 1
        BY <3>1, <3>4 DEF Tick, Service!Tick
      <4>2. now \in Nat /\ passed \in Nat /\ timeToSleep \in Nat
        BY DEF SleepInv, TimersTyped
      <4>3. dueAt'[Head(pending')] = dueAt[Head(pending)] /\ timeToSleep' = timeToSleep
        BY <3>1
      <4> DEFINE due == dueAt[Head(pending)]
      <4>4. due \in Nat /\ now + timeToSleep = due + passed
        BY <3>2, <3>3
      <4> HIDE DEF due
      <4>5. (now + 1) + timeToSleep = due + (passed + 1)
        BY <4>2, <4>4
      <4> QED
        BY <4>1, <4>3, <4>5 DEF due
    <3> QED
      BY <3>1, <3>3, <3>4
  <2> QED
    BY <2>1, <2>2
<1>3. EarlyIfAtAll' /\ NotForEver'
  <2> SUFFICES ASSUME Asleep', pending' # <<>>
               PROVE  /\ wakeAt' # Never => wakeAt' <= dueAt'[Head(pending')] + passed'
                      /\ timeToSleep' % (PortMaxDelay + 1) # PortMaxDelay => wakeAt' # Never
    BY DEF EarlyIfAtAll, NotForEver
  <2>1. CASE Take
    <3>1. UNCHANGED <<pending, dueAt, timeToSleep, passed>>
      <4>1. ~GoTo("loop")
        <5>1. stack # <<>> /\ "loop" # "asleep"
          BY <2>1 DEF Take, At
        <5> QED
          BY <5>1, GoneTo DEF Asleep, At
      <4> QED
        BY <2>1, <4>1 DEF Take, GoesOn, timerVars
    <3> QED
      BY <2>1, <3>1, SleepIsEarly
  <2>2. CASE ~Take
    <3>1. At("asleep")'
      BY DEF Asleep
    <3>2. /\ At("asleep") /\ UNCHANGED <<pending, dueAt, wakeAt, timeToSleep>>
          /\ (Tick \/ UNCHANGED <<now, passed>>)
      BY <2>2, <3>1, OnlyTheseWait
    <3>3. ~At("take")
      BY <3>2 DEF At
    <3>4. passed' = passed
      BY <3>2, <3>3 DEF Tick
    <3> QED
      BY <3>2, <3>4 DEF SleepInv, EarlyIfAtAll, NotForEver, Asleep
  <2> QED
    BY <2>1, <2>2
<1> QED
  BY <1>1, <1>2, <1>3 DEF SleepInv

THEOREM SleepInvariant == Spec => []SleepInv
<1>1. Init => SleepInv
  BY DEF Init, Service!Init, SleepInv, TimersTyped, LeftComputed, EarlyIfAtAll, NotForEver, Asleep, At
<1>2. WakeupInv /\ SleepInv /\ [Next]_vars => SleepInv'
  BY SleepInvNext
<1> QED
  BY <1>1, <1>2, WakeupInvariant, PTL DEF Spec

(* "would rather be early than late" (KTime.cpp): whenever the loop sleeps *)
(* for a time, the time is over by when the next timer is due, or late by  *)
(* what passed between reading the clock and waiting and by no more: for   *)
(* any timers, any clock and any length of the kernel's tick.              *)
THEOREM NeverSleepsLate == Spec => []EarlyIfAtAll
<1>1. SleepInv => EarlyIfAtAll
  BY DEF SleepInv
<1> QED
  BY <1>1, SleepInvariant, PTL

(* With a timer registered, the loop sleeps for a time and no longer than  *)
(* that, unless what is left to the timer is the one word that             *)
(* xSemaphoreTake() takes for "for ever".                                  *)
THEOREM WakesForNextTimer == Spec => []SleepNotPastDeadline
<1>1. SleepInv => SleepNotPastDeadline
  BY DEF SleepInv, EarlyIfAtAll, NotForEver, SleepNotPastDeadline
<1> QED
  BY <1>1, SleepInvariant, PTL
=============================================================================
