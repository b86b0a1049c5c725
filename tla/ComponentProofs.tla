---------------------------- MODULE ComponentProofs ----------------------------
(***************************************************************************)
(* Proofs about the components that MCComponents checks side by side, each *)
(* in a section of its own; they share arithmetic only.                    *)
(***************************************************************************)
EXTENDS Work, BleObserver, TimerSequence, Blinker, Shell, UsbPower, Timeline, UsbCdc,
  Wspr, SequenceTheorems, FiniteSetTheorems, WellFoundedInduction, TLAPS

-----------------------------------------------------------------------------
(* Of natural numbers, for the sections that count.                        *)

(* Of numbers there is a smallest.                                         *)
LEMMA SmallestOf ==
  ASSUME NEW S \in SUBSET Nat, S # {}
  PROVE  \E s \in S : \A t \in S : s <= t
<1> DEFINE R == OpToRel(<, Nat)
<1>1. \A x, y \in Nat : x < y => <<x, y>> \in R
  BY DEF OpToRel
<1>2. IsWellFoundedOn(R, Nat)
  BY NatLessThanWellFounded
<1> HIDE DEF R
<1>3. PICK s \in S : \A t \in S : ~(<<t, s>> \in R)
  BY <1>2, WFMin
<1>4. \A t \in S : s <= t
  <2> SUFFICES ASSUME NEW t \in S PROVE s <= t
    OBVIOUS
  <2>1. ~(<<t, s>> \in R) /\ s \in Nat /\ t \in Nat
    BY <1>3
  <2>2. ~(t < s)
    BY <1>1, <2>1
  <2> QED
    BY <2>1, <2>2
<1> QED
  BY <1>4

(* What holds of none, and of one more than any, holds up to k.            *)
LEMMA CountingUp ==
  ASSUME NEW k \in Nat, NEW S, 0 \in S, \A i \in 1 .. k : i - 1 \in S => i \in S
  PROVE  \A i \in 0 .. k : i \in S
<1> DEFINE Others == {i \in 0 .. k : i \notin S}
<1> SUFFICES ASSUME Others # {} PROVE FALSE
  OBVIOUS
<1>1. Others \in SUBSET Nat
  OBVIOUS
<1>2. PICK i \in Others : \A j \in Others : i <= j
  <2> HIDE DEF Others
  <2> QED
    BY <1>1, SmallestOf
<1>3. i \in 1 .. k /\ i - 1 \in 0 .. k
  OBVIOUS
<1>4. i - 1 \in Others
  BY <1>3
<1> QED
  BY <1>2, <1>3, <1>4

-----------------------------------------------------------------------------
(* Work, for any COUNT_LIMIT and any callers.  That the count is never too *)
(* large does not depend on the pool; that it is never too small does, on  *)
(* there being as many slots as the semaphore has counts.                  *)

Taken == IF at = "extract" THEN 1 ELSE 0

(* The inductive invariant: a job in the list for each count of the        *)
(* semaphore, and one for the thread that has taken a count.               *)
JobForEachCount ==
  /\ \E nodes : workList \in Seq(nodes)
  /\ sem \in Nat
  /\ sem + Taken <= Len(workList)

(* front() is never called on an empty list.                               *)
FrontExists == at = "extract" => workList # <<>>

(* Queue() adds a job, and at most one count.                              *)
LEMMA QueueKeeps ==
  ASSUME JobForEachCount, NEW label, Queue(label)
  PROVE  JobForEachCount'
<1>1. PICK nodes : workList \in Seq(nodes)
  BY DEF JobForEachCount
<1>2. sem \in Nat /\ Len(workList) \in Nat /\ sem + Taken <= Len(workList) /\ Taken' = Taken
  BY <1>1, LenProperties DEF JobForEachCount, Taken, Queue
<1>3. CASE UNCHANGED <<workList, sem>>
  BY <1>2, <1>3 DEF JobForEachCount
<1>4. ASSUME NEW node, workList' = Append(workList, node), sem' = Give(sem)
      PROVE  JobForEachCount'
  <2> DEFINE S == nodes \cup {node}
  <2>1. workList \in Seq(S) /\ node \in S
    <3>1. nodes \subseteq S
      OBVIOUS
    <3> HIDE DEF S
    <3>2. workList \in Seq(S)
      BY <1>1, <3>1, SeqMonotonic
    <3> QED
      BY <3>2 DEF S
  <2> HIDE DEF S
  <2>2. workList' \in Seq(S) /\ Len(workList') = Len(workList) + 1
    BY <1>4, <2>1, AppendProperties
  <2>3. sem' \in Nat /\ sem' <= sem + 1
    BY <1>2, <1>4 DEF Give
  <2>4. Taken \in {0, 1}
    BY DEF Taken
  <2> QED
    BY <1>2, <2>2, <2>3, <2>4 DEF JobForEachCount
<1> QED
  BY <1>3, <1>4 DEF Queue

(* The thread's steps: a count is taken, then a job for it.                *)
LEMMA ThreadKeeps ==
  ASSUME JobForEachCount, Take \/ Extract \/ JobReturns
  PROVE  JobForEachCount'
<1>1. PICK nodes : workList \in Seq(nodes)
  BY DEF JobForEachCount
<1>2. sem \in Nat /\ Len(workList) \in Nat /\ sem + Taken <= Len(workList)
  BY <1>1, LenProperties DEF JobForEachCount
<1>3. CASE Take
  <2>1. Taken = 0 /\ Taken' = 1 /\ sem' = sem - 1 /\ sem > 0 /\ workList' = workList
    BY <1>3 DEF Take, Taken
  <2> QED
    BY <1>1, <1>2, <2>1 DEF JobForEachCount
<1>4. CASE Extract
  <2>1. Taken = 1 /\ Taken' = 0 /\ sem' = sem /\ workList' = Tail(workList)
    BY <1>4 DEF Extract, Taken
  <2>2. workList # <<>>
    BY <1>2, <2>1
  <2>3. Tail(workList) \in Seq(nodes) /\ Len(Tail(workList)) = Len(workList) - 1
    BY <1>1, <2>2, HeadTailProperties
  <2> QED
    BY <1>2, <2>1, <2>3 DEF JobForEachCount
<1>5. CASE JobReturns
  <2>1. Taken' = 0 /\ Taken = 0 /\ sem' = sem /\ workList' = workList
    BY <1>5 DEF JobReturns, Taken
  <2> QED
    BY <1>1, <1>2, <2>1 DEF JobForEachCount
<1> QED
  BY <1>3, <1>4, <1>5

(* Work preserves JobForEachCount: it holds in every reachable state.      *)
THEOREM JobForEachCountInvariant == WorkSpec => []JobForEachCount
<1>1. WorkInit => JobForEachCount
  <2> SUFFICES ASSUME WorkInit PROVE JobForEachCount
    OBVIOUS
  <2>1. workList = <<>> /\ sem = 0 /\ Taken = 0
    BY DEF WorkInit, Taken
  <2>2. workList \in Seq({}) /\ Len(workList) = 0
    BY <2>1
  <2> QED
    BY <2>1, <2>2 DEF JobForEachCount
<1>2. JobForEachCount /\ [WorkNext]_workVars => JobForEachCount'
  <2> SUFFICES ASSUME JobForEachCount, [WorkNext]_workVars PROVE JobForEachCount'
    OBVIOUS
  <2>1. CASE \E label \in Callers : Queue(label)
    BY <2>1, QueueKeeps
  <2>2. CASE JobQueues
    BY <2>2, QueueKeeps DEF JobQueues
  <2>3. CASE Take \/ Extract \/ JobReturns
    BY <2>3, ThreadKeeps
  <2>4. CASE UNCHANGED workVars
    BY <2>4 DEF workVars, JobForEachCount, Taken
  <2> QED
    BY <2>1, <2>2, <2>3, <2>4 DEF WorkNext
<1> QED
  BY <1>1, <1>2, PTL DEF WorkSpec

LEMMA FrontFromCount == JobForEachCount => FrontExists
<1> SUFFICES ASSUME JobForEachCount, at = "extract" PROVE workList # <<>>
  BY DEF FrontExists
<1>1. sem \in Nat /\ sem + 1 <= Len(workList)
  BY DEF JobForEachCount, Taken
<1>2. ASSUME workList = <<>> PROVE FALSE
  <2>1. Len(workList) = 0
    BY <1>2
  <2> QED
    BY <1>1, <2>1
<1> QED
  BY <1>2

(* ThreadFnWork never calls front() or pop_front() on an empty list.       *)
THEOREM FrontAlwaysExists == WorkSpec => []FrontExists
  BY FrontFromCount, JobForEachCountInvariant, PTL

(* Slots of the pool that are free, those of them from i on, and the first *)
(* of these.                                                               *)
FreeSlots == {s \in Pool!Slots : memUsageList[s] = 0}
FreeFrom(i) == {s \in FreeSlots : s >= i}
FirstFree(i) ==
  IF FreeFrom(i) = {} THEN Pool!nullptr
  ELSE CHOOSE s \in FreeFrom(i) : \A t \in FreeFrom(i) : s <= t

LEMMA FirstFreeIs ==
  ASSUME memUsageList \in [Pool!Slots -> {0, 1}], NEW i \in Nat
  PROVE  /\ i >= COUNT_LIMIT => FirstFree(i) = Pool!nullptr
         /\ i < COUNT_LIMIT /\ memUsageList[i] = 0 => FirstFree(i) = i
         /\ i < COUNT_LIMIT /\ memUsageList[i] # 0 => FirstFree(i) = FirstFree(i + 1)
         /\ FreeFrom(i) # {} => FirstFree(i) \in FreeFrom(i)
<1>0. COUNT_LIMIT \in Nat /\ Pool!Slots = 0 .. COUNT_LIMIT - 1
  BY WorkAssumption DEF Pool!Slots
<1>1. ASSUME i >= COUNT_LIMIT PROVE FirstFree(i) = Pool!nullptr
  <2>1. FreeFrom(i) = {}
    BY <1>0, <1>1 DEF FreeFrom, FreeSlots
  <2> QED
    BY <2>1 DEF FirstFree
<1>2. ASSUME i < COUNT_LIMIT, memUsageList[i] = 0 PROVE FirstFree(i) = i
  <2>1. i \in FreeFrom(i) /\ \A t \in FreeFrom(i) : i <= t /\ t \in Int
    BY <1>0, <1>2 DEF FreeFrom, FreeSlots
  <2>2. \A s \in FreeFrom(i) : (\A t \in FreeFrom(i) : s <= t) => s = i
    BY <2>1
  <2> HIDE DEF FreeFrom
  <2> QED
    BY <2>1, <2>2 DEF FirstFree
<1>3. ASSUME i < COUNT_LIMIT, memUsageList[i] # 0 PROVE FirstFree(i) = FirstFree(i + 1)
  <2>1. FreeFrom(i) = FreeFrom(i + 1)
    BY <1>0, <1>3 DEF FreeFrom, FreeSlots
  <2> QED
    BY <2>1 DEF FirstFree
<1>4. ASSUME FreeFrom(i) # {} PROVE FirstFree(i) \in FreeFrom(i)
  <2>1. FreeFrom(i) \in SUBSET Nat
    BY <1>0 DEF FreeFrom, FreeSlots
  <2>2. \E s \in FreeFrom(i) : \A t \in FreeFrom(i) : s <= t
    BY <1>4, <2>1, SmallestOf
  <2> QED
    BY <1>4, <2>2 DEF FirstFree
<1> QED
  BY <1>1, <1>2, <1>3, <1>4

(* The scan for one slot passes over the slots in use one by one: it finds *)
(* a free slot, when there is one.                                         *)
LEMMA PlaceIsFree ==
  ASSUME memUsageList \in [Pool!Slots -> {0, 1}]
  PROVE  /\ FreeSlots = {} => Pool!Place(1) = Pool!nullptr
         /\ FreeSlots # {} => Pool!Place(1) \in FreeSlots /\ Pool!Place(1) # Pool!nullptr
<1> DEFINE Step(f, i) ==
             IF i >= COUNT_LIMIT THEN Pool!nullptr
             ELSE IF memUsageList[i] # 0 THEN f[i + memUsageList[i]]
             ELSE IF i + 1 > COUNT_LIMIT THEN Pool!nullptr
             ELSE LET inTheWay == {j \in i + 1 .. i + 1 - 1 : memUsageList[j] # 0}
                  IN  IF inTheWay = {} THEN i ELSE f[i + memUsageList[Pool!Min(inTheWay)]]
           Scan(f, i) ==
             IF i >= COUNT_LIMIT THEN Pool!nullptr
             ELSE IF memUsageList[i] # 0 THEN f[i + 1] ELSE i
           scanned == CHOOSE f : f = [i \in Nat |-> Step(f, i)]
           first == [i \in Nat |-> FirstFree(i)]
<1>0. COUNT_LIMIT \in Nat /\ Pool!Slots = 0 .. COUNT_LIMIT - 1
  BY WorkAssumption DEF Pool!Slots
<1>1. Pool!Place(1) = scanned[0]
  BY DEF Pool!Place
<1>2. ASSUME NEW f, NEW i \in Nat PROVE Step(f, i) = Scan(f, i)
  <2>1. {j \in i + 1 .. i + 1 - 1 : memUsageList[j] # 0} = {}
    OBVIOUS
  <2>2. i < COUNT_LIMIT => memUsageList[i] \in {0, 1}
    BY <1>0
  <2> QED
    BY <1>0, <2>1, <2>2
<1> HIDE DEF Step
<1>3. first = [i \in Nat |-> Step(first, i)]
  <2>1. ASSUME NEW i \in Nat PROVE FirstFree(i) = Scan(first, i)
    <3>1. first[i + 1] = FirstFree(i + 1)
      OBVIOUS
    <3> HIDE DEF first
    <3> QED
      BY <1>0, <3>1, FirstFreeIs
  <2>2. \A i \in Nat : FirstFree(i) = Step(first, i)
    BY <1>2, <2>1
  <2> QED
    BY <2>2
<1> HIDE DEF first
<1>4. scanned = [i \in Nat |-> Step(scanned, i)]
  BY <1>3
<1> HIDE DEF scanned
<1>5. \A i \in Nat : scanned[i] = Scan(scanned, i) /\ first[i] = Scan(first, i)
  <2>1. \A i \in Nat : scanned[i] = Step(scanned, i) /\ first[i] = Step(first, i)
    BY <1>3, <1>4
  <2> QED
    BY <1>2, <2>1
<1>6. \A d \in 0 .. COUNT_LIMIT : scanned[COUNT_LIMIT - d] = first[COUNT_LIMIT - d]
  <2> DEFINE Same == {d \in 0 .. COUNT_LIMIT : scanned[COUNT_LIMIT - d] = first[COUNT_LIMIT - d]}
  <2>1. 0 \in Same
    BY <1>0, <1>5
  <2>2. ASSUME NEW d \in 1 .. COUNT_LIMIT, d - 1 \in Same PROVE d \in Same
    <3> DEFINE i == COUNT_LIMIT - d
    <3>1. i \in Nat /\ i < COUNT_LIMIT /\ COUNT_LIMIT - (d - 1) = i + 1
      BY <1>0
    <3>2. scanned[i + 1] = first[i + 1]
      BY <2>2, <3>1
    <3> HIDE DEF i
    <3>3. scanned[i] = first[i]
      BY <1>0, <1>5, <3>1, <3>2
    <3> QED
      BY <1>0, <3>3 DEF i
  <2> HIDE DEF Same
  <2>3. \A d \in 0 .. COUNT_LIMIT : d \in Same
    BY <1>0, <2>1, <2>2, CountingUp
  <2> QED
    BY <2>3 DEF Same
<1>7. scanned[0] = FirstFree(0)
  <2>1. COUNT_LIMIT \in 0 .. COUNT_LIMIT /\ COUNT_LIMIT - COUNT_LIMIT = 0
    BY <1>0
  <2>2. scanned[0] = first[0]
    BY <1>6, <2>1
  <2> QED
    BY <2>2 DEF first
<1>8. FreeFrom(0) = FreeSlots
  BY <1>0 DEF FreeFrom, FreeSlots
<1>9. Pool!nullptr \notin FreeSlots
  BY <1>0 DEF FreeSlots, Pool!nullptr
<1> QED
  BY <1>1, <1>7, <1>8, <1>9, FirstFreeIs DEF FirstFree

(* The slots that are marked are those of the list's nodes, one each.      *)
SlotsAreNodes ==
  /\ \A i, j \in DOMAIN workList : workList[i].slot = workList[j].slot => i = j
  /\ \A s \in Pool!Slots :
       memUsageList[s] # 0 <=> \E i \in DOMAIN workList : workList[i].slot = s

(* The inductive invariant of the pool and the list over it.               *)
WorkInv ==
  /\ workList \in Seq(Node)
  /\ memUsageList \in [Pool!Slots -> {0, 1}]
  /\ sem \in 0 .. COUNT_LIMIT
  /\ at \in {"take", "extract", "run"}
  /\ wd \in Labels \cup {NoJob} /\ (wd # NoJob <=> at = "run")
  /\ fatal \in BOOLEAN
  /\ SlotsAreNodes
  /\ fatal => FreeSlots = {}

(* The board resets only when as many jobs wait as there can be.           *)
ResetsOnlyWhenFull == fatal => Len(workList) = COUNT_LIMIT

(* There is a slot for each node, and when none is free a node for each.   *)
LEMMA NodesFitSlots ==
  ASSUME WorkInv
  PROVE  /\ Len(workList) \in Nat /\ Len(workList) <= COUNT_LIMIT
         /\ FreeSlots = {} => Len(workList) = COUNT_LIMIT
<1> DEFINE Indices == DOMAIN workList
           slot == [i \in Indices |-> workList[i].slot]
<1>1. Len(workList) \in Nat /\ Indices = 1 .. Len(workList)
  BY LenProperties DEF WorkInv
<1>2. \A i \in Indices : workList[i].slot \in Pool!Slots
  <2>1. \A i \in Indices : workList[i] \in Node
    BY <1>1, ElementOfSeq DEF WorkInv
  <2> QED
    BY <2>1 DEF Node
<1>3. slot \in Injection(Indices, Pool!Slots)
  <2>1. slot \in [Indices -> Pool!Slots]
    BY <1>2
  <2>2. \A i, j \in Indices : slot[i] = slot[j] => i = j
    BY DEF WorkInv, SlotsAreNodes
  <2> HIDE DEF slot, Indices
  <2> QED
    BY <2>1, <2>2 DEF Injection, IsInjective
<1>4. COUNT_LIMIT \in Nat /\ Pool!Slots = 0 .. COUNT_LIMIT - 1
  BY WorkAssumption DEF Pool!Slots
<1>5. IsFiniteSet(Pool!Slots) /\ Cardinality(Pool!Slots) = COUNT_LIMIT
  <2>1. 0 \in Int /\ COUNT_LIMIT - 1 \in Int /\ (COUNT_LIMIT - 1) - 0 + 1 = COUNT_LIMIT
        /\ (0 > COUNT_LIMIT - 1 => COUNT_LIMIT = 0)
    BY <1>4
  <2>2. /\ IsFiniteSet(0 .. COUNT_LIMIT - 1)
        /\ Cardinality(0 .. COUNT_LIMIT - 1) =
             IF 0 > COUNT_LIMIT - 1 THEN 0 ELSE (COUNT_LIMIT - 1) - 0 + 1
    BY <2>1, FS_Interval
  <2> QED
    BY <1>4, <2>1, <2>2
<1>6. IsFiniteSet(Indices) /\ Cardinality(Indices) = Len(workList)
  <2> DEFINE n == Len(workList)
  <2>1. n \in Nat
    BY <1>1
  <2> HIDE DEF n
  <2>2. /\ IsFiniteSet(1 .. n)
        /\ Cardinality(1 .. n) = IF 1 > n THEN 0 ELSE n - 1 + 1
    BY <2>1, FS_Interval
  <2>3. Cardinality(1 .. n) = n
    BY <2>1, <2>2
  <2> QED
    BY <1>1, <2>2, <2>3 DEF n
<1> HIDE DEF slot, Indices
<1>7. Len(workList) <= COUNT_LIMIT
  BY <1>3, <1>5, <1>6, FS_Injection
<1>8. ASSUME FreeSlots = {} PROVE Len(workList) = COUNT_LIMIT
  <2>1. \A s \in Pool!Slots : \E i \in Indices : slot[i] = s
    BY <1>8 DEF FreeSlots, WorkInv, SlotsAreNodes, slot, Indices
  <2>2. slot \in Surjection(Indices, Pool!Slots)
    BY <1>3, <2>1 DEF Injection, Surjection
  <2> QED
    BY <1>3, <1>5, <1>6, <2>2, FS_Injection
<1> QED
  BY <1>1, <1>7, <1>8

LEMMA WorkInvInit == WorkInit => WorkInv
<1> SUFFICES ASSUME WorkInit PROVE WorkInv
  OBVIOUS
<1>1. /\ memUsageList = [i \in Pool!Slots |-> 0] /\ workList = <<>> /\ sem = 0
      /\ at = "take" /\ wd = NoJob /\ fatal = FALSE
  BY DEF WorkInit, Pool!Init
<1>2. 0 \in 0 .. COUNT_LIMIT
  BY WorkAssumption
<1>3. SlotsAreNodes
  <2>1. DOMAIN workList = {}
    BY <1>1
  <2> QED
    BY <1>1, <2>1 DEF SlotsAreNodes
<1>4. memUsageList \in [Pool!Slots -> {0, 1}]
  BY <1>1
<1>5. workList \in Seq(Node)
  BY <1>1, EmptySeq
<1>6. wd \in Labels \cup {NoJob} /\ (wd # NoJob <=> at = "run")
  BY <1>1
<1> QED
  BY <1>1, <1>2, <1>3, <1>4, <1>5, <1>6 DEF WorkInv

(* Queue() takes a free slot for its node, or resets when there is none.   *)
LEMMA QueueKeepsSlots ==
  ASSUME WorkInv, NEW label \in Labels, Queue(label)
  PROVE  WorkInv'
<1>1. /\ workList \in Seq(Node) /\ memUsageList \in [Pool!Slots -> {0, 1}]
      /\ sem \in 0 .. COUNT_LIMIT /\ SlotsAreNodes /\ at' = at /\ wd' = wd
  BY DEF WorkInv, Queue
<1>2. CASE Pool!Place(1) = Pool!nullptr
  <2>1. UNCHANGED <<workList, memUsageList, sem, at, wd>> /\ fatal' = TRUE
    BY <1>2 DEF Queue
  <2>2. FreeSlots = {}
    BY <1>1, <1>2, PlaceIsFree
  <2> QED
    BY <2>1, <2>2 DEF WorkInv, SlotsAreNodes, FreeSlots
<1>3. CASE Pool!Place(1) # Pool!nullptr
  <2> DEFINE p == Pool!Place(1)
             node == [label |-> label, slot |-> p]
             n == Len(workList)
  <2>1. p \in Pool!Slots /\ memUsageList[p] = 0
    BY <1>1, <1>3, PlaceIsFree DEF FreeSlots
  <2>2. /\ memUsageList' = [memUsageList EXCEPT ![p] = 1]
        /\ workList' = Append(workList, node) /\ sem' = Give(sem) /\ fatal' = fatal /\ ~fatal
    BY <1>3 DEF Queue, Pool!Allocate
  <2>3. node \in Node
    BY <2>1 DEF Node
  <2>4. node.slot = p
    OBVIOUS
  <2> HIDE DEF p, node
  <2>5. /\ n \in Nat /\ workList' \in Seq(Node) /\ Len(workList') = n + 1
        /\ workList'[n + 1] = node /\ \A i \in 1 .. n : workList'[i] = workList[i]
    <3>1. n \in Nat
      BY <1>1, LenProperties
    <3> QED
      BY <1>1, <2>2, <2>3, <3>1, AppendProperties
  <2>6. DOMAIN workList = 1 .. n /\ DOMAIN workList' = 1 .. n + 1
    <3>1. DOMAIN workList = 1 .. n
      BY <1>1, LenProperties
    <3>2. DOMAIN workList' = 1 .. Len(workList')
      BY <2>5, LenProperties
    <3> QED
      BY <2>5, <3>1, <3>2
  <2> HIDE DEF n
  <2>7. memUsageList' \in [Pool!Slots -> {0, 1}] /\ memUsageList'[p] = 1
        /\ \A s \in Pool!Slots : s # p => memUsageList'[s] = memUsageList[s]
    BY <1>1, <2>1, <2>2
  <2>8. \A i \in 1 .. n : workList[i].slot # p
    BY <1>1, <2>1, <2>6 DEF SlotsAreNodes
  <2>9. SlotsAreNodes'
    <3>1. ASSUME NEW i \in 1 .. n + 1, NEW j \in 1 .. n + 1,
                 workList'[i].slot = workList'[j].slot
          PROVE  i = j
      <4>1. i \in 1 .. n \/ i = n + 1
        BY <2>5
      <4>2. j \in 1 .. n \/ j = n + 1
        BY <2>5
      <4>3. \A k, l \in 1 .. n : workList[k].slot = workList[l].slot => k = l
        BY <1>1, <2>6 DEF SlotsAreNodes
      <4> QED
        BY <2>4, <2>5, <2>8, <3>1, <4>1, <4>2, <4>3
    <3>2. ASSUME NEW s \in Pool!Slots
          PROVE  memUsageList'[s] # 0 <=> \E i \in 1 .. n + 1 : workList'[i].slot = s
      <4>1. \A i \in 1 .. n + 1 : i \in 1 .. n \/ i = n + 1
        BY <2>5
      <4>2. \A i \in 1 .. n : i \in 1 .. n + 1
        BY <2>5
      <4>3. n + 1 \in 1 .. n + 1
        BY <2>5
      <4>4. CASE s = p
        BY <2>4, <2>5, <2>7, <4>3, <4>4
      <4>5. CASE s # p
        <5>1. memUsageList'[s] # 0 <=> \E i \in 1 .. n : workList[i].slot = s
          BY <1>1, <2>6, <2>7, <4>5 DEF SlotsAreNodes
        <5>2. workList'[n + 1].slot # s
          BY <2>4, <2>5, <4>5
        <5> QED
          BY <2>5, <4>1, <4>2, <5>1, <5>2
      <4> QED
        BY <4>4, <4>5
    <3> QED
      BY <2>6, <3>1, <3>2 DEF SlotsAreNodes
  <2>10. sem' \in 0 .. COUNT_LIMIT
    BY <1>1, <2>2, WorkAssumption DEF Give
  <2> QED
    BY <1>1, <2>2, <2>5, <2>7, <2>9, <2>10 DEF WorkInv
<1> QED
  BY <1>2, <1>3

(* The thread gives the slot of the node it takes back.                    *)
LEMMA ThreadKeepsSlots ==
  ASSUME WorkInv, JobForEachCount, Take \/ Extract \/ JobReturns
  PROVE  WorkInv'
<1>1. /\ workList \in Seq(Node) /\ memUsageList \in [Pool!Slots -> {0, 1}]
      /\ sem \in 0 .. COUNT_LIMIT /\ SlotsAreNodes
  BY DEF WorkInv
<1>2. CASE Take
  <2>1. /\ sem' = sem - 1 /\ sem > 0 /\ at' = "extract" /\ at = "take" /\ ~fatal
        /\ UNCHANGED <<workList, memUsageList, wd, fatal>>
    BY <1>2 DEF Take
  <2>2. sem' \in 0 .. COUNT_LIMIT
    BY <1>1, <2>1, WorkAssumption
  <2> QED
    BY <2>1, <2>2 DEF WorkInv, SlotsAreNodes
<1>3. CASE JobReturns
  <2>1. /\ at' = "take" /\ wd' = NoJob /\ ~fatal
        /\ UNCHANGED <<workList, memUsageList, sem, fatal>>
    BY <1>3 DEF JobReturns
  <2> QED
    BY <2>1 DEF WorkInv, SlotsAreNodes
<1>4. CASE Extract
  <2> DEFINE p == Head(workList).slot
             n == Len(workList)
  <2>1. /\ wd' = Head(workList).label /\ workList' = Tail(workList) /\ at' = "run"
        /\ memUsageList' = [memUsageList EXCEPT ![p] = 0] /\ sem' = sem /\ ~fatal /\ ~fatal'
    BY <1>4 DEF Extract, Pool!Deallocate
  <2>2. workList # <<>> /\ n \in Nat
    <3>1. n \in Nat /\ n >= 1
      <4>1. at = "extract" /\ sem \in Nat /\ sem + Taken <= n
        BY <1>4 DEF Extract, JobForEachCount
      <4>2. Taken = 1
        BY <4>1 DEF Taken
      <4>3. n \in Nat
        BY <1>1, LenProperties
      <4> HIDE DEF n
      <4> QED
        BY <4>1, <4>2, <4>3
    <3> QED
      BY <3>1
  <2>3. /\ Head(workList) \in Node /\ Head(workList) = workList[1]
        /\ workList' \in Seq(Node) /\ Len(workList') = n - 1
        /\ \A i \in 1 .. n - 1 : workList'[i] = workList[i + 1]
    BY <1>1, <2>1, <2>2, HeadTailProperties
  <2>4. /\ DOMAIN workList = 1 .. n /\ DOMAIN workList' = 1 .. n - 1 /\ n >= 1
    <3>1. DOMAIN workList = 1 .. n
      BY <1>1, LenProperties
    <3>2. DOMAIN workList' = 1 .. n - 1
      BY <2>3, LenProperties
    <3>3. n # 0
      BY <1>1, <2>2, EmptySeq
    <3> QED
      BY <2>2, <3>1, <3>2, <3>3
  <2>5. p \in Pool!Slots /\ wd' \in Labels /\ p = workList[1].slot
    BY <2>1, <2>3 DEF Node
  <2> HIDE DEF p, n
  <2>6. memUsageList' \in [Pool!Slots -> {0, 1}] /\ memUsageList'[p] = 0
        /\ \A s \in Pool!Slots : s # p => memUsageList'[s] = memUsageList[s]
    BY <1>1, <2>1, <2>5
  <2>7. SlotsAreNodes'
    <3>0. /\ \A k, l \in 1 .. n : workList[k].slot = workList[l].slot => k = l
          /\ \A s \in Pool!Slots : memUsageList[s] # 0 <=> \E k \in 1 .. n : workList[k].slot = s
      BY <1>1, <2>4 DEF SlotsAreNodes
    <3>1. \A i \in 1 .. n - 1 : i + 1 \in 1 .. n /\ i + 1 # 1
      BY <2>2
    <3>2. ASSUME NEW i \in 1 .. n - 1, NEW j \in 1 .. n - 1,
                 workList'[i].slot = workList'[j].slot
          PROVE  i = j
      <4>1. i + 1 = j + 1
        BY <2>3, <3>0, <3>1, <3>2
      <4> QED
        BY <4>1
    <3>3. ASSUME NEW s \in Pool!Slots
          PROVE  memUsageList'[s] # 0 <=> \E i \in 1 .. n - 1 : workList'[i].slot = s
      <4>1. CASE s = p
        <5>1. \A i \in 1 .. n - 1 : workList'[i].slot # p
          BY <2>3, <2>4, <2>5, <3>0, <3>1
        <5> QED
          BY <2>6, <4>1, <5>1
      <4>2. CASE s # p
        <5>1. memUsageList'[s] # 0 <=> \E k \in 1 .. n : workList[k].slot = s
          BY <2>6, <3>0, <4>2
        <5>2. ASSUME NEW k \in 1 .. n, workList[k].slot = s
              PROVE  k - 1 \in 1 .. n - 1 /\ workList'[k - 1].slot = s
          <6>1. k # 1
            BY <2>5, <4>2, <5>2
          <6>2. k - 1 \in 1 .. n - 1 /\ (k - 1) + 1 = k
            BY <2>2, <6>1
          <6> QED
            BY <2>3, <5>2, <6>2
        <5>3. ASSUME NEW i \in 1 .. n - 1, workList'[i].slot = s
              PROVE  i + 1 \in 1 .. n /\ workList[i + 1].slot = s
          BY <2>3, <3>1, <5>3
        <5> QED
          BY <5>1, <5>2, <5>3
      <4> QED
        BY <4>1, <4>2
    <3> QED
      BY <2>4, <3>2, <3>3 DEF SlotsAreNodes
  <2>8. wd' # NoJob
    BY <2>5, WorkAssumption DEF Labels
  <2>9. wd' \in Labels \cup {NoJob} /\ (wd' # NoJob <=> at' = "run")
    BY <2>1, <2>5, <2>8
  <2>10. fatal' \in BOOLEAN /\ (fatal' => FreeSlots' = {})
    <3>1. fatal \in BOOLEAN /\ fatal' = fatal
      BY <1>4 DEF Extract, WorkInv
    <3> QED
      BY <2>1, <3>1
  <2>11. sem' \in 0 .. COUNT_LIMIT /\ at' \in {"take", "extract", "run"}
    BY <1>1, <2>1
  <2>12. workList' \in Seq(Node) /\ memUsageList' \in [Pool!Slots -> {0, 1}]
    BY <2>3, <2>6
  <2> QED
    BY <2>7, <2>9, <2>10, <2>11, <2>12 DEF WorkInv
<1> QED
  BY <1>2, <1>3, <1>4

(* The pool and the list agree, whoever queues and wherever the thread is. *)
THEOREM WorkInvariant == WorkSpec => []WorkInv
<1>1. WorkInit => WorkInv
  BY WorkInvInit
<1>2. JobForEachCount /\ WorkInv /\ [WorkNext]_workVars => WorkInv'
  <2> SUFFICES ASSUME JobForEachCount, WorkInv, [WorkNext]_workVars PROVE WorkInv'
    OBVIOUS
  <2>1. CASE \E label \in Callers : Queue(label)
    BY <2>1, QueueKeepsSlots DEF Labels
  <2>2. CASE JobQueues
    BY <2>2, QueueKeepsSlots DEF JobQueues, Labels
  <2>3. CASE Take \/ Extract \/ JobReturns
    BY <2>3, ThreadKeepsSlots
  <2>4. CASE UNCHANGED workVars
    BY <2>4 DEF workVars, WorkInv, SlotsAreNodes, FreeSlots
  <2> QED
    BY <2>1, <2>2, <2>3, <2>4 DEF WorkNext
<1> QED
  BY <1>1, <1>2, JobForEachCountInvariant, PTL DEF WorkSpec

(* Types of Work's state: never more jobs than the pool has slots.         *)
THEOREM WorkTypes == WorkSpec => []WorkTypeOK
<1>1. WorkInv => WorkTypeOK
  BY NodesFitSlots DEF WorkInv, WorkTypeOK
<1> QED
  BY <1>1, WorkInvariant, PTL

(* PAL.Fatal() is called only when COUNT_LIMIT jobs wait: the safety of    *)
(* what JobsRun promises.                                                  *)
THEOREM ResetsWhenFull == WorkSpec => []ResetsOnlyWhenFull
<1>1. WorkInv => ResetsOnlyWhenFull
  BY NodesFitSlots DEF WorkInv, ResetsOnlyWhenFull
<1> QED
  BY <1>1, WorkInvariant, PTL

(* A count for each job: xSemaphoreGive never fails at the limit, and no   *)
(* job stays in the list without a count to run it.                        *)
NoJobWithoutCount == sem + Taken = Len(workList)

LEMMA NodesFitSlotsNext == WorkInv' => (Len(workList) \in Nat /\ Len(workList) <= COUNT_LIMIT)'
<1>1. WorkInv => Len(workList) \in Nat /\ Len(workList) <= COUNT_LIMIT
  BY NodesFitSlots
<1> QED
  BY <1>1, PTL

LEMMA QueueGivesCount ==
  ASSUME WorkInv, NoJobWithoutCount, JobForEachCount, NEW label \in Labels, Queue(label)
  PROVE  NoJobWithoutCount'
<1> DEFINE node == [label |-> label, slot |-> Pool!Place(1)]
<1>1. workList \in Seq(Node) /\ WorkInv' /\ sem \in Nat /\ Taken' = Taken /\ Taken \in {0, 1}
  BY QueueKeepsSlots DEF WorkInv, JobForEachCount, Taken, Queue
<1>2. Len(workList) \in Nat /\ Len(workList') \in Nat /\ Len(workList') <= COUNT_LIMIT
  <2>1. Len(workList) \in Nat
    BY NodesFitSlots
  <2>2. Len(workList') \in Nat /\ Len(workList') <= COUNT_LIMIT
    BY <1>1, NodesFitSlotsNext
  <2> QED
    BY <2>1, <2>2
<1>3. CASE UNCHANGED <<workList, sem>>
  BY <1>1, <1>3 DEF NoJobWithoutCount
<1>4. CASE workList' = Append(workList, node) /\ sem' = Give(sem)
  <2>1. Len(workList') = Len(workList) + 1
    <3> HIDE DEF node
    <3> DEFINE S == Node \cup {node}
    <3>1. Node \subseteq S /\ node \in S
      OBVIOUS
    <3> HIDE DEF S
    <3>2. workList \in Seq(S)
      BY <1>1, <3>1, SeqMonotonic
    <3> QED
      BY <1>4, <3>1, <3>2, AppendProperties
  <2>2. sem < COUNT_LIMIT
    BY <1>1, <1>2, <2>1, WorkAssumption DEF NoJobWithoutCount
  <2>3. sem' = sem + 1
    BY <1>4, <2>2 DEF Give
  <2> QED
    BY <1>1, <1>2, <2>1, <2>3 DEF NoJobWithoutCount
<1> QED
  BY <1>3, <1>4 DEF Queue

(* However jobs are queued, every one that waits has its count.            *)
THEOREM EveryJobCounted == WorkSpec => []NoJobWithoutCount
<1>1. WorkInit => NoJobWithoutCount
  BY EmptySeq DEF WorkInit, NoJobWithoutCount, Taken
<1>2. WorkInv /\ JobForEachCount /\ NoJobWithoutCount /\ [WorkNext]_workVars => NoJobWithoutCount'
  <2> SUFFICES ASSUME WorkInv, JobForEachCount, NoJobWithoutCount, [WorkNext]_workVars
               PROVE  NoJobWithoutCount'
    OBVIOUS
  <2>1. workList \in Seq(Node) /\ sem \in Nat
    BY DEF WorkInv, JobForEachCount
  <2>2. Len(workList) \in Nat
    BY NodesFitSlots
  <2>3. CASE \E label \in Callers : Queue(label)
    BY <2>3, QueueGivesCount DEF Labels
  <2>4. CASE JobQueues
    BY <2>4, QueueGivesCount DEF JobQueues, Labels
  <2>5. CASE Take
    BY <2>1, <2>2, <2>5 DEF Take, NoJobWithoutCount, Taken
  <2>6. CASE Extract
    <3>1. workList # <<>>
      BY <2>6, FrontFromCount DEF FrontExists, Extract
    <3>2. Len(workList') = Len(workList) - 1
      BY <2>1, <2>6, <3>1, HeadTailProperties DEF Extract
    <3> QED
      BY <2>1, <2>2, <2>6, <3>2 DEF Extract, NoJobWithoutCount, Taken
  <2>7. CASE JobReturns
    BY <2>7 DEF JobReturns, NoJobWithoutCount, Taken
  <2>8. CASE UNCHANGED workVars
    BY <2>8 DEF workVars, NoJobWithoutCount, Taken
  <2> QED
    BY <2>3, <2>4, <2>5, <2>6, <2>7, <2>8 DEF WorkNext
<1> QED
  BY <1>1, <1>2, WorkInvariant, JobForEachCountInvariant, PTL DEF WorkSpec

-----------------------------------------------------------------------------
(* BleObserver, for any advertisements, filters, pipes and queues.         *)

ObserverTypes ==
  /\ pipe_ \in Seq(Reports)
  /\ queued \in Nat
  /\ evm \in {"idle", "get", "function"}

ObserverInv == ObserverTypes /\ LeftOnlyByLostWork

USE DEF observed, scan

(* Reports of btstack: those that wait have work queued already, and the   *)
(* first queues it.                                                        *)
LEMMA ReportKeeps ==
  ASSUME ObserverInv, NEW report \in Reports, OnAdvertisingReport(report)
  PROVE  ObserverInv'
<1> USE DEF ObserverInv
<1>1. CASE UNCHANGED <<pipe_, queued>>
  BY <1>1 DEF OnAdvertisingReport, ObserverTypes, LeftOnlyByLostWork
<1>2. CASE PassUpward(report) /\ Len(pipe_) < MAX_EVENTS
  <2>1. pipe_' = Append(pipe_, report) /\ pipe_' \in Seq(Reports)
    BY <1>2, AppendProperties DEF PassUpward, ObserverTypes
  <2>2. queued' \in Nat /\ (queued > 0 => queued' > 0) /\ (pipe_ = <<>> => queued' > 0)
    BY <1>2, BleObserverAssumption DEF PassUpward, QueueLowPriorityWork, ObserverTypes
  <2>3. UNCHANGED <<evm, stranded>>
    BY DEF OnAdvertisingReport
  <2> QED
    BY <2>1, <2>2, <2>3 DEF ObserverTypes, LeftOnlyByLostWork
<1> QED
  BY <1>1, <1>2 DEF OnAdvertisingReport, PassUpward

(* Evm: it leaves the pipe only when that is empty.                        *)
LEMMA EvmKeeps ==
  ASSUME ObserverInv, OnAdvertisingReportEvm \/ Get \/ FunctionReturns
  PROVE  ObserverInv'
<1> USE DEF ObserverInv
<1>1. queued' \in Nat /\ UNCHANGED stranded
  BY DEF OnAdvertisingReportEvm, Get, FunctionReturns, ObserverTypes
<1>2. pipe_' \in Seq(Reports) /\ (pipe_ = <<>> => pipe_' = <<>>)
  BY HeadTailProperties DEF OnAdvertisingReportEvm, Get, FunctionReturns, ObserverTypes
<1> QED
  BY <1>1, <1>2 DEF OnAdvertisingReportEvm, Get, FunctionReturns, ObserverTypes,
                    LeftOnlyByLostWork

(* Work that is taken away is the last of it, and then it is known to have *)
(* been, or it is not.                                                     *)
LEMMA GoingKeeps ==
  ASSUME ObserverInv, OthersPushOut \/ ClearWork
  PROVE  ObserverInv'
<1>1. UNCHANGED <<pipe_, evm>> /\ queued' \in Nat /\ WorkGoes
  BY DEF OthersPushOut, ClearWork, ObserverInv, ObserverTypes
<1> QED
  BY <1>1 DEF ObserverInv, ObserverTypes, LeftOnlyByLostWork, WorkGoes

(* What else the program and btstack do touches neither the pipe nor its   *)
(* work.                                                                   *)
LEMMA OthersKeep ==
  ASSUME ObserverInv,
         \/ OnReady
         \/ \E args \in Args : StartScan(args)
         \/ StopScan \/ OnTimeoutStart \/ ClearDupFilter
         \/ CancelTimer \/ GapStopScan \/ StartReady \/ GapStartScan
  PROVE  ObserverInv'
<1>1. UNCHANGED <<pipe_, queued, evm, stranded>>
  BY DEF OnReady, StartScan, StopScan, OnTimeoutStart, ClearDupFilter, CancelTimer, GapStopScan,
         StartReady, GapStartScan
<1> QED
  BY <1>1 DEF ObserverInv, ObserverTypes, LeftOnlyByLostWork

-----------------------------------------------------------------------------
(* A report that waits in the pipe has work to come that gets it, or the   *)
(* last of the work was taken out of Evm's queue while reports waited:     *)
(* whatever interrupts come between the steps of the calls, and whenever   *)
(* and however often the program starts it and stops it.                   *)
THEOREM ReportsHaveWork == ObserverSpec => []LeftOnlyByLostWork
<1>1. ObserverInit => ObserverInv
  BY DEF ObserverInit, ObserverInv, ObserverTypes, LeftOnlyByLostWork
<1>2. ObserverInv /\ [ObserverNext]_observerVars => ObserverInv'
  <2> SUFFICES ASSUME ObserverInv, [ObserverNext]_observerVars PROVE ObserverInv'
    OBVIOUS
  <2>1. CASE UNCHANGED observerVars
    BY <2>1 DEF observerVars, ObserverInv, ObserverTypes, LeftOnlyByLostWork
  <2>2. CASE ObserverNext
    BY <2>2, ReportKeeps, EvmKeeps, GoingKeeps, OthersKeep DEF ObserverNext, CallProceeds
  <2> QED
    BY <2>1, <2>2
<1>3. ObserverInv => LeftOnlyByLostWork
  BY DEF ObserverInv
<1> QED
  BY <1>1, <1>2, <1>3, PTL DEF ObserverSpec

-----------------------------------------------------------------------------
(* Blinker.  Until it has come to its end, what is left of the count is    *)
(* one more than what is left to switch on.                                *)

Counted == blinks \notin {Never, 0}
Ended == expiry = Never /\ ~switching

BlinkerTypes ==
  /\ asyncCountRemaining_ \in Int /\ pulses \in Int
  /\ onOffMs \in OnOffTimes
  /\ blinks \in Nat \cup {Never} /\ expiry \in Nat \cup {Never}
  /\ switching => expiry = Never

Stopped == blinks = Never => Ended

CountsDown ==
  Counted /\ ~Ended => /\ asyncCountRemaining_ > 0 /\ pulses >= 0
                       /\ pulses + asyncCountRemaining_ = blinks + 1

CountReached == Counted /\ Ended => pulses = blinks /\ (on_ => touched)

BlinkerInv == BlinkerTypes /\ Stopped /\ CountsDown /\ CountReached

LEMMA BlinkerStarts == BlinkerInit => BlinkerInv
<1> SUFFICES ASSUME BlinkerInit PROVE BlinkerInv
  OBVIOUS
<1>1. BlinkerTypes
  BY DEF BlinkerInit, BlinkerTypes
<1>2. ~Counted /\ Ended
  BY DEF BlinkerInit, Counted, Ended
<1> QED
  BY <1>1, <1>2 DEF BlinkerInv, Stopped, CountsDown, CountReached

LEMMA BlinkerCallsKeep ==
  ASSUME BlinkerInv, ~CallsInside, Width - 1 \notin Counts,
         \/ \E count \in Counts : EnableAsyncBlink(count)
         \/ DisableAsyncBlink
         \/ \E on \in BOOLEAN : Switch(on)
         \/ SetBlinkOnOffTime
  PROVE  BlinkerInv'
<1> USE DEF BlinkerInv
<1>1. ASSUME NEW count \in Counts, EnableAsyncBlink(count) PROVE BlinkerInv'
  <2>1. count \in Nat /\ Width \in Nat /\ count + 1 < Width
    BY BlinkerAssumption
  <2>2. (count + 1) % Width = count + 1
    BY <2>1
  <2>3. Count(count) = IF count = 0 THEN -1 ELSE count + 1
    BY <2>2 DEF Count
  <2>4. BlinkerTypes' /\ ~Ended' /\ blinks' = count /\ count # Never
    BY <1>1, <2>1, <2>3, BlinkerAssumption DEF EnableAsyncBlink, BlinkerTypes, Ended
  <2>5. count # 0 => asyncCountRemaining_' = count + 1 /\ pulses' = 0
    BY <1>1, <2>3 DEF EnableAsyncBlink
  <2>6. CountsDown'
    BY <2>1, <2>4, <2>5 DEF CountsDown, Counted
  <2> QED
    BY <2>4, <2>6 DEF Stopped, CountReached
<1>2. CASE DisableAsyncBlink
  <2>1. BlinkerTypes' /\ Ended' /\ ~Counted'
    BY <1>2 DEF DisableAsyncBlink, BlinkerTypes, MayCall, Ended, Counted
  <2> QED
    BY <2>1 DEF Stopped, CountsDown, CountReached
<1>3. ASSUME NEW on \in BOOLEAN, Switch(on) PROVE BlinkerInv'
  <2>1. BlinkerTypes' /\ touched'
    BY <1>3 DEF Switch, BlinkerTypes
  <2>2. UNCHANGED <<asyncCountRemaining_, expiry, switching, blinks, pulses>>
    BY <1>3 DEF Switch
  <2> QED
    BY <2>1, <2>2 DEF Stopped, CountsDown, CountReached, Ended, Counted
<1>4. CASE SetBlinkOnOffTime
  <2>1. UNCHANGED <<on_, asyncCountRemaining_, expiry, switching, request>>
    BY <1>4 DEF SetBlinkOnOffTime
  <2>2. BlinkerTypes'
    BY <1>4 DEF SetBlinkOnOffTime, BlinkerTypes, request
  <2> QED
    BY <2>1, <2>2 DEF Stopped, CountsDown, CountReached, Ended, Counted, request
<1> QED
  BY <1>1, <1>2, <1>3, <1>4

LEMMA BlinkerTimeoutKeeps ==
  ASSUME BlinkerInv, ~CallsInside, OnTimeout \/ OnTimeoutReturns \/ BlinkerTick
  PROVE  BlinkerInv'
<1> USE DEF BlinkerInv
<1>1. CASE OnTimeout
  <2>1. BlinkerTypes' /\ ~Ended /\ UNCHANGED blinks /\ (switching' \/ Ended')
    BY <1>1, BlinkerAssumption DEF OnTimeout, CountDown, BlinkerTypes, Ended
  <2>2. blinks # Never
    BY <2>1 DEF Stopped
  <2>3. CASE ~Counted
    BY <2>1, <2>2, <2>3 DEF Counted, Stopped, CountsDown, CountReached
  <2>4. CASE Counted
    <3>1. /\ asyncCountRemaining_ > 0 /\ pulses >= 0
          /\ pulses + asyncCountRemaining_ = blinks + 1 /\ blinks \in Nat
      BY <2>1, <2>4 DEF CountsDown, BlinkerTypes, Counted
    <3>2. CASE on_
      <4>1. UNCHANGED <<asyncCountRemaining_, pulses>> /\ switching'
        BY <1>1, <3>2 DEF OnTimeout
      <4> QED
        BY <2>1, <2>2, <3>1, <4>1 DEF Stopped, CountsDown, CountReached, Ended
    <3>3. CASE ~on_
      <4>1. asyncCountRemaining_' = asyncCountRemaining_ - 1
        BY <1>1, <3>1, <3>3 DEF OnTimeout, CountDown, BlinkerTypes
      <4>2. CASE asyncCountRemaining_' = 0
        <5>1. Ended' /\ ~on_' /\ pulses' = pulses
          BY <1>1, <3>3, <4>2 DEF OnTimeout, Ended
        <5>2. pulses' = blinks'
          BY <2>1, <3>1, <4>1, <4>2, <5>1 DEF BlinkerTypes
        <5> QED
          BY <2>1, <2>2, <5>1, <5>2 DEF Stopped, CountsDown, CountReached
      <4>3. CASE asyncCountRemaining_' # 0
        <5>1. switching' /\ pulses' = pulses + 1
          BY <1>1, <2>4, <3>3, <4>3 DEF OnTimeout, Counted
        <5> QED
          BY <2>1, <2>2, <3>1, <4>1, <4>3, <5>1
          DEF Stopped, CountsDown, CountReached, Ended, BlinkerTypes
      <4> QED
        BY <4>2, <4>3
    <3> QED
      BY <3>2, <3>3 DEF BlinkerTypes
  <2> QED
    BY <2>3, <2>4
<1>2. CASE OnTimeoutReturns
  <2>1. BlinkerTypes' /\ ~Ended' /\ ~Ended
    BY <1>2, BlinkerAssumption DEF OnTimeoutReturns, BlinkerTypes, Ended, request
  <2> QED
    BY <1>2, <2>1 DEF OnTimeoutReturns, request, Stopped, CountsDown, CountReached, Counted
<1>3. CASE BlinkerTick
  <2>1. BlinkerTypes' /\ ~Ended' /\ ~Ended
    BY <1>3, BlinkerAssumption DEF BlinkerTick, BlinkerTypes, Ended, request
  <2> QED
    BY <1>3, <2>1 DEF BlinkerTick, request, Stopped, CountsDown, CountReached, Counted
<1> QED
  BY <1>1, <1>2, <1>3

(* Asked for a count, for any count but the largest, it blinks exactly so  *)
(* often unless it is asked for another, whenever the program switches it  *)
(* between its callbacks; and told to stop it does nothing by itself.      *)
THEOREM BlinksAsOften ==
  ASSUME ~CallsInside, Width - 1 \notin Counts
  PROVE  BlinkerSpec => []BlinksAsAsked
<1>1. BlinkerInv /\ [BlinkerNext]_blinkerVars => BlinkerInv'
  <2> SUFFICES ASSUME BlinkerInv, [BlinkerNext]_blinkerVars PROVE BlinkerInv'
    OBVIOUS
  <2>1. CASE UNCHANGED blinkerVars
    BY <2>1 DEF blinkerVars, request, BlinkerInv, BlinkerTypes, Stopped, CountsDown, CountReached,
                Counted, Ended
  <2>2. CASE BlinkerNext
    BY <2>2, BlinkerCallsKeep, BlinkerTimeoutKeeps DEF BlinkerNext
  <2> QED
    BY <2>1, <2>2
<1>2. BlinkerInv => BlinksAsAsked
  <2> SUFFICES ASSUME BlinkerInv PROVE BlinksAsAsked
    OBVIOUS
  <2>1. Counted => pulses <= blinks
    BY DEF BlinkerInv, BlinkerTypes, CountsDown, CountReached, Counted
  <2> QED
    BY <2>1 DEF BlinkerInv, Stopped, CountReached, BlinksAsAsked, Counted, Ended
<1> QED
  BY BlinkerStarts, <1>1, <1>2, PTL DEF BlinkerSpec

-----------------------------------------------------------------------------
(* TimerSequence.  What a step was asked for is what the step before it    *)
(* says of it, and while the timer runs it has as long to go as the step   *)
(* that it is for: but for the steps that calls missed, and after a Reset  *)
(* from inside of a step, by which all are.                                *)

SequenceTypes ==
  /\ due \in Nat \cup {None}
  /\ since \in 0 .. MaxDelay \cup {None}
  /\ firstStep_ \in Schedule
  /\ stepList_ \in Seq(Schedule) /\ asked \in Seq(Schedule)
  /\ Len(asked) = Size /\ Size <= MaxSteps
  /\ stepListIdx_ \in Nat
  /\ calling => stepListIdx_ < MaxSteps
  /\ dangling => calling

Linked ==
  /\ firstStep_.type = "ScheduleIn"
  /\ Size = 0 => firstStep_ = ScheduleIn(0) /\ due = None
  /\ Size > 0 => stepList_[Size] = ScheduleIn(0) /\ (1 \notin missed => asked[1] = firstStep_)
  /\ \A i \in 1 .. Size - 1 : i + 1 \notin missed => asked[i + 1] = stepList_[i]
  /\ \A i \in 1 .. Size : asked[i].type = "ScheduleIn" => asked[i].us <= MaxDelay

(* Has a step that starts soon microseconds from now waited as asked, with *)
(* past microseconds behind it?                                            *)
InTime(rule, past, soon) ==
  IF rule.type = "ScheduleIn" THEN past + soon >= rule.us ELSE rule.us <= soon

(* The step at stepListIdx_, if there is one and no call missed it.        *)
ToCome == stepListIdx_ < Size /\ stepListIdx_ + 1 \notin missed

Timed ==
  /\ stepListIdx_ <= Size /\ (calling => stepListIdx_ < Size)
  /\ due # None \/ calling => since # None
  /\ due # None /\ ~calling /\ ToCome => InTime(asked[stepListIdx_ + 1], since, due)
  /\ calling /\ ToCome => InTime(asked[stepListIdx_ + 1], since, 0)
  /\ due = None /\ ~calling /\ 0 < stepListIdx_ /\ ToCome =>
       asked[stepListIdx_ + 1] = ScheduleIn(0)
  /\ dangling => stepListIdx_ + 2 \in missed

AllMissed == 1 .. MaxSteps \subseteq missed

SequenceInv == SequenceTypes /\ (AllMissed \/ (Linked /\ Timed))

LEMMA Schedules ==
  /\ \A us \in Nat : ScheduleIn(us) \in Schedule /\ ScheduleAt(us) \in Schedule
  /\ \A us : /\ ScheduleIn(us).type = "ScheduleIn" /\ ScheduleIn(us).us = us
             /\ ScheduleAt(us).type = "ScheduleAt" /\ ScheduleAt(us).us = us
  /\ \A step \in Schedule : step.us \in Nat
BY DEF ScheduleIn, ScheduleAt, Schedule

LEMMA SequenceStarts == SequenceInit => SequenceInv
<1> SUFFICES ASSUME SequenceInit PROVE SequenceInv
  OBVIOUS
<1>1. stepList_ = <<>> /\ asked = <<>> /\ Len(<<>>) = 0 /\ <<>> \in Seq(Schedule)
  BY DEF SequenceInit
<1>2. SequenceTypes
  BY <1>1, Schedules, TimerSequenceAssumption DEF SequenceInit, SequenceTypes, Size
<1>3. Linked
  BY <1>1, Schedules DEF SequenceInit, Linked, Size
<1>4. Timed
  BY <1>1 DEF SequenceInit, Timed, ToCome, Size
<1> QED
  BY <1>2, <1>3, <1>4 DEF SequenceInv

(* A step more, asked for by rule: the one before it says so, or the first *)
(* step if there is none, and nothing else changes.                        *)
LEMMA PushKeeps ==
  ASSUME SequenceTypes, NEW d \in Nat, d <= MaxDelay,
         Push(ScheduleIn(d)), missed \subseteq missed',
         d = 0 \/ Size = 0 \/ stepListIdx_ < Size \/ Size + 1 \in missed',
         calling /\ stepListIdx_ < Size /\ dangling' => stepListIdx_ + 2 \in missed',
         IF Size = 0
         THEN firstStep_' = ScheduleIn(d) /\ stepList_' = <<ScheduleIn(0)>>
         ELSE /\ UNCHANGED firstStep_
              /\ stepList_' = Append([stepList_ EXCEPT ![Size] = ScheduleIn(d)], ScheduleIn(0))
  PROVE  SequenceTypes' /\ (Linked /\ Timed => Linked' /\ Timed')
<1> DEFINE before == [stepList_ EXCEPT ![Size] = ScheduleIn(d)]
<1>1. Len(stepList_) \in Nat /\ Len(asked) = Len(stepList_) /\ ScheduleIn(d) \in Schedule
      /\ ScheduleIn(0) \in Schedule
  BY Schedules DEF SequenceTypes, Size
<1>2. /\ asked' = Append(asked, ScheduleIn(d)) /\ asked' \in Seq(Schedule)
      /\ Len(asked') = Size + 1 /\ asked'[Size + 1] = ScheduleIn(d)
      /\ \A i \in 1 .. Size : asked'[i] = asked[i]
  BY <1>1, AppendProperties DEF Push, SequenceTypes, Size
<1>3. /\ stepList_' \in Seq(Schedule) /\ Len(stepList_') = Size + 1
      /\ stepList_'[Size + 1] = ScheduleIn(0)
      /\ Size > 0 => stepList_'[Size] = ScheduleIn(d)
      /\ \A i \in 1 .. Size - 1 : stepList_'[i] = stepList_[i]
  <2>1. CASE Size = 0
    <3>1. ASSUME NEW e \in Schedule
          PROVE  <<e>> \in Seq(Schedule) /\ Len(<<e>>) = 1 /\ <<e>>[1] = e
      OBVIOUS
    <3>2. stepList_' = <<ScheduleIn(0)>>
      BY <2>1
    <3>3. stepList_' \in Seq(Schedule) /\ Len(stepList_') = 1 /\ stepList_'[1] = ScheduleIn(0)
      BY <1>1, <3>1, <3>2
    <3>4. Size + 1 = 1 /\ 1 .. Size - 1 = {}
      BY <2>1
    <3> QED
      BY <2>1, <3>3, <3>4
  <2>2. CASE Size # 0
    <3>1. before \in Seq(Schedule) /\ Len(before) = Size /\ before[Size] = ScheduleIn(d)
          /\ \A i \in 1 .. Size - 1 : before[i] = stepList_[i]
      BY <1>1, <2>2, ExceptSeq DEF SequenceTypes, Size
    <3> HIDE DEF before
    <3> QED
      BY <1>1, <2>2, <3>1, AppendProperties DEF Size
  <2> QED
    BY <2>1, <2>2
<1>4. /\ UNCHANGED <<due, stepListIdx_, calling, since>> /\ Size < MaxSteps
      /\ dangling' \in {dangling, calling}
  BY DEF Push
<1>5. SequenceTypes'
  <2>1. (calling' => stepListIdx_' < MaxSteps) /\ (dangling' => calling')
    BY <1>4 DEF SequenceTypes
  <2>2. Len(asked') = Size' /\ Size' <= MaxSteps
    BY <1>1, <1>2, <1>3, <1>4, TimerSequenceAssumption DEF SequenceTypes, Size
  <2> QED
    BY <1>2, <1>3, <1>4, <2>1, <2>2 DEF SequenceTypes
<1>6. Size' = Size + 1 /\ Size \in Nat
  BY <1>1, <1>3 DEF Size
<1>7. ASSUME Linked, Timed PROVE Linked'
  <2>1. firstStep_'.type = "ScheduleIn" /\ (1 \notin missed' => asked'[1] = firstStep_')
    BY <1>2, <1>6, <1>7, Schedules DEF Linked
  <2>2. \A i \in 1 .. Size : i + 1 \notin missed' => asked'[i + 1] = stepList_'[i]
    BY <1>2, <1>3, <1>6, <1>7 DEF Linked
  <2>3. \A i \in 1 .. Size' : asked'[i].type = "ScheduleIn" => asked'[i].us <= MaxDelay
    BY <1>2, <1>6, <1>7, Schedules DEF Linked
  <2> QED
    BY <1>3, <1>6, <2>1, <2>2, <2>3 DEF Linked
<1>8. ASSUME Linked, Timed PROVE Timed'
  <2>1. stepListIdx_ < Size => asked'[stepListIdx_ + 1] = asked[stepListIdx_ + 1]
    BY <1>1, <1>2 DEF SequenceTypes, Size
  <2>2. dangling' => stepListIdx_ + 2 \in missed'
    BY <1>4, <1>8 DEF Timed, SequenceTypes
  <2>3. ToCome' /\ stepListIdx_ < Size => ToCome
    BY <1>4 DEF ToCome
  <2>4. stepListIdx_ = Size => ~calling /\ asked'[stepListIdx_ + 1] = ScheduleIn(d)
    BY <1>2, <1>6, <1>8 DEF Timed
  <2>5. stepListIdx_ = Size /\ ToCome' => d = 0 \/ Size = 0
    BY <1>4, <1>6 DEF ToCome
  <2>6. stepListIdx_ = Size /\ ToCome' /\ due # None => InTime(ScheduleIn(d), since, due)
    BY <1>8, <2>5, Schedules, TimerSequenceAssumption
    DEF Timed, Linked, InTime, SequenceTypes
  <2>7. stepListIdx_ \in Nat /\ stepListIdx_ <= Size
    BY <1>8 DEF Timed, SequenceTypes
  <2>9. CASE stepListIdx_ < Size
    BY <1>4, <1>6, <1>8, <2>1, <2>2, <2>3, <2>7, <2>9 DEF Timed
  <2>10. CASE stepListIdx_ = Size
    BY <1>4, <1>6, <1>8, <2>2, <2>4, <2>5, <2>6, <2>10 DEF Timed
  <2> QED
    BY <1>6, <2>7, <2>9, <2>10
<1> QED
  BY <1>5, <1>7, <1>8

LEMMA AddKeeps ==
  ASSUME SequenceInv, Add \/ \E d \in Delays : DelayUs(d)
  PROVE  SequenceInv'
<1>1. Size \in Nat /\ stepListIdx_ \in Nat /\ missed \subseteq missed'
  BY DEF SequenceInv, SequenceTypes, Size, Add, DelayUs, Misses
<1>2. ASSUME NEW d \in Delays, DelayUs(d)
      PROVE  SequenceTypes' /\ (Linked /\ Timed => Linked' /\ Timed')
  <2>1. d \in Nat /\ d <= MaxDelay
    BY TimerSequenceAssumption
  <2>2. Size = 0 \/ stepListIdx_ < Size \/ Size + 1 \in missed'
    BY <1>1, <1>2 DEF DelayUs, Misses
  <2>3. stepListIdx_ < Size /\ dangling' => stepListIdx_ + 2 \in missed'
    BY <1>1, <1>2 DEF DelayUs, Misses
  <2> QED
    BY <1>1, <1>2, <2>1, <2>2, <2>3, PushKeeps DEF DelayUs, SequenceInv
<1>3. CASE Add /\ Linked
  <2>1. Size \in Nat /\ stepList_ \in Seq(Schedule)
    BY DEF SequenceInv, SequenceTypes, Size
  <2>2. Size # 0 => [stepList_ EXCEPT ![Size] = ScheduleIn(0)] = stepList_
    BY <1>3, <2>1 DEF Linked, Size
  <2>3. Size = 0 => Append(stepList_, ScheduleIn(0)) = <<ScheduleIn(0)>>
    <3>1. Size = 0 => stepList_ = <<>>
      BY <2>1, EmptySeq DEF Size
    <3>2. Append(<<>>, ScheduleIn(0)) = <<ScheduleIn(0)>>
      OBVIOUS
    <3> QED
      BY <3>1, <3>2
  <2>4. firstStep_' = firstStep_ /\ (Size = 0 => firstStep_' = ScheduleIn(0))
    BY <1>3 DEF Add, Linked
  <2>5. 0 \in Nat /\ 0 <= MaxDelay
    BY TimerSequenceAssumption
  <2>6. dangling' => stepListIdx_ + 2 \in missed'
    BY <1>3 DEF Add, Misses
  <2> QED
    BY <1>1, <1>3, <2>2, <2>3, <2>4, <2>5, <2>6, PushKeeps DEF Add, SequenceInv, AllMissed
<1>4. CASE Add /\ AllMissed
  <2>1. Size' = Size + 1 /\ Size + 1 <= MaxSteps /\ stepList_' \in Seq(Schedule)
        /\ asked' \in Seq(Schedule) /\ Len(asked') = Size + 1
    BY <1>1, <1>4, Schedules, AppendProperties, TimerSequenceAssumption
    DEF Add, Push, SequenceInv, SequenceTypes, Size
  <2>2. /\ UNCHANGED <<due, firstStep_, stepListIdx_, calling, since>>
        /\ dangling' \in {dangling, calling}
    BY <1>4 DEF Add, Push
  <2> QED
    BY <1>1, <1>4, <2>1, <2>2 DEF SequenceInv, SequenceTypes, AllMissed
<1> QED
  BY <1>1, <1>2, <1>3, <1>4 DEF SequenceInv, AllMissed

LEMMA StartAtUsKeeps ==
  ASSUME SequenceInv, NEW t \in Times, StartAtUs(t)
  PROVE  SequenceInv'
<1>1. /\ t \in Nat /\ ScheduleAt(t) \in Schedule /\ Size >= 1
      /\ asked' = [asked EXCEPT ![Size] = ScheduleAt(t)]
      /\ UNCHANGED <<due, firstStep_, stepListIdx_, calling, dangling, since>>
  BY TimerSequenceAssumption, Schedules DEF StartAtUs
<1>2. Size \in Nat /\ Len(asked) = Size /\ Size <= MaxSteps /\ stepListIdx_ \in Nat
      /\ stepList_ \in Seq(Schedule) /\ asked \in Seq(Schedule)
  BY DEF SequenceInv, SequenceTypes, Size
<1>3. missed \subseteq missed' /\ (Size = 1 \/ stepListIdx_ >= Size - 1 => Size \in missed')
  BY DEF StartAtUs, Misses
<1>4. /\ stepList_' \in Seq(Schedule) /\ Size' = Size
      /\ Size >= 2 => stepList_'[Size - 1] = ScheduleAt(t)
      /\ \A i \in 1 .. Size : i # Size - 1 => stepList_'[i] = stepList_[i]
  <2>1. CASE Size >= 2
    <3>1. stepList_' = [stepList_ EXCEPT ![Size - 1] = ScheduleAt(t)] /\ Size - 1 \in 1 .. Size
      BY <1>2, <2>1 DEF StartAtUs
    <3> QED
      BY <1>1, <1>2, <2>1, <3>1, ExceptSeq DEF Size
  <2>2. CASE ~(Size >= 2)
    BY <1>2, <2>2 DEF StartAtUs, Size
  <2> QED
    BY <2>1, <2>2
<1>5. /\ asked' \in Seq(Schedule) /\ Len(asked') = Size /\ asked'[Size] = ScheduleAt(t)
      /\ \A i \in 1 .. Size : i # Size => asked'[i] = asked[i]
  BY <1>1, <1>2, ExceptSeq
<1>6. SequenceTypes'
  BY <1>1, <1>2, <1>4, <1>5 DEF SequenceInv, SequenceTypes
<1>7. ASSUME Linked PROVE Linked'
  <2>1. firstStep_'.type = "ScheduleIn" /\ stepList_'[Size] = ScheduleIn(0)
    BY <1>1, <1>2, <1>4, <1>7 DEF Linked
  <2>2. 1 \notin missed' => asked'[1] = firstStep_'
    BY <1>1, <1>2, <1>3, <1>5, <1>7 DEF Linked
  <2>3. \A i \in 1 .. Size - 1 : i + 1 \notin missed' => asked'[i + 1] = stepList_'[i]
    BY <1>1, <1>2, <1>3, <1>4, <1>5, <1>7 DEF Linked
  <2>4. \A i \in 1 .. Size : asked'[i].type = "ScheduleIn" => asked'[i].us <= MaxDelay
    BY <1>2, <1>5, <1>7, Schedules DEF Linked
  <2> QED
    BY <1>1, <1>2, <1>4, <2>1, <2>2, <2>3, <2>4 DEF Linked
<1>8. ASSUME Timed PROVE Timed'
  <2>1. ToCome' => ToCome /\ asked'[stepListIdx_ + 1] = asked[stepListIdx_ + 1]
    BY <1>1, <1>2, <1>3, <1>4, <1>5 DEF ToCome
  <2> QED
    BY <1>1, <1>3, <1>4, <1>8, <2>1 DEF Timed
<1> QED
  BY <1>3, <1>6, <1>7, <1>8 DEF SequenceInv, AllMissed

(* Start() runs the timer for the step at stepListIdx_: for the first one  *)
(* what firstStep_ says of it, and for a later one, which was added when   *)
(* the sequence had come to its end, anything will do.                     *)
LEMMA StartKeeps ==
  ASSUME SequenceInv, Start
  PROVE  SequenceInv'
<1>1. /\ since' = IF calling THEN since ELSE 0
      /\ due' = IF stepListIdx_ < Size THEN firstStep_.us ELSE due
      /\ UNCHANGED <<firstStep_, stepList_, asked, stepListIdx_, calling, dangling>>
  BY DEF Start, ScheduleNextFromStep, lists
<1>2. /\ missed \subseteq missed'
      /\ due # None /\ ~calling /\ stepListIdx_ < Size => stepListIdx_ + 1 \in missed'
  BY DEF Start, Misses
<1>3. /\ firstStep_.us \in Nat /\ 0 \in 0 .. MaxDelay /\ 0 # None /\ firstStep_.us # None
      /\ Size' = Size /\ Size \in Nat /\ stepListIdx_ \in Nat
  BY <1>1, Schedules, TimerSequenceAssumption DEF SequenceInv, SequenceTypes, Size
<1>4. SequenceTypes'
  BY <1>1, <1>3 DEF SequenceInv, SequenceTypes
<1>5. ASSUME Linked PROVE Linked'
  <2>1. Size = 0 => due' = None
    BY <1>1, <1>3, <1>5 DEF Linked
  <2> QED
    BY <1>1, <1>2, <1>3, <1>5, <2>1 DEF Linked
<1>6. ASSUME Linked, Timed PROVE Timed'
  <2>1. ToCome' => ToCome
    BY <1>1, <1>2, <1>3 DEF ToCome
  <2>2. CASE calling
    BY <1>1, <1>2, <1>3, <1>6, <2>1, <2>2 DEF Timed
  <2>3. CASE ~calling /\ ToCome'
    <3>1. due = None /\ due' = firstStep_.us /\ stepListIdx_ < Size
          /\ stepListIdx_ + 1 \notin missed
      BY <1>1, <1>2, <1>3, <2>3 DEF ToCome
    <3>2. asked[stepListIdx_ + 1] \in {firstStep_, ScheduleIn(0)}
      BY <1>3, <1>6, <2>3, <3>1 DEF Linked, Timed, ToCome
    <3>3. InTime(asked[stepListIdx_ + 1], 0, firstStep_.us)
      BY <1>3, <1>6, <3>2, Schedules DEF Linked, InTime
    <3> QED
      BY <1>1, <1>2, <1>3, <1>6, <2>3, <3>1, <3>3 DEF Timed
  <2>4. CASE ~calling /\ ~ToCome'
    BY <1>1, <1>2, <1>3, <1>6, <2>4 DEF Timed
  <2> QED
    BY <2>2, <2>3, <2>4
<1> QED
  BY <1>2, <1>4, <1>5, <1>6 DEF SequenceInv, AllMissed

(* Reset(), from inside of a step or not.                                  *)
LEMMA ResetKeeps ==
  ASSUME SequenceInv, Reset
  PROVE  SequenceInv'
<1>1. stepList_' = <<>> /\ asked' = <<>> /\ Len(<<>>) = 0 /\ <<>> \in Seq(Schedule)
  BY DEF Reset
<1>2. /\ due' = None /\ since' = None /\ stepListIdx_' = 0 /\ firstStep_' = ScheduleIn(0)
      /\ calling' = calling /\ dangling' = calling
      /\ missed' = IF calling THEN 1 .. MaxSteps ELSE {}
  BY DEF Reset
<1>3. SequenceTypes'
  BY <1>1, <1>2, Schedules, TimerSequenceAssumption DEF SequenceInv, SequenceTypes, Size
<1>4. CASE calling
  BY <1>2, <1>3, <1>4 DEF SequenceInv, AllMissed
<1>5. CASE ~calling
  <2>1. Linked'
    BY <1>1, <1>2, Schedules DEF Linked, Size
  <2>2. Timed'
    BY <1>1, <1>2, <1>5 DEF Timed, ToCome, Size
  <2> QED
    BY <1>3, <2>1, <2>2 DEF SequenceInv
<1> QED
  BY <1>4, <1>5 DEF SequenceInv, SequenceTypes

(* Evm: the timer is due.                                                  *)
LEMMA StepStartsKeeps ==
  ASSUME SequenceInv, StepStarts
  PROVE  SequenceInv'
<1>1. /\ due = 0 /\ due' = None /\ due # None /\ ~calling /\ calling' = (stepListIdx_ < Size)
      /\ UNCHANGED <<firstStep_, stepList_, asked, stepListIdx_, dangling, since, missed>>
  BY TimerSequenceAssumption DEF StepStarts, lists
<1>2. Size' = Size /\ Size \in Nat /\ stepListIdx_ \in Nat /\ Size <= MaxSteps
  BY <1>1 DEF SequenceInv, SequenceTypes, Size
<1>3. SequenceTypes'
  <2>1. ~dangling'
    BY <1>1 DEF SequenceInv, SequenceTypes
  <2>2. stepListIdx_ < Size => stepListIdx_' < MaxSteps
    BY <1>1, <1>2, TimerSequenceAssumption
  <2> QED
    BY <1>1, <1>2, <2>1, <2>2 DEF SequenceInv, SequenceTypes
<1>4. ASSUME Linked PROVE Linked'
  BY <1>1, <1>2, <1>4 DEF Linked
<1>5. ASSUME Timed PROVE Timed'
  BY <1>1, <1>2, <1>5 DEF Timed, ToCome, SequenceInv, SequenceTypes
<1> QED
  BY <1>1, <1>3, <1>4, <1>5 DEF SequenceInv, AllMissed

(* The step returns, and the timer runs for what it says of the next one.  *)
LEMMA StepReturnsKeeps ==
  ASSUME SequenceInv, StepReturns
  PROVE  SequenceInv'
<1> DEFINE step == stepList_[stepListIdx_ + 1]
<1>1. calling /\ stepListIdx_ \in Nat /\ Size \in Nat /\ missed' = missed
  BY DEF StepReturns, SequenceInv, SequenceTypes, Size
<1>2. /\ stepListIdx_' = stepListIdx_ + 1 /\ ~calling' /\ ~dangling' /\ since' = 0
      /\ UNCHANGED <<firstStep_, stepList_, asked>>
  BY DEF StepReturns, lists
<1>3. ~dangling => due' = IF stepListIdx_ + 1 < Size THEN step.us ELSE due
  BY <1>2 DEF StepReturns, ScheduleNextFromStep
<1>4. dangling => due' = due \/ due' \in Nat
  BY TimerSequenceAssumption, Schedules DEF StepReturns, ScheduleNextFromStep
<1>5. stepListIdx_ + 1 < Size => step \in Schedule /\ step.us \in Nat
  <2>1. stepListIdx_ + 1 < Size => stepListIdx_ + 1 \in 1 .. Len(stepList_)
    BY <1>1 DEF Size
  <2> QED
    BY <2>1, ElementOfSeq, Schedules DEF SequenceInv, SequenceTypes
<1>6. Size' = Size /\ 0 # None
  BY <1>2, TimerSequenceAssumption DEF Size
<1>7. SequenceTypes'
  <2>1. due' \in Nat \cup {None}
    BY <1>3, <1>4, <1>5 DEF SequenceInv, SequenceTypes
  <2> QED
    BY <1>1, <1>2, <1>6, <2>1, TimerSequenceAssumption DEF SequenceInv, SequenceTypes
<1>8. ASSUME Linked, Timed PROVE Linked'
  <2>1. Size # 0
    BY <1>1, <1>8 DEF Timed
  <2> QED
    BY <1>1, <1>2, <1>6, <1>8, <2>1 DEF Linked
<1>9. ASSUME Linked, Timed PROVE Timed'
  <2>1. ToCome' => stepListIdx_ + 1 < Size /\ stepListIdx_ + 2 \notin missed
    BY <1>1, <1>2, <1>6 DEF ToCome
  <2>2. ToCome' => ~dangling /\ asked[stepListIdx_ + 2] = step
    BY <1>1, <1>9, <2>1 DEF Linked, Timed
  <2> HIDE DEF step
  <2>3. ToCome' => due' = step.us /\ step \in Schedule /\ step.us \in Nat /\ step.us # None
    BY <1>3, <1>5, <2>1, <2>2, TimerSequenceAssumption
  <2>4. ToCome' => InTime(step, 0, step.us)
    BY <2>3 DEF InTime
  <2>5. stepListIdx_' + 1 = stepListIdx_ + 2
    BY <1>1, <1>2
  <2>6. stepListIdx_ < Size
    BY <1>1, <1>9 DEF Timed
  <2> QED
    BY <1>1, <1>2, <1>6, <2>1, <2>2, <2>3, <2>4, <2>5, <2>6 DEF Timed
<1> QED
  BY <1>1, <1>7, <1>8, <1>9 DEF SequenceInv, AllMissed

(* Time passes for the timer, for what was asked and for the list alike.   *)
LEMMA AllLaterIs ==
  ASSUME NEW s \in Seq(Schedule)
  PROVE  /\ AllLater(s) \in Seq(Schedule) /\ Len(AllLater(s)) = Len(s)
         /\ \A i \in 1 .. Len(s) : /\ AllLater(s)[i] = LaterAt(s[i])
                                   /\ AllLater(s)[i] \in Schedule
<1>1. Len(s) \in Nat /\ DOMAIN s = 1 .. Len(s) /\ \A i \in 1 .. Len(s) : s[i] \in Schedule
  BY LenProperties, ElementOfSeq
<1>2. ASSUME NEW step \in Schedule PROVE LaterAt(step) \in Schedule
  BY DEF LaterAt, Later, Schedule
<1>3. AllLater(s) = [i \in 1 .. Len(s) |-> LaterAt(s[i])]
  BY <1>1 DEF AllLater
<1>4. \A i \in 1 .. Len(s) : LaterAt(s[i]) \in Schedule
  BY <1>1, <1>2
<1> QED
  BY <1>1, <1>3, <1>4

LEMMA LaterAtIs ==
  ASSUME NEW step \in Schedule
  PROVE  /\ LaterAt(step).type = step.type
         /\ step.type = "ScheduleIn" => LaterAt(step) = step
         /\ step.type # "ScheduleIn" => LaterAt(step).us = Later(step.us)
BY DEF LaterAt, Schedule

LEMMA SequenceTickKeeps ==
  ASSUME SequenceInv, SequenceTick
  PROVE  SequenceInv'
<1>1. /\ due' = IF due = None THEN None ELSE Later(due)
      /\ stepList_' = AllLater(stepList_) /\ asked' = AllLater(asked)
      /\ since' = IF since = None \/ since = MaxDelay THEN since ELSE since + 1
      /\ UNCHANGED <<firstStep_, stepListIdx_, calling, dangling, missed>>
  BY DEF SequenceTick
<1>2. Size' = Size /\ Size \in Nat /\ Len(asked) = Size /\ stepListIdx_ \in Nat
  BY <1>1, AllLaterIs DEF SequenceInv, SequenceTypes, Size
<1>3. \A i \in 1 .. Size : /\ stepList_'[i] = LaterAt(stepList_[i])
                           /\ asked'[i] = LaterAt(asked[i])
                           /\ asked[i] \in Schedule
  BY <1>1, <1>2, AllLaterIs, ElementOfSeq DEF SequenceInv, SequenceTypes, Size
<1>4. due # None => due \in Nat /\ due' \in Nat /\ due' # None
                    /\ due' = IF due = 0 THEN 0 ELSE due - 1
  BY <1>1, TimerSequenceAssumption DEF SequenceInv, SequenceTypes, Later
<1>5. since # None => since \in 0 .. MaxDelay /\ since' \in 0 .. MaxDelay /\ since' # None
                      /\ since' = IF since = MaxDelay THEN since ELSE since + 1
  BY <1>1, TimerSequenceAssumption DEF SequenceInv, SequenceTypes
<1>6. SequenceTypes'
  BY <1>1, <1>2, <1>4, <1>5, AllLaterIs DEF SequenceInv, SequenceTypes
<1>7. ASSUME Linked PROVE Linked'
  <2>1. LaterAt(ScheduleIn(0)) = ScheduleIn(0) /\ LaterAt(firstStep_) = firstStep_
    BY <1>7, LaterAtIs, Schedules DEF Linked, SequenceInv, SequenceTypes
  <2>2. \A i \in 1 .. Size : asked'[i].type = "ScheduleIn" => asked'[i].us <= MaxDelay
    BY <1>3, <1>7, LaterAtIs DEF Linked
  <2>3. \A i \in 1 .. Size - 1 : i + 1 \notin missed => asked'[i + 1] = stepList_'[i]
    BY <1>2, <1>3, <1>7 DEF Linked
  <2> QED
    BY <1>1, <1>2, <1>3, <1>7, <2>1, <2>2, <2>3 DEF Linked
<1>8. ASSUME Linked, Timed PROVE Timed'
  <2> DEFINE rule == asked[stepListIdx_ + 1]
             later == asked'[stepListIdx_ + 1]
  <2>1. ToCome' = ToCome
    BY <1>1, <1>2 DEF ToCome
  <2>2. CASE ~ToCome
    BY <1>1, <1>2, <1>4, <1>5, <1>8, <2>1, <2>2 DEF Timed
  <2>3. CASE ToCome
    <3>1. stepListIdx_ + 1 \in 1 .. Size
      BY <1>2, <2>3 DEF ToCome
    <3>2. rule \in Schedule /\ later = LaterAt(rule) /\ rule.us \in Nat
          /\ (rule.type = "ScheduleIn" => rule.us <= MaxDelay)
      BY <1>3, <1>8, <3>1, Schedules DEF Linked
    <3>3. /\ later.type = rule.type
          /\ rule.type = "ScheduleIn" => later = rule
          /\ rule.type # "ScheduleIn" => later.us = IF rule.us = 0 THEN 0 ELSE rule.us - 1
      BY <3>2, LaterAtIs DEF Later
    <3>4. rule = ScheduleIn(0) => later = ScheduleIn(0)
      BY <3>3, Schedules
    <3>5. due # None \/ calling => since # None
      BY <1>8 DEF Timed
    <3>6. ASSUME since # None, NEW soon \in Nat, NEW sooner \in Nat,
                 sooner = IF soon = 0 THEN 0 ELSE soon - 1, InTime(rule, since, soon)
          PROVE  InTime(later, since', sooner)
      <4> HIDE DEF rule, later
      <4> QED
        BY <1>5, <3>2, <3>3, <3>6, TimerSequenceAssumption DEF InTime
    <3>7. due # None /\ ~calling => InTime(rule, since, due)
      BY <1>8, <2>3 DEF Timed
    <3>8. calling => InTime(rule, since, 0)
      BY <1>8, <2>3 DEF Timed
    <3>9. due # None /\ ~calling => InTime(later, since', due')
      BY <1>4, <3>5, <3>6, <3>7
    <3>10. calling => InTime(later, since', 0)
      BY <3>5, <3>6, <3>8
    <3> QED
      BY <1>1, <1>2, <1>4, <1>5, <1>8, <2>1, <2>3, <3>4, <3>9, <3>10 DEF Timed
  <2> QED
    BY <2>2, <2>3
<1> QED
  BY <1>1, <1>6, <1>7, <1>8 DEF SequenceInv, AllMissed

(* A step starts no earlier than it was asked to, by a delay or for a      *)
(* time, however the sequence was built and whenever it was started: for   *)
(* any delays and times and any program.  A call that comes too late, that *)
(* moves the list inside of a step, or that starts the sequence twice      *)
(* takes that from the one step it concerns and from no other.             *)
THEOREM StepsStartAsAsked == SequenceSpec => []StartsAsAsked
<1>1. SequenceInv /\ [SequenceNext]_sequenceVars => SequenceInv'
  <2> SUFFICES ASSUME SequenceInv, [SequenceNext]_sequenceVars PROVE SequenceInv'
    OBVIOUS
  <2>1. CASE UNCHANGED sequenceVars
    BY <2>1 DEF sequenceVars, lists, SequenceInv, SequenceTypes, Linked, Timed, ToCome, AllMissed,
                InTime, Size
  <2>2. CASE SequenceNext
    BY <2>2, AddKeeps, StartAtUsKeeps, StartKeeps, ResetKeeps, StepStartsKeeps,
       StepReturnsKeeps, SequenceTickKeeps DEF SequenceNext
  <2> QED
    BY <2>1, <2>2
<1>2. SequenceInv => StartsAsAsked
  <2> SUFFICES ASSUME SequenceInv, calling, stepListIdx_ + 1 \notin missed PROVE StartsAsAsked
    BY DEF StartsAsAsked
  <2> DEFINE rule == asked[stepListIdx_ + 1]
  <2>1. stepListIdx_ + 1 \in 1 .. MaxSteps
    BY TimerSequenceAssumption DEF SequenceInv, SequenceTypes
  <2>2. Linked /\ Timed
    BY <2>1 DEF SequenceInv, AllMissed
  <2>3. stepListIdx_ + 1 \in 1 .. Len(asked) /\ InTime(rule, since, 0) /\ since # None
    BY <2>1, <2>2 DEF SequenceInv, SequenceTypes, Timed, ToCome, Size
  <2>4. rule.us \in Nat /\ since \in Nat
    BY <2>3, ElementOfSeq, Schedules DEF SequenceInv, SequenceTypes
  <2> QED
    BY <2>3, <2>4 DEF StartsAsAsked, InTime
<1> QED
  BY SequenceStarts, <1>1, <1>2, PTL DEF SequenceSpec

-----------------------------------------------------------------------------
(* Shell, for any lines, any commands, and a history of any size.          *)

Parts == [word : Seq(STRING), args : Seq(Seq(STRING)), num : Int, quoted : BOOLEAN]

NoQuotes == \A cmds \in Lines : \A i \in DOMAIN cmds : ~cmds[i].quoted

(* Parts without a quote, and lines of them.                               *)
Plain == {part \in Parts : ~part.quoted}
PlainLines == Seq(Plain) \ {<<>>}
EvalCalls == [input : PlainLines, todo : Seq(Plain), fresh : BOOLEAN, internal : BOOLEAN]
Entries == [num : Int, cmd : PlainLines]

Repeating(part) == part.word \in Repeats /\ part.args = <<>>

(* A line of which nothing repeats another.                                *)
RepeatFree(cmds) ==
  cmds[1].num = NoNumber /\ \A part \in ToSet(cmds) : ~Repeating(part)

(* A call of Eval() that is going to be remembered has nothing behind it   *)
(* that repeats.                                                           *)
EvalSound(eval) ==
  /\ ToSet(eval.todo) \subseteq ToSet(eval.input)
  /\ eval.fresh => eval.todo = eval.input
  /\ ~eval.fresh /\ ~eval.internal =>
       /\ eval.input[1].num = NoNumber
       /\ \A part \in ToSet(eval.input) : Repeating(part) => part \in ToSet(eval.todo)

(* The inductive invariant: what is remembered does not repeat, so what is *)
(* repeated returns, and it is not the line that repeats it.               *)
ShellInv ==
  /\ historyList_ \in Seq(Entries)
  /\ \A i \in DOMAIN historyList_ : RepeatFree(historyList_[i].cmd)
  /\ DOMAIN cmdLookup_ \cap internalCommandSet_ = {}
  /\ evals \in Seq(EvalCalls) /\ Len(evals) <= 2
  /\ \A i \in DOMAIN evals : EvalSound(evals[i])
  /\ Len(evals) = 2 => ~RepeatFree(evals[1].input) /\ RepeatFree(evals[2].input)

LEMMA LinesArePlain ==
  ASSUME NoQuotes
  PROVE  Lines \subseteq PlainLines
<1> SUFFICES ASSUME NEW cmds \in Lines PROVE cmds \in PlainLines
  OBVIOUS
<1>1. cmds \in Seq(Parts) /\ cmds # <<>>
  BY ShellAssumption DEF Parts
<1>2. \A i \in 1 .. Len(cmds) : cmds[i] \in Plain
  BY <1>1 DEF NoQuotes, Plain
<1> QED
  BY <1>1, <1>2 DEF PlainLines

LEMMA EvalIsSound ==
  ASSUME NEW cmds \in PlainLines
  PROVE  /\ Eval(cmds) \in EvalCalls /\ EvalSound(Eval(cmds))
         /\ Eval(cmds).input = cmds
  BY DEF Eval, EvalCalls, PlainLines, EvalSound

LEMMA DoneIsSound ==
  ASSUME NEW eval \in EvalCalls
  PROVE  Done(eval) \in EvalCalls /\ EvalSound(Done(eval)) /\ Done(eval).input = eval.input
<1>1. ToSet(<<>>) = {}
  BY DEF ToSet
<1>2. Done(eval) \in EvalCalls
  <2>1. <<>> \in Seq(Plain)
    BY EmptySeq
  <2> QED
    BY <2>1 DEF Done, EvalCalls
<1>3. /\ Done(eval).input = eval.input /\ Done(eval).todo = <<>>
      /\ ~Done(eval).fresh /\ Done(eval).internal
  BY DEF Done, EvalCalls
<1> QED
  BY <1>1, <1>2, <1>3 DEF EvalSound

LEMMA OneOrTwo ==
  ASSUME NEW n \in Nat \ {0}, n <= 2
  PROVE  n \in 1 .. 2 /\ n - 1 <= 2 /\ n - 1 # 2
OBVIOUS

LEMMA TopIsCall ==
  ASSUME ShellInv, evals # <<>>
  PROVE  /\ Len(evals) \in 1 .. 2
         /\ Top = evals[Len(evals)] /\ Top \in EvalCalls /\ EvalSound(Top)
<1>1. evals \in Seq(EvalCalls) /\ Len(evals) <= 2
  BY DEF ShellInv
<1>2. Len(evals) \in 1 .. 2
  <2>1. Len(evals) \in Nat \ {0} /\ Len(evals) <= 2
    BY <1>1, EmptySeq
  <2> QED
    BY <2>1, OneOrTwo
<1> QED
  BY <1>1, <1>2, ElementOfSeq, LenProperties DEF ShellInv, Top, Last

(* The innermost call goes on.                                             *)
LEMMA TopGoesOn ==
  ASSUME ShellInv, evals # <<>>, NEW eval \in EvalCalls, EvalSound(eval),
         eval.input = Top.input \/ Len(evals) = 1,
         evals' = [evals EXCEPT ![Len(evals)] = eval],
         UNCHANGED <<cmdLookup_, historyList_>>
  PROVE  ShellInv'
<1>1. Len(evals) \in 1 .. 2 /\ Top = evals[Len(evals)]
  BY TopIsCall
<1>2. /\ evals' \in Seq(EvalCalls) /\ Len(evals') = Len(evals)
      /\ \A i \in 1 .. Len(evals) : evals'[i] = IF i = Len(evals) THEN eval ELSE evals[i]
  BY <1>1, ExceptSeq DEF ShellInv
<1>3. DOMAIN evals = 1 .. Len(evals) /\ DOMAIN evals' = 1 .. Len(evals)
  BY <1>2, LenProperties DEF ShellInv
<1>4. \A i \in DOMAIN evals' : EvalSound(evals'[i])
  BY <1>2, <1>3 DEF ShellInv
<1>5. Len(evals) = 2 => evals'[1] = evals[1] /\ evals'[2].input = evals[2].input
  BY <1>1, <1>2
<1> QED
  BY <1>1, <1>2, <1>4, <1>5 DEF ShellInv

LEMMA TwoCalls ==
  ASSUME NEW outer, NEW inner
  PROVE  <<>> \o <<outer>> \o <<inner>> = <<outer, inner>>
<1> DEFINE S == {outer, inner}
<1>1. <<outer>> \in Seq(S) /\ <<inner>> \in Seq(S) /\ <<outer, inner>> \in Seq(S)
  OBVIOUS
<1>2. <<>> \o <<outer>> = <<outer>>
  BY <1>1, ConcatEmptySeq
<1>3. <<outer>> \o <<inner>> = Append(<<outer>>, inner)
  BY <1>1, AppendIsConcat
<1>4. Append(<<outer>>, inner) = <<outer, inner>>
  <2>1. /\ Append(<<outer>>, inner) \in Seq(S) /\ Len(Append(<<outer>>, inner)) = 2
        /\ Append(<<outer>>, inner)[1] = outer /\ Append(<<outer>>, inner)[2] = inner
    BY <1>1, AppendProperties
  <2> HIDE DEF S
  <2>2. Len(<<outer, inner>>) = 2 /\ <<outer, inner>>[1] = outer /\ <<outer, inner>>[2] = inner
    OBVIOUS
  <2>3. \A i \in 1 .. 2 : Append(<<outer>>, inner)[i] = <<outer, inner>>[i]
    BY <2>1, <2>2
  <2> QED
    BY <1>1, <2>1, <2>2, <2>3, SeqEqual
<1> QED
  BY <1>2, <1>3, <1>4

(* The one call goes on after it called another.                           *)
LEMMA RepeatKeeps ==
  ASSUME ShellInv, Len(evals) = 1, NEW eval \in EvalCalls, EvalSound(eval),
         ~RepeatFree(eval.input), Repeat(eval),
         UNCHANGED <<cmdLookup_, historyList_>>
  PROVE  ShellInv'
<1>1. Front(evals) = <<>>
  BY SubSeqEmpty DEF ShellInv, Front
<1>2. CASE historyList_ = <<>>
  <2>1. evals' = <<eval>>
    BY <1>1, <1>2 DEF Repeat
  <2> QED
    BY <2>1 DEF ShellInv
<1>3. CASE historyList_ # <<>>
  <2> DEFINE inner == Eval(Last(historyList_).cmd)
  <2>1. Len(historyList_) \in 1 .. Len(historyList_) /\ DOMAIN historyList_ = 1 .. Len(historyList_)
    BY <1>3, EmptySeq, LenProperties DEF ShellInv
  <2>2. Last(historyList_) \in Entries /\ RepeatFree(Last(historyList_).cmd)
    BY <2>1, ElementOfSeq DEF ShellInv, Last
  <2>3. inner \in EvalCalls /\ EvalSound(inner) /\ RepeatFree(inner.input)
    BY <2>2, EvalIsSound DEF Entries
  <2>4. evals' = <<eval, inner>>
    BY <1>1, <1>3, TwoCalls DEF Repeat
  <2> HIDE DEF inner
  <2> QED
    BY <2>3, <2>4 DEF ShellInv
<1> QED
  BY <1>2, <1>3

LEMMA EntryOfHistory ==
  ASSUME ShellInv, NEW i \in DOMAIN historyList_
  PROVE  historyList_[i].cmd \in PlainLines /\ RepeatFree(historyList_[i].cmd)
<1>1. historyList_[i] \in Entries
  BY LenProperties, ElementOfSeq DEF ShellInv
<1> QED
  BY <1>1 DEF ShellInv, Entries

LEMMA LineReceivedKeeps ==
  ASSUME NoQuotes, ShellInv, NEW cmds \in Lines, LineReceived(cmds)
  PROVE  ShellInv'
<1>1. Eval(cmds) \in EvalCalls /\ EvalSound(Eval(cmds))
  BY LinesArePlain, EvalIsSound
<1>2. evals' = <<Eval(cmds)>>
  BY DEF LineReceived
<1> QED
  BY <1>1, <1>2 DEF ShellInv, LineReceived

(* Only a line that was just received has a repeat at its front.           *)
LEMMA FrontOfFresh ==
  ASSUME ShellInv, evals # <<>>, Top.fresh
  PROVE  /\ Top.todo = Top.input /\ Top.todo \in PlainLines
         /\ Top.todo[1] \in Plain /\ Top.todo[1] \in ToSet(Top.input)
         /\ Repeating(Top.todo[1]) \/ Top.todo[1].num # NoNumber =>
              ~RepeatFree(Top.input) /\ Len(evals) = 1
<1>1. Top = evals[Len(evals)] /\ Top \in EvalCalls /\ EvalSound(Top) /\ Len(evals) \in 1 .. 2
  BY TopIsCall
<1>2. Top.todo = Top.input /\ Top.todo \in PlainLines
  BY <1>1 DEF EvalSound, EvalCalls
<1>3. 1 \in DOMAIN Top.todo /\ Top.todo[1] \in Plain
  BY <1>2, EmptySeq, LenProperties, ElementOfSeq DEF PlainLines
<1>4. Top.todo[1] \in ToSet(Top.input)
  BY <1>2, <1>3 DEF ToSet
<1>5. Repeating(Top.todo[1]) \/ Top.todo[1].num # NoNumber => ~RepeatFree(Top.input)
  BY <1>2, <1>4 DEF RepeatFree
<1>6. Len(evals) = 2 => RepeatFree(Top.input)
  BY <1>1 DEF ShellInv
<1> QED
  BY <1>1, <1>2, <1>3, <1>4, <1>5, <1>6

LEMMA LookForRepeatKeeps ==
  ASSUME ShellInv, LookForRepeat
  PROVE  ShellInv'
<1> DEFINE first == Top.todo[1]
           found == HistoryAt(first.num)
           Replaced(eval) == evals' = [evals EXCEPT ![Len(evals)] = eval]
           again == [Eval(historyList_[CHOOSE i \in found : TRUE].cmd) EXCEPT !.fresh = FALSE]
           on == [Top EXCEPT !.fresh = FALSE]
<1>1. evals # <<>> /\ Top.fresh /\ Len(evals) \in 1 .. 2
      /\ Top = evals[Len(evals)] /\ Top \in EvalCalls /\ EvalSound(Top)
  BY TopIsCall DEF LookForRepeat
<1>2. Top.todo = Top.input /\ first \in ToSet(Top.input)
      /\ (Repeating(first) \/ first.num # NoNumber => ~RepeatFree(Top.input) /\ Len(evals) = 1)
  BY <1>1, FrontOfFresh
<1>3. Done(Top) \in EvalCalls /\ EvalSound(Done(Top)) /\ Done(Top).input = Top.input
  BY <1>1, DoneIsSound
<1>4. UNCHANGED <<cmdLookup_, historyList_>>
  BY DEF LookForRepeat
<1>5. CASE Repeating(first) /\ Repeat(Done(Top))
  BY <1>2, <1>3, <1>4, <1>5, RepeatKeeps
<1>6. CASE first.num # NoNumber /\ found = {} /\ Replaced(Done(Top))
  BY <1>1, <1>2, <1>3, <1>4, <1>6, TopGoesOn
<1>7. CASE first.num # NoNumber /\ found # {} /\ Replaced(again)
  <2> DEFINE cmds == historyList_[CHOOSE i \in found : TRUE].cmd
  <2>1. (CHOOSE i \in found : TRUE) \in DOMAIN historyList_
    BY <1>7 DEF HistoryAt
  <2>2. cmds \in PlainLines /\ RepeatFree(cmds)
    BY <2>1, EntryOfHistory
  <2> HIDE DEF cmds
  <2>3. again = [Eval(cmds) EXCEPT !.fresh = FALSE]
    BY DEF cmds
  <2>4. again \in EvalCalls /\ EvalSound(again)
    BY <2>2, <2>3 DEF EvalSound, EvalCalls, PlainLines, Eval, RepeatFree
  <2> HIDE DEF again
  <2> QED
    BY <1>1, <1>2, <1>4, <1>7, <2>4, TopGoesOn
<1>8. CASE first.num = NoNumber /\ Replaced(on)
  <2>1. on \in EvalCalls /\ EvalSound(on) /\ on.input = Top.input
    BY <1>1, <1>2, <1>8 DEF EvalCalls, EvalSound
  <2>2. evals' = [evals EXCEPT ![Len(evals)] = on]
    BY <1>8
  <2> HIDE DEF on
  <2> QED
    BY <1>1, <1>4, <2>1, <2>2, TopGoesOn
<1>9. evals' = [evals EXCEPT ![Len(evals)].fresh = FALSE] => Replaced(on)
  BY <1>1
<1> QED
  BY <1>5, <1>6, <1>7, <1>8, <1>9 DEF LookForRepeat, IsInternal, Repeating, Repeats

LEMMA HeadAndRest ==
  ASSUME NEW S, NEW seq \in Seq(S), seq # <<>>
  PROVE  /\ Head(seq) \in S /\ Tail(seq) \in Seq(S)
         /\ Head(seq) \in ToSet(seq) /\ ToSet(seq) = {Head(seq)} \cup ToSet(Tail(seq))
<1>1. /\ DOMAIN seq = 1 .. Len(seq) /\ Len(seq) \in Nat \ {0}
      /\ Head(seq) \in S /\ Head(seq) = seq[1]
  BY EmptySeq, LenProperties, HeadTailProperties
<1>2. /\ Tail(seq) \in Seq(S) /\ DOMAIN Tail(seq) = 1 .. Len(seq) - 1
      /\ \A i \in 1 .. Len(seq) - 1 : Tail(seq)[i] = seq[i + 1]
  BY HeadTailProperties, LenProperties
<1>3. ASSUME NEW i \in DOMAIN seq, i # 1
      PROVE  i - 1 \in DOMAIN Tail(seq) /\ seq[i] = Tail(seq)[i - 1]
  BY <1>1, <1>2, <1>3
<1>4. ASSUME NEW i \in DOMAIN Tail(seq)
      PROVE  i + 1 \in DOMAIN seq /\ Tail(seq)[i] = seq[i + 1]
  BY <1>1, <1>2, <1>4
<1>5. 1 \in DOMAIN seq
  BY <1>1
<1> QED
  BY <1>1, <1>2, <1>3, <1>4, <1>5 DEF ToSet

LEMMA FrontOfSeq ==
  ASSUME NEW S, NEW seq \in Seq(S), seq # <<>>
  PROVE  /\ Front(seq) \in Seq(S) /\ Len(Front(seq)) = Len(seq) - 1
         /\ \A i \in DOMAIN Front(seq) : i \in DOMAIN seq /\ Front(seq)[i] = seq[i]
<1>1. Len(seq) \in Nat \ {0} /\ DOMAIN seq = 1 .. Len(seq)
  BY EmptySeq, LenProperties
<1>2. \A i \in 1 .. Len(seq) - 1 : seq[i] \in S
  BY <1>1, ElementOfSeq
<1>3. /\ Front(seq) \in Seq(S) /\ Len(Front(seq)) = Len(seq) - 1
      /\ \A i \in 1 .. Len(seq) - 1 : Front(seq)[i] = seq[i]
  BY <1>1, <1>2, SubSeqProperties DEF Front
<1> QED
  BY <1>1, <1>3, LenProperties

(* A part that repeats is the whole of a command that does.                *)
LEMMA OnlyRepeatsRepeat ==
  ASSUME ShellInv, NEW part \in Plain, NEW name \in Repeats, Invokes(part, name)
  PROVE  Repeating(part)
<1>1. name \in internalCommandSet_ /\ name \notin {<<"?">>, <<"help">>, <<"scope">>}
  BY DEF internalCommandSet_, Repeats
<1>2. part.word = name
  BY <1>1 DEF Invokes, Names, ShellInv
<1>3. Len(part.args) = 0
  BY <1>1, LenProperties DEF Invokes, ArgCount, InternalCount, AnyCount, Plain, Parts
<1>4. part.args = <<>>
  BY <1>3, EmptySeq DEF Plain, Parts
<1> QED
  BY <1>2, <1>4 DEF Repeating

LEMMA HistoryAddKeeps ==
  ASSUME ShellInv, NEW cmds \in PlainLines, RepeatFree(cmds), HistoryAdd(cmds)
  PROVE  /\ historyList_' \in Seq(Entries)
         /\ \A i \in DOMAIN historyList_' : RepeatFree(historyList_'[i].cmd)
<1> DEFINE Free == {entry \in Entries : RepeatFree(entry.cmd)}
<1>1. ASSUME NEW list \in Seq(Free)
      PROVE  list \in Seq(Entries) /\ \A i \in DOMAIN list : RepeatFree(list[i].cmd)
  BY LenProperties, ElementOfSeq, SeqMonotonic
<1>2. historyList_ \in Seq(Free)
  <2>1. \A i \in 1 .. Len(historyList_) : historyList_[i] \in Free
    BY LenProperties, ElementOfSeq DEF ShellInv
  <2> QED
    BY <2>1 DEF ShellInv
<1>3. \A num \in Int : [num |-> num, cmd |-> cmds] \in Free
  BY DEF Entries
<1>4. historyList_' \in Seq(Free)
  <2>1. CASE historyList_ = <<>>
    <3>1. [num |-> 1, cmd |-> cmds] \in Free /\ historyList_' = <<[num |-> 1, cmd |-> cmds]>>
      BY <1>3, <2>1 DEF HistoryAdd
    <3> HIDE DEF Free
    <3> QED
      BY <3>1
  <2>2. CASE historyList_ # <<>>
    <3> DEFINE num == (Last(historyList_).num + 1) % NumLimit
               kept == IF Len(historyList_) = MAX_HISTORY_SIZE THEN Tail(historyList_)
                       ELSE historyList_
    <3>1. Last(historyList_) \in Free
      <4>1. Len(historyList_) \in 1 .. Len(historyList_)
        BY <1>2, <2>2, EmptySeq, LenProperties
      <4> QED
        BY <1>2, <4>1, ElementOfSeq DEF Last
    <3>2. num \in Int
      BY <3>1, ShellAssumption DEF Entries
    <3>3. kept \in Seq(Free) /\ <<[num |-> num, cmd |-> cmds]>> \in Seq(Free)
      BY <1>2, <1>3, <2>2, <3>2, HeadTailProperties
    <3>4. historyList_' \in {historyList_, kept \o <<[num |-> num, cmd |-> cmds]>>}
      BY <2>2 DEF HistoryAdd
    <3> HIDE DEF kept, num, Free
    <3> QED
      BY <1>2, <3>3, <3>4, ConcatProperties
  <2> QED
    BY <2>1, <2>2
<1> QED
  BY <1>1, <1>4

LEMMA ExecutePartKeeps ==
  ASSUME ShellInv, ExecutePart
  PROVE  ShellInv'
<1> DEFINE part == Head(Top.todo)
           next == [Top EXCEPT !.todo = Tail(@), !.internal = DidInternal(Top, part)]
           repeats == \E name \in Repeats : Invokes(part, name)
<1>1. /\ evals # <<>> /\ ~Top.fresh /\ Top.todo # <<>>
      /\ Top = evals[Len(evals)] /\ Top \in EvalCalls /\ EvalSound(Top)
      /\ Len(evals) \in 1 .. 2
  BY TopIsCall DEF ExecutePart
<1>2. /\ part \in Plain /\ Tail(Top.todo) \in Seq(Plain)
      /\ part \in ToSet(Top.todo) /\ ToSet(Top.todo) = {part} \cup ToSet(Tail(Top.todo))
  BY <1>1, HeadAndRest DEF EvalCalls
<1>3. next \in EvalCalls
  BY <1>1, <1>2 DEF EvalCalls, DidInternal, IsInternal, Plain, Parts
<1>4. /\ next.input = Top.input /\ next.todo = Tail(Top.todo) /\ ~next.fresh
      /\ next.internal = DidInternal(Top, part)
  BY <1>1 DEF EvalCalls
<1>5. Repeating(part) => DidInternal(Top, part)
  BY <1>2 DEF DidInternal, IsInternal, Repeating, Plain, internalCommandSet_
<1> HIDE DEF next
<1>6. EvalSound(next)
  BY <1>1, <1>2, <1>4, <1>5 DEF EvalSound, DidInternal
<1>7. repeats => Repeating(part)
  BY <1>2, OnlyRepeatsRepeat
<1>8. Repeating(part) => ~RepeatFree(Top.input) /\ Len(evals) = 1
  BY <1>1, <1>2 DEF RepeatFree, EvalSound, ShellInv
<1>9. UNCHANGED <<cmdLookup_, historyList_>>
  BY DEF ExecutePart
<1>10. CASE repeats /\ Repeat(next)
  BY <1>3, <1>4, <1>6, <1>7, <1>8, <1>9, <1>10, RepeatKeeps
<1>11. CASE evals' = [evals EXCEPT ![Len(evals)] = next]
  BY <1>1, <1>3, <1>4, <1>6, <1>9, <1>11, TopGoesOn
<1> QED
  BY <1>10, <1>11 DEF ExecutePart, next

LEMMA EvalReturnsKeeps ==
  ASSUME ShellInv, EvalReturns
  PROVE  ShellInv'
<1>1. /\ evals # <<>> /\ ~Top.fresh /\ Top.todo = <<>>
      /\ Top = evals[Len(evals)] /\ Top \in EvalCalls /\ EvalSound(Top)
      /\ Len(evals) \in 1 .. 2
  BY TopIsCall DEF EvalReturns
<1>2. /\ evals' \in Seq(EvalCalls) /\ Len(evals') = Len(evals) - 1
      /\ \A i \in DOMAIN evals' : i \in DOMAIN evals /\ evals'[i] = evals[i]
  BY <1>1, FrontOfSeq DEF EvalReturns, ShellInv
<1>3. \A i \in DOMAIN evals' : EvalSound(evals'[i])
  BY <1>2 DEF ShellInv
<1>4. UNCHANGED cmdLookup_ /\ Len(evals') <= 2 /\ Len(evals') # 2
  <2>1. Len(evals) \in Nat \ {0} /\ Len(evals) <= 2
    BY <1>1
  <2>2. Len(evals) - 1 <= 2 /\ Len(evals) - 1 # 2
    BY <2>1, OneOrTwo
  <2> QED
    BY <1>2, <2>2 DEF EvalReturns
<1>5. CASE UNCHANGED historyList_
  BY <1>2, <1>3, <1>4, <1>5 DEF ShellInv
<1>6. CASE ~Top.internal /\ HistoryAdd(Top.input)
  <2>1. Top.input \in PlainLines /\ RepeatFree(Top.input)
    <3>1. ToSet(<<>>) = {}
      BY DEF ToSet
    <3> QED
      BY <1>1, <1>6, <3>1 DEF EvalSound, EvalCalls, RepeatFree
  <2>2. /\ historyList_' \in Seq(Entries)
        /\ \A i \in DOMAIN historyList_' : RepeatFree(historyList_'[i].cmd)
    BY <1>6, <2>1, HistoryAddKeeps
  <2> QED
    BY <1>2, <1>3, <1>4, <2>2 DEF ShellInv
<1> QED
  BY <1>5, <1>6 DEF EvalReturns

LEMMA CommandsKeep ==
  ASSUME ShellInv, NEW name,
         RemoveCommand(name) \/ \E n \in {AnyCount, 0} : AddCommand(name, n)
  PROVE  ShellInv'
<1>1. DOMAIN cmdLookup_' \cap internalCommandSet_ = {}
  BY DEF ShellInv, RemoveCommand, AddCommand
<1> QED
  BY <1>1 DEF ShellInv, RemoveCommand, AddCommand

(* A line is never evaluated inside of itself, for any lines without       *)
(* quotes, any commands that come and go, any scope, and a history of any  *)
(* size: "watch out for infinite loop on '.' being in the list".           *)
THEOREM RepeatsEnd ==
  ASSUME NoQuotes
  PROVE  ShellSpec => []NoEndlessRepeat
<1>1. ShellInit => ShellInv
  BY DEF ShellInit, ShellInv
<1>2. ShellInv /\ [ShellNext]_shellVars => ShellInv'
  <2> SUFFICES ASSUME ShellInv, [ShellNext]_shellVars PROVE ShellInv'
    OBVIOUS
  <2>1. CASE UNCHANGED shellVars
    BY <2>1 DEF shellVars, ShellInv
  <2>2. CASE ShellNext
    BY <2>2, LineReceivedKeeps, LookForRepeatKeeps, ExecutePartKeeps, EvalReturnsKeeps,
       CommandsKeep DEF ShellNext
  <2> QED
    BY <2>1, <2>2
<1>3. ShellInv => NoEndlessRepeat
  <2> SUFFICES ASSUME ShellInv, NEW i \in DOMAIN evals, NEW j \in DOMAIN evals, i # j
               PROVE  evals[i].input # evals[j].input
    BY DEF NoEndlessRepeat
  <2>1. Len(evals) \in Nat /\ Len(evals) <= 2 /\ DOMAIN evals = 1 .. Len(evals)
    BY LenProperties DEF ShellInv
  <2>2. i \in 1 .. Len(evals) /\ j \in 1 .. Len(evals)
    BY <2>1
  <2>3. i \in {1, 2} /\ j \in {1, 2} /\ Len(evals) = 2
    BY <2>1, <2>2
  <2> QED
    BY <2>3 DEF ShellInv
<1> QED
  BY <1>1, <1>2, <1>3, PTL DEF ShellSpec

-----------------------------------------------------------------------------
(* Pin, with USB and any other clients of it, for any pins and objects.    *)

Put(f, x, v) == [f EXCEPT ![x] = v]
NamesOf(pin, p) == {o \in Objects : pin[o] = p}
Named == [Objects -> Pins \cup {PIN_COUNT}]
Data == [Pins \cup {PIN_COUNT} -> PinData]

(* PinsCounted, and types, of the objects as calls make them.              *)
PinStates == [pin_ : Named, data : Data, gpio : SUBSET Pins, irq : SUBSET Pins]

PinOn(s, p) ==
  IF NamesOf(s.pin_, p) = {} THEN p \notin s.irq /\ ~s.data[p].intEnabled_ ELSE p \in s.gpio
PinCounted(s, p, J) ==
  /\ s.data[p].count = Cardinality(NamesOf(s.pin_, p))
  /\ p \notin J => PinOn(s, p)

(* All but those that were left, L; of those that were joined, J, the      *)
(* counts.                                                                 *)
AllCounted(s, L, J) ==
  s \in PinStates /\ \A p \in Pins \ L : PinCounted(s, p, J)

(* The inductive invariant: the object of a statement is gone after it,    *)
(* and USB's names nothing but its pin.                                    *)
PinInv ==
  /\ PinTypeOK /\ PinsCounted
  /\ pin_[temporary] = PIN_COUNT
  /\ pin_[pVbus_] \in {PIN_COUNT, Vbus}

LEMMA NamersFinite ==
  ASSUME NEW pin, NEW p
  PROVE  /\ IsFiniteSet(NamesOf(pin, p)) /\ Cardinality(NamesOf(pin, p)) \in Nat
         /\ Cardinality(NamesOf(pin, p)) < 256
<1>1. IsFiniteSet(Objects) /\ Cardinality(Objects) < 256 /\ Cardinality(Objects) \in Nat
  BY PinAssumption, FS_CardinalityType
<1>2. NamesOf(pin, p) \subseteq Objects
  BY DEF NamesOf
<1>3. IsFiniteSet(NamesOf(pin, p)) /\ Cardinality(NamesOf(pin, p)) <= Cardinality(Objects)
  BY <1>1, <1>2, FS_Subset
<1>4. Cardinality(NamesOf(pin, p)) \in Nat
  BY <1>3, FS_CardinalityType
<1> QED
  BY <1>1, <1>3, <1>4

(* An object more, or less, that names a pin.                              *)
LEMMA NamerMore ==
  ASSUME NEW pin \in Named, NEW o \in Objects, NEW p \in Pins, pin[o] # p,
         NEW more, more = [pin EXCEPT ![o] = p]
  PROVE  /\ NamesOf(more, p) = NamesOf(pin, p) \cup {o}
         /\ Cardinality(NamesOf(more, p)) = Cardinality(NamesOf(pin, p)) + 1
<1>1. NamesOf(more, p) = NamesOf(pin, p) \cup {o} /\ o \notin NamesOf(pin, p)
  BY DEF NamesOf, Named
<1>2. IsFiniteSet(NamesOf(pin, p))
  BY NamersFinite
<1>3. Cardinality(NamesOf(pin, p) \cup {o}) = Cardinality(NamesOf(pin, p)) + 1
  BY <1>1, <1>2, FS_AddElement
<1> QED
  BY <1>1, <1>3

LEMMA CountOfOne ==
  ASSUME NEW n \in Nat, n < 256, NEW less \in Nat, less = n - 1
  PROVE  n \in 1 .. 255
OBVIOUS

LEMMA NamerLess ==
  ASSUME NEW pin \in Named, NEW o \in Objects, NEW p \in Pins, pin[o] = p,
         NEW q, q # p, NEW less, less = [pin EXCEPT ![o] = q]
  PROVE  /\ NamesOf(less, p) = NamesOf(pin, p) \ {o} /\ o \in NamesOf(pin, p)
         /\ Cardinality(NamesOf(less, p)) = Cardinality(NamesOf(pin, p)) - 1
         /\ Cardinality(NamesOf(pin, p)) \in 1 .. 255
<1>1. NamesOf(less, p) = NamesOf(pin, p) \ {o} /\ o \in NamesOf(pin, p)
  BY DEF NamesOf, Named
<1>2. /\ IsFiniteSet(NamesOf(pin, p)) /\ Cardinality(NamesOf(pin, p)) \in Nat
      /\ Cardinality(NamesOf(pin, p)) < 256 /\ Cardinality(NamesOf(less, p)) \in Nat
  BY NamersFinite
<1>3. Cardinality(NamesOf(pin, p) \ {o}) = Cardinality(NamesOf(pin, p)) - 1
  BY <1>1, <1>2, FS_RemoveElement
<1>4. Cardinality(NamesOf(less, p)) = Cardinality(NamesOf(pin, p)) - 1
  BY <1>1, <1>3
<1> QED
  BY <1>1, <1>2, <1>4, CountOfOne

LEMMA NamersOfOthers ==
  ASSUME NEW pin \in Named, NEW o \in Objects, NEW q \in Pins \cup {PIN_COUNT},
         NEW p \in Pins, pin[o] # p, q # p,
         NEW other, other = [pin EXCEPT ![o] = q]
  PROVE  NamesOf(other, p) = NamesOf(pin, p)
BY DEF NamesOf, Named

LEMMA Wraps ==
  ASSUME NEW n \in Nat
  PROVE  /\ n + 1 < 256 => (n + 1) % 256 = n + 1
         /\ n \in 1 .. 255 => (n - 1) % 256 = n - 1
OBVIOUS

OneMore(data, p) == [data EXCEPT ![p].count = (@ + 1) % 256]

LEMMA CountsMore ==
  ASSUME NEW data \in Data, NEW p \in Pins
  PROVE  /\ OneMore(data, p) \in Data
         /\ \A x \in Pins : x # p => OneMore(data, p)[x] = data[x]
         /\ OneMore(data, p)[p].count = (data[p].count + 1) % 256
BY DEF PinData, Data, OneMore

OneLess(data, p) == [data EXCEPT ![p].count = (@ - 1) % 256]

LEMMA CountsLess ==
  ASSUME NEW data \in Data, NEW p \in Pins
  PROVE  /\ OneLess(data, p) \in Data
         /\ \A x \in Pins : x # p => OneLess(data, p)[x] = data[x]
         /\ OneLess(data, p)[p].count = (data[p].count - 1) % 256
         /\ OneLess(data, p)[p].intEnabled_ = data[p].intEnabled_
BY DEF PinData, Data, OneLess

PutEnabled(data, p, b) == [data EXCEPT ![p].intEnabled_ = b]

LEMMA PutsEnabled ==
  ASSUME NEW data \in Data, NEW p \in Pins, NEW b \in BOOLEAN
  PROVE  /\ PutEnabled(data, p, b) \in Data
         /\ \A x \in Pins : x # p => PutEnabled(data, p, b)[x] = data[x]
         /\ PutEnabled(data, p, b)[p].count = data[p].count
         /\ PutEnabled(data, p, b)[p].intEnabled_ = b
BY DEF PinData, Data, PutEnabled

(* An object that names no pin comes to name q, and is counted if that is  *)
(* one.                                                                    *)
LEMMA NamingCounts ==
  ASSUME NEW L, NEW J, NEW s, AllCounted(s, L, J), NEW o \in Objects, s.pin_[o] = PIN_COUNT,
         NEW q \in Pins \cup {PIN_COUNT}, NEW t \in PinStates,
         t.pin_ = [s.pin_ EXCEPT ![o] = q],
         \A p \in Pins : p # q => t.data[p] = s.data[p],
         q \in Pins => /\ q \notin L \cup J => q \in t.gpio
                       /\ t.data[q].count = (s.data[q].count + 1) % 256,
         t.irq = s.irq, s.gpio \subseteq t.gpio
  PROVE  AllCounted(t, L, J)
<1>1. s.pin_ \in Named /\ PIN_COUNT \notin Pins
  BY PinAssumption DEF AllCounted, PinStates
<1>2. ASSUME NEW p \in Pins \ L, p = q PROVE PinCounted(t, p, J)
  <2>1. s.pin_[o] # p /\ PinCounted(s, p, J)
    BY <1>1 DEF AllCounted
  <2>2. /\ NamesOf(t.pin_, p) = NamesOf(s.pin_, p) \cup {o}
        /\ Cardinality(NamesOf(t.pin_, p)) = Cardinality(NamesOf(s.pin_, p)) + 1
    BY <1>1, <1>2, <2>1, NamerMore
  <2>3. Cardinality(NamesOf(s.pin_, p)) \in Nat /\ Cardinality(NamesOf(t.pin_, p)) < 256
    BY NamersFinite
  <2>4. t.data[p].count = Cardinality(NamesOf(t.pin_, p))
    BY <1>2, <2>1, <2>2, <2>3, Wraps DEF PinCounted
  <2> QED
    BY <1>2, <2>2, <2>4 DEF PinCounted, PinOn
<1>3. ASSUME NEW p \in Pins \ L, p # q PROVE PinCounted(t, p, J)
  <2>1. PinCounted(s, p, J) /\ t.data[p] = s.data[p] /\ s.pin_[o] # p
    BY <1>1, <1>3 DEF AllCounted
  <2>2. NamesOf(t.pin_, p) = NamesOf(s.pin_, p)
    BY <1>1, <1>3, <2>1, NamersOfOthers
  <2> QED
    BY <2>1, <2>2 DEF PinCounted, PinOn
<1> QED
  BY <1>2, <1>3 DEF AllCounted

LEMMA ConstructCounts ==
  ASSUME NEW L, NEW J, NEW s, AllCounted(s, L, J), NEW o \in Objects, s.pin_[o] = PIN_COUNT,
         NEW p \in Pins
  PROVE  /\ AllCounted(Construct(s, o, p), L, J)
         /\ Construct(s, o, p).pin_ = Put(s.pin_, o, p)
<1> DEFINE t == Construct(s, o, p)
<1>1. /\ t.pin_ = [s.pin_ EXCEPT ![o] = p] /\ t.irq = s.irq /\ t.gpio = s.gpio \cup {p}
      /\ t.data = OneMore(s.data, p)
      /\ t = [pin_ |-> t.pin_, data |-> t.data, gpio |-> t.gpio, irq |-> t.irq]
  BY DEF Construct, IncrRef, AllCounted, PinStates, OneMore
<1> HIDE DEF t
<1>2. /\ s.pin_ \in Named /\ s.data \in Data /\ s.gpio \subseteq Pins /\ s.irq \subseteq Pins
  BY DEF AllCounted, PinStates
<1>3. t.pin_ \in Named
  BY <1>1, <1>2 DEF Named
<1>4. t \in PinStates
  BY <1>1, <1>2, <1>3, CountsMore DEF PinStates
<1>5. /\ \A x \in Pins : x # p => t.data[x] = s.data[x]
      /\ t.data[p].count = (s.data[p].count + 1) % 256
  BY <1>1, <1>2, CountsMore
<1>6. AllCounted(t, L, J)
  BY <1>1, <1>4, <1>5, NamingCounts
<1> QED
  BY <1>1, <1>6 DEF t, Put

LEMMA CopyCounts ==
  ASSUME NEW L, NEW J, NEW s, AllCounted(s, L, J), NEW o \in Objects, s.pin_[o] = PIN_COUNT,
         NEW other \in Objects
  PROVE  /\ AllCounted(CopyConstruct(s, o, other), L, J)
         /\ CopyConstruct(s, o, other).pin_ = Put(s.pin_, o, s.pin_[other])
<1> DEFINE t == CopyConstruct(s, o, other)
           q == s.pin_[other]
           copied == [s.data EXCEPT ![PIN_COUNT] = s.data[q]]
<1>1. /\ t.pin_ = [s.pin_ EXCEPT ![o] = q] /\ t.irq = s.irq /\ t.gpio = s.gpio
      /\ t.data = IF q \in Pins THEN OneMore(copied, q) ELSE copied
      /\ t = [pin_ |-> t.pin_, data |-> t.data, gpio |-> t.gpio, irq |-> t.irq]
  BY DEF CopyConstruct, Assign, IncrRef, AllCounted, PinStates, OneMore
<1>2. /\ s.pin_ \in Named /\ s.data \in Data /\ s.gpio \subseteq Pins /\ s.irq \subseteq Pins
  BY DEF AllCounted, PinStates
<1>3. /\ q \in Pins \cup {PIN_COUNT} /\ PIN_COUNT \notin Pins
      /\ copied \in Data /\ \A x \in Pins : copied[x] = s.data[x]
  BY <1>2, PinAssumption DEF Named, Data
<1>4. q \in Pins \ (L \cup J) => q \in s.gpio
  <2>1. other \in NamesOf(s.pin_, q)
    BY DEF NamesOf
  <2> QED
    BY <2>1 DEF AllCounted, PinCounted, PinOn
<1>5. t.pin_ \in Named
  BY <1>1, <1>2, <1>3 DEF Named
<1> HIDE DEF t, q, copied
<1>6. /\ t.data \in Data /\ \A p \in Pins : p # q => t.data[p] = s.data[p]
      /\ q \in Pins => t.data[q].count = (s.data[q].count + 1) % 256
  <2>1. CASE q \in Pins
    BY <1>1, <1>3, <2>1, CountsMore
  <2>2. CASE q \notin Pins
    BY <1>1, <1>3, <2>2
  <2> QED
    BY <2>1, <2>2
<1>7. t \in PinStates
  BY <1>1, <1>2, <1>5, <1>6 DEF PinStates
<1>8. AllCounted(t, L, J)
  BY <1>1, <1>3, <1>4, <1>6, <1>7, NamingCounts
<1> QED
  BY <1>1, <1>8 DEF t, q, Put

PutData(s, p, v) == [s EXCEPT !.data[p] = v]

LEMMA PutsData ==
  ASSUME NEW s, NEW pin, NEW data, NEW on, NEW irqs, NEW p, NEW v,
         s = [pin_ |-> pin, data |-> data, gpio |-> on, irq |-> irqs]
  PROVE  PutData(s, p, v) =
           [pin_ |-> pin, data |-> Put(data, p, v), gpio |-> on, irq |-> irqs]
BY DEF Put, PutData

LEMMA AssignReplaces ==
  ASSUME NEW s \in PinStates, NEW o, NEW other, NEW a, a = Assign(s, o, other)
  PROVE  /\ a.pin_ = Put(s.pin_, o, s.pin_[other])
         /\ a.data = Put(s.data, s.pin_[o], s.data[s.pin_[other]])
         /\ a.gpio = s.gpio /\ a.irq = s.irq
         /\ a = [pin_ |-> a.pin_, data |-> a.data, gpio |-> a.gpio, irq |-> a.irq]
BY DEF Assign, PinStates, Put

LEMMA PutsBack ==
  ASSUME NEW X, NEW Y, NEW f \in [X -> Y], NEW x
  PROVE  Put(f, x, f[x]) = f
BY DEF Put

(* Of an object that names no pin, or the same as it already.              *)
LEMMA AssignCounts ==
  ASSUME NEW L, NEW J, NEW s, AllCounted(s, L, J), NEW o \in Objects, NEW other \in Objects,
         s.pin_[o] = PIN_COUNT \/ s.pin_[o] = s.pin_[other]
  PROVE  /\ AllCounted(OperatorAssign(s, o, other), L, J)
         /\ OperatorAssign(s, o, other).pin_ = Put(s.pin_, o, s.pin_[other])
<1>1. CASE s.pin_[o] = s.pin_[other]
  <2> DEFINE a == Assign(s, o, other)
  <2>1. /\ s = [pin_ |-> s.pin_, data |-> s.data, gpio |-> s.gpio, irq |-> s.irq]
        /\ Put(s.data, s.pin_[o], s.data[s.pin_[o]]) = s.data
        /\ Put(s.pin_, o, s.pin_[o]) = s.pin_
    BY PutsBack DEF AllCounted, PinStates, Named, Data
  <2>2. OperatorAssign(s, o, other) = a
    BY <1>1 DEF OperatorAssign
  <2>3. /\ a.pin_ = Put(s.pin_, o, s.pin_[o])
        /\ a.data = Put(s.data, s.pin_[o], s.data[s.pin_[o]])
        /\ a.gpio = s.gpio /\ a.irq = s.irq
        /\ a = [pin_ |-> a.pin_, data |-> a.data, gpio |-> a.gpio, irq |-> a.irq]
    BY <1>1, AssignReplaces DEF AllCounted
  <2> HIDE DEF a
  <2>4. OperatorAssign(s, o, other) = s
    BY <2>1, <2>2, <2>3
  <2> QED
    BY <1>1, <2>1, <2>4
<1>2. CASE s.pin_[o] # s.pin_[other]
  <2>1. s.pin_[o] = PIN_COUNT /\ PIN_COUNT \notin Pins
    BY <1>2, PinAssumption
  <2>2. OperatorAssign(s, o, other) = CopyConstruct(s, o, other)
    BY <1>2, <2>1 DEF OperatorAssign, DecrRef, CopyConstruct
  <2> QED
    BY <2>1, <2>2, CopyCounts
<1> QED
  BY <1>1, <1>2

(* Of one that names another: what is done to their data.                  *)
LEMMA AssignSpoils ==
  ASSUME NEW s \in PinStates, NEW o \in Objects, NEW p \in Pins, NEW q \in Pins \cup {PIN_COUNT},
         q # p, upMs \in Elapsed, NEW a \in PinStates, a.pin_ = Put(s.pin_, o, q),
         a.data = Put(s.data, p, s.data[q]), a.gpio = s.gpio, a.irq = s.irq,
         a = [pin_ |-> a.pin_, data |-> a.data, gpio |-> a.gpio, irq |-> a.irq]
  PROVE  LET d == DecrRef(a, o, p)
         IN  /\ d \in PinStates /\ d.pin_ = a.pin_
             /\ d = [pin_ |-> d.pin_, data |-> d.data, gpio |-> d.gpio, irq |-> d.irq]
             /\ \A x \in Pins : x # p /\ x # q =>
                  /\ d.data[x] = s.data[x] /\ (x \in d.gpio <=> x \in s.gpio)
                  /\ (x \in d.irq <=> x \in s.irq)
             /\ q \in Pins => d.data[q].count = s.data[q].count
<1> DEFINE down == OneLess(a.data, p)
           less == [pin_ |-> a.pin_, data |-> down, gpio |-> a.gpio, irq |-> a.irq]
           d == DecrRef(a, o, p)
<1>1. /\ a.pin_ \in Named /\ a.data \in Data /\ a.gpio \subseteq Pins /\ a.irq \subseteq Pins
      /\ a.pin_[o] = q /\ s.data \in Data /\ PIN_COUNT \notin Pins
      /\ \A x \in Pins : x # p => a.data[x] = s.data[x]
  BY PinAssumption DEF PinStates, Put, Data, Named
<1>2. /\ down \in Data /\ \A x \in Pins : x # p => down[x] = a.data[x]
  BY <1>1, CountsLess
<1>3. [a EXCEPT !.data[p].count = (@ - 1) % 256] = less
  BY DEF OneLess
<1> HIDE DEF down
<1>4. d = IF down[p].count = 0 THEN RefCountDestroy(less, o, p) ELSE less
  BY <1>3 DEF DecrRef
<1>5. CASE down[p].count # 0
  <2>1. d = less
    BY <1>4, <1>5
  <2>2. less \in PinStates
    BY <1>1, <1>2 DEF PinStates
  <2> HIDE DEF d
  <2> QED
    BY <1>1, <1>2, <2>1, <2>2 DEF d
<1>6. CASE down[p].count = 0
  <2> DEFINE off == IF q \in Pins THEN PutEnabled(down, q, FALSE) ELSE down
             irqs == IF q \in Pins THEN a.irq \ {q} ELSE a.irq
             lit == a.gpio \ {q}
             dark == [pin_ |-> a.pin_, data |-> down, gpio |-> lit, irq |-> a.irq]
             data == Put(off, p, NewPinData(upMs))
  <2>1. [less EXCEPT !.gpio = @ \ {less.pin_[o]}] = dark
    BY <1>1
  <2>2. DisableInterrupt(dark, o) = [pin_ |-> a.pin_, data |-> off, gpio |-> lit, irq |-> irqs]
    <3>1. dark.pin_[o] = q
      BY <1>1
    <3>2. CASE q \in Pins
      BY <3>1, <3>2 DEF DisableInterrupt, PutEnabled
    <3>3. CASE q \notin Pins
      BY <3>1, <3>3 DEF DisableInterrupt
    <3> QED
      BY <3>2, <3>3
  <2>3. d = PutData(DisableInterrupt(dark, o), p, NewPinData(upMs))
    BY <1>4, <1>6, <2>1 DEF RefCountDestroy, PutData
  <2> DEFINE dim == DisableInterrupt(dark, o)
  <2> HIDE DEF d, dark, off, irqs, lit, dim
  <2>4. PutData(dim, p, NewPinData(upMs)) =
          [pin_ |-> a.pin_, data |-> data, gpio |-> lit, irq |-> irqs]
    BY <2>2, PutsData DEF dim
  <2> HIDE DEF data
  <2>5. d = [pin_ |-> a.pin_, data |-> data, gpio |-> lit, irq |-> irqs]
    BY <2>3, <2>4 DEF dim
  <2>6. /\ off \in Data /\ \A x \in Pins : x # p /\ x # q => off[x] = s.data[x]
        /\ q \in Pins => off[q].count = s.data[q].count
    <3>1. CASE q \in Pins
      <4> DEFINE dimmed == PutEnabled(down, q, FALSE)
      <4>1. /\ dimmed \in Data /\ dimmed[q].count = down[q].count
            /\ \A x \in Pins : x # q => dimmed[x] = down[x]
        BY <1>2, <3>1, PutsEnabled
      <4>2. off = dimmed
        BY <3>1 DEF off
      <4> HIDE DEF dimmed
      <4> QED
        BY <1>1, <1>2, <3>1, <4>1, <4>2
    <3>2. CASE q \notin Pins
      BY <1>1, <1>2, <3>2 DEF off
    <3> QED
      BY <3>1, <3>2
  <2>7. NewPinData(upMs) \in PinData
    BY DEF NewPinData, PinData
  <2>8. /\ data \in Data /\ \A x \in Pins : x # p => data[x] = off[x]
    BY <2>6, <2>7 DEF data, Put, Data
  <2>9. /\ irqs \subseteq Pins /\ lit \subseteq Pins
        /\ \A x \in Pins : x # q => (x \in lit <=> x \in s.gpio) /\ (x \in irqs <=> x \in s.irq)
    BY <1>1 DEF irqs, lit
  <2>10. d \in PinStates
    BY <1>1, <2>5, <2>8, <2>9 DEF PinStates
  <2> QED
    BY <2>5, <2>6, <2>8, <2>9, <2>10 DEF d
<1> QED
  BY <1>5, <1>6

(* The pins that are left, and joined, when an object that names a comes   *)
(* to name b.                                                              *)
MoreLeft(L, a, b) == IF a \in Pins /\ a # b THEN L \cup {a} ELSE L
MoreJoined(J, a, b) == IF a \in Pins /\ a # b THEN J \cup ({b} \cap Pins) ELSE J

LEMMA AnyAssignCounts ==
  ASSUME NEW L, NEW J, NEW s, AllCounted(s, L, J), NEW o \in Objects, NEW other \in Objects,
         upMs \in Elapsed
  PROVE  LET p == s.pin_[o]
             q == s.pin_[other]
         IN  /\ AllCounted(OperatorAssign(s, o, other), MoreLeft(L, p, q), MoreJoined(J, p, q))
             /\ OperatorAssign(s, o, other).pin_ = Put(s.pin_, o, q)
<1> DEFINE p == s.pin_[o]
           q == s.pin_[other]
           a == Assign(s, o, other)
           d == DecrRef(a, o, p)
           t == OperatorAssign(s, o, other)
<1>1. /\ s.pin_ \in Named /\ s.data \in Data /\ s.gpio \subseteq Pins /\ s.irq \subseteq Pins
      /\ s \in PinStates /\ PIN_COUNT \notin Pins
      /\ p \in Pins \cup {PIN_COUNT} /\ q \in Pins \cup {PIN_COUNT}
  BY PinAssumption DEF AllCounted, PinStates, Named
<1>2. CASE p = PIN_COUNT \/ p = q
  <2>1. AllCounted(t, L, J) /\ t.pin_ = Put(s.pin_, o, q)
    BY <1>2, AssignCounts
  <2>2. MoreLeft(L, p, q) = L /\ MoreJoined(J, p, q) = J
    BY <1>1, <1>2 DEF MoreLeft, MoreJoined
  <2> HIDE DEF t
  <2>3. AllCounted(t, MoreLeft(L, p, q), MoreJoined(J, p, q))
    BY <2>1, <2>2
  <2> QED
    BY <2>1, <2>3 DEF t
<1>3. CASE p \in Pins /\ p # q
  <2>1. /\ a.pin_ = Put(s.pin_, o, q) /\ a.data = Put(s.data, p, s.data[q])
        /\ a.gpio = s.gpio /\ a.irq = s.irq
        /\ a = [pin_ |-> a.pin_, data |-> a.data, gpio |-> a.gpio, irq |-> a.irq]
    BY <1>1, AssignReplaces
  <2> HIDE DEF a
  <2>2. a.pin_ \in Named /\ a.data \in Data
    BY <1>1, <1>3, <2>1 DEF Named, Data, Put
  <2>3. a \in PinStates
    BY <1>1, <2>1, <2>2 DEF PinStates
  <2>4. /\ d \in PinStates /\ d.pin_ = a.pin_
        /\ d = [pin_ |-> d.pin_, data |-> d.data, gpio |-> d.gpio, irq |-> d.irq]
        /\ \A x \in Pins : x # p /\ x # q =>
             /\ d.data[x] = s.data[x] /\ (x \in d.gpio <=> x \in s.gpio)
             /\ (x \in d.irq <=> x \in s.irq)
        /\ q \in Pins => d.data[q].count = s.data[q].count
    <3> HIDE DEF p, q
    <3> QED
      BY <1>1, <1>3, <2>1, <2>3, AssignSpoils
  <2>5. t = IncrRef(d, q)
    BY <1>3 DEF OperatorAssign, a
  <2> HIDE DEF d, t, p, q
  <2> DEFINE data == IF q \in Pins THEN OneMore(d.data, q) ELSE d.data
  <2>6. t = [pin_ |-> d.pin_, data |-> data, gpio |-> d.gpio, irq |-> d.irq]
    <3>1. CASE q \in Pins
      <4>1. t = [d EXCEPT !.data[q].count = (@ + 1) % 256]
        BY <2>5, <3>1 DEF IncrRef
      <4> QED
        BY <2>4, <3>1, <4>1 DEF OneMore
    <3>2. CASE q \notin Pins
      BY <2>4, <2>5, <3>2 DEF IncrRef
    <3> QED
      BY <3>1, <3>2
  <2>7. d.data \in Data /\ d.gpio \subseteq Pins /\ d.irq \subseteq Pins
    BY <2>4 DEF PinStates
  <2>8. /\ data \in Data /\ \A x \in Pins : x # q => data[x] = d.data[x]
        /\ q \in Pins => data[q].count = (d.data[q].count + 1) % 256
    BY <2>7, CountsMore
  <2> HIDE DEF data
  <2>9. t \in PinStates /\ t.pin_ = Put(s.pin_, o, q) /\ t.data = data /\ t.gpio = d.gpio
        /\ t.irq = d.irq
    BY <2>1, <2>2, <2>4, <2>6, <2>7, <2>8 DEF PinStates
  <2>10. ASSUME NEW x \in Pins \ (L \cup {p}), x # q
         PROVE  PinCounted(t, x, J \cup ({q} \cap Pins))
    <3>1. PinCounted(s, x, J) /\ s.pin_[o] # x
      BY <2>10 DEF AllCounted, p
    <3>2. NamesOf(t.pin_, x) = NamesOf(s.pin_, x)
      BY <1>1, <2>9, <2>10, <3>1, NamersOfOthers DEF Put
    <3>3. t.data[x] = s.data[x] /\ (x \in t.gpio <=> x \in s.gpio) /\ (x \in t.irq <=> x \in s.irq)
      BY <2>4, <2>8, <2>9, <2>10
    <3> QED
      BY <2>10, <3>1, <3>2, <3>3 DEF PinCounted, PinOn
  <2>11. ASSUME NEW x \in Pins \ (L \cup {p}), x = q
         PROVE  PinCounted(t, x, J \cup ({q} \cap Pins))
    <3>1. PinCounted(s, x, J) /\ s.pin_[o] # x
      BY <1>3, <2>11 DEF AllCounted, p
    <3>2. Cardinality(NamesOf(t.pin_, x)) = Cardinality(NamesOf(s.pin_, x)) + 1
      BY <1>1, <2>9, <2>11, <3>1, NamerMore DEF Put
    <3>3. Cardinality(NamesOf(s.pin_, x)) \in Nat /\ Cardinality(NamesOf(t.pin_, x)) < 256
      BY NamersFinite
    <3>4. t.data[x].count = (s.data[x].count + 1) % 256
      BY <2>4, <2>8, <2>9, <2>11
    <3>5. t.data[x].count = Cardinality(NamesOf(t.pin_, x))
      BY <3>1, <3>2, <3>3, <3>4, Wraps DEF PinCounted
    <3> QED
      BY <2>11, <3>5 DEF PinCounted
  <2>12. AllCounted(t, L \cup {p}, J \cup ({q} \cap Pins))
    BY <2>9, <2>10, <2>11 DEF AllCounted
  <2>13. MoreLeft(L, p, q) = L \cup {p} /\ MoreJoined(J, p, q) = J \cup ({q} \cap Pins)
    BY <1>3 DEF MoreLeft, MoreJoined
  <2>14. AllCounted(t, MoreLeft(L, p, q), MoreJoined(J, p, q))
    BY <2>12, <2>13
  <2> QED
    BY <2>9, <2>14 DEF t, p, q
<1> QED
  BY <1>1, <1>2, <1>3

LEMMA InterruptCounts ==
  ASSUME NEW L, NEW J, NEW s, AllCounted(s, L, J), NEW o \in Objects
  PROVE  /\ AllCounted(EnableInterrupt(s, o), L, J) /\ EnableInterrupt(s, o).pin_ = s.pin_
         /\ AllCounted(DisableInterrupt(s, o), L, J) /\ DisableInterrupt(s, o).pin_ = s.pin_
<1>1. CASE s.pin_[o] \notin Pins
  BY <1>1 DEF EnableInterrupt, DisableInterrupt
<1>2. CASE s.pin_[o] \in Pins
  <2> DEFINE p == s.pin_[o]
             on == EnableInterrupt(s, o)
             off == DisableInterrupt(s, o)
  <2>1. /\ on = [pin_ |-> s.pin_, data |-> PutEnabled(s.data, p, TRUE),
                 gpio |-> s.gpio, irq |-> s.irq \cup {p}]
        /\ off = [pin_ |-> s.pin_, data |-> PutEnabled(s.data, p, FALSE),
                  gpio |-> s.gpio, irq |-> s.irq \ {p}]
    BY <1>2 DEF EnableInterrupt, DisableInterrupt, AllCounted, PinStates, PutEnabled
  <2>2. /\ s.pin_ \in Named /\ s.data \in Data /\ s.gpio \subseteq Pins /\ s.irq \subseteq Pins
    BY DEF AllCounted, PinStates
  <2>3. o \in NamesOf(s.pin_, p)
    BY DEF NamesOf
  <2> HIDE DEF on, off
  <2>4. \A b \in BOOLEAN :
          /\ PutEnabled(s.data, p, b) \in Data
          /\ \A x \in Pins : x # p => PutEnabled(s.data, p, b)[x] = s.data[x]
          /\ PutEnabled(s.data, p, b)[p].count = s.data[p].count
          /\ PutEnabled(s.data, p, b)[p].intEnabled_ = b
    BY <1>2, <2>2, PutsEnabled
  <2>5. on \in PinStates /\ off \in PinStates
    BY <1>2, <2>1, <2>2, <2>4 DEF PinStates
  <2>6. ASSUME NEW x \in Pins \ L PROVE PinCounted(on, x, J) /\ PinCounted(off, x, J)
    <3>1. PinCounted(s, x, J)
      BY DEF AllCounted
    <3>2. CASE x = p
      BY <2>1, <2>3, <2>4, <3>1, <3>2 DEF PinCounted, PinOn
    <3>3. CASE x # p
      BY <2>1, <2>4, <3>1, <3>3 DEF PinCounted, PinOn
    <3> QED
      BY <3>2, <3>3
  <2>7. AllCounted(on, L, J) /\ AllCounted(off, L, J)
    BY <2>5, <2>6 DEF AllCounted
  <2>8. on.pin_ = s.pin_ /\ off.pin_ = s.pin_
    BY <2>1
  <2> QED
    BY <2>7, <2>8 DEF on, off
<1> QED
  BY <1>1, <1>2

(* When the last object that names a pin goes, the pin is as if new.       *)
LEMMA DestroyCounts ==
  ASSUME NEW L, NEW J, NEW s, AllCounted(s, L, J), NEW o \in Objects, upMs \in Elapsed
  PROVE  /\ AllCounted(Destroy(s, o), L, J)
         /\ Destroy(s, o).pin_ = Put(s.pin_, o, PIN_COUNT)
<1> DEFINE p == s.pin_[o]
           t == Destroy(s, o)
           gone == [s.pin_ EXCEPT ![o] = PIN_COUNT]
<1>1. /\ s.pin_ \in Named /\ s.data \in Data /\ s.gpio \subseteq Pins /\ s.irq \subseteq Pins
      /\ s = [pin_ |-> s.pin_, data |-> s.data, gpio |-> s.gpio, irq |-> s.irq]
      /\ PIN_COUNT \notin Pins
  BY PinAssumption DEF AllCounted, PinStates
<1>2. CASE p \notin Pins
  <2>1. p = PIN_COUNT
    BY <1>1, <1>2 DEF Named
  <2>2. gone = s.pin_
    BY <1>1, <2>1 DEF Named
  <2>3. t = [s EXCEPT !.pin_[o] = PIN_COUNT]
    BY <1>2 DEF Destroy
  <2>4. [s EXCEPT !.pin_[o] = PIN_COUNT] =
          [pin_ |-> gone, data |-> s.data, gpio |-> s.gpio, irq |-> s.irq]
    BY DEF AllCounted, PinStates
  <2> HIDE DEF t, gone
  <2>5. t = s
    BY <1>1, <2>2, <2>3, <2>4
  <2> QED
    BY <2>2, <2>5 DEF t, gone, Put
<1>3. CASE p \in Pins
  <2> DEFINE n == Cardinality(NamesOf(s.pin_, p))
             down == OneLess(s.data, p)
             less == [pin_ |-> s.pin_, data |-> down, gpio |-> s.gpio, irq |-> s.irq]
  <2>1. /\ NamesOf(gone, p) = NamesOf(s.pin_, p) \ {o} /\ o \in NamesOf(s.pin_, p)
        /\ Cardinality(NamesOf(gone, p)) = n - 1 /\ n \in 1 .. 255
    BY <1>1, <1>3, NamerLess
  <2>2. /\ down \in Data /\ \A x \in Pins : x # p => down[x] = s.data[x]
        /\ down[p].count = (s.data[p].count - 1) % 256
        /\ down[p].intEnabled_ = s.data[p].intEnabled_
    BY <1>1, <1>3, CountsLess
  <2>3. p \notin L => down[p].count = n - 1 /\ PinCounted(s, p, J)
    BY <1>3, <2>1, <2>2, Wraps DEF AllCounted, PinCounted
  <2>4. ASSUME NEW x \in Pins, x # p PROVE NamesOf(gone, x) = NamesOf(s.pin_, x)
    BY <1>1, <2>4, NamersOfOthers
  <2>5. gone \in Named
    BY <1>1 DEF Named
  <2>6. [s EXCEPT !.data[p].count = (@ - 1) % 256] = less
    BY DEF AllCounted, PinStates, OneLess
  <2> HIDE DEF down
  <2>7. /\ DecrRef(s, o, p) = IF down[p].count = 0 THEN RefCountDestroy(less, o, p) ELSE less
        /\ t = [DecrRef(s, o, p) EXCEPT !.pin_[o] = PIN_COUNT]
    BY <1>3, <2>6 DEF Destroy, DecrRef
  <2>8. CASE down[p].count # 0
    <3>1. t = [pin_ |-> gone, data |-> down, gpio |-> s.gpio, irq |-> s.irq]
      BY <2>7, <2>8
    <3>2. p \notin L => NamesOf(gone, p) # {}
      BY <2>1, <2>3, <2>8, FS_EmptySet
    <3>3. p \notin L \cup J => p \in s.gpio
      BY <2>1, <2>3 DEF PinCounted, PinOn
    <3> HIDE DEF gone, t
    <3>4. t \in PinStates
      BY <1>1, <2>2, <2>5, <3>1 DEF PinStates
    <3>5. p \notin L => PinCounted(t, p, J)
      BY <2>1, <2>3, <3>1, <3>2, <3>3 DEF PinCounted, PinOn
    <3>6. ASSUME NEW x \in Pins \ L, x # p PROVE PinCounted(t, x, J)
      BY <2>2, <2>4, <3>1, <3>6 DEF PinCounted, PinOn, AllCounted
    <3>7. AllCounted(t, L, J)
      BY <3>4, <3>5, <3>6 DEF AllCounted
    <3> QED
      BY <3>1, <3>7 DEF gone, t, Put
  <2>9. CASE down[p].count = 0
    <3> DEFINE off == PutEnabled(down, p, FALSE)
               data == Put(off, p, NewPinData(upMs))
    <3>1. RefCountDestroy(less, o, p) =
            [pin_ |-> s.pin_, data |-> data, gpio |-> s.gpio \ {p}, irq |-> s.irq \ {p}]
      <4> DEFINE dark == [pin_ |-> s.pin_, data |-> down, gpio |-> s.gpio \ {p}, irq |-> s.irq]
      <4>1. [less EXCEPT !.gpio = @ \ {less.pin_[o]}] = dark
        OBVIOUS
      <4>2. DisableInterrupt(dark, o) =
              [pin_ |-> s.pin_, data |-> off, gpio |-> s.gpio \ {p}, irq |-> s.irq \ {p}]
        BY <1>3 DEF DisableInterrupt, PutEnabled
      <4>3. RefCountDestroy(less, o, p) = PutData(DisableInterrupt(dark, o), p, NewPinData(upMs))
        BY <4>1 DEF RefCountDestroy, PutData
      <4> DEFINE dim == DisableInterrupt(dark, o)
                 rest == s.irq \ {p}
                 lit == s.gpio \ {p}
      <4>4. dim = [pin_ |-> s.pin_, data |-> off, gpio |-> lit, irq |-> rest]
        BY <4>2
      <4> HIDE DEF off, dark, dim, rest, lit
      <4>5. PutData(dim, p, NewPinData(upMs)) =
              [pin_ |-> s.pin_, data |-> data, gpio |-> lit, irq |-> rest]
        BY <4>4, PutsData
      <4> QED
        BY <4>3, <4>5 DEF dim, rest, lit
    <3> HIDE DEF data
    <3>2. t = [pin_ |-> gone, data |-> data, gpio |-> s.gpio \ {p}, irq |-> s.irq \ {p}]
      <4>1. t = [[pin_ |-> s.pin_, data |-> data, gpio |-> s.gpio \ {p}, irq |-> s.irq \ {p}]
                   EXCEPT !.pin_[o] = PIN_COUNT]
        BY <2>7, <2>9, <3>1
      <4> HIDE DEF t
      <4> QED
        BY <4>1
    <3>3. p \notin L => NamesOf(gone, p) = {}
      BY <2>1, <2>3, <2>9, NamersFinite, FS_EmptySet
    <3>4. off \in Data /\ \A x \in Pins : x # p => off[x] = down[x]
      BY <1>3, <2>2, PutsEnabled
    <3>5. NewPinData(upMs) \in PinData
      BY DEF NewPinData, PinData
    <3> HIDE DEF off
    <3>6. /\ data \in Data /\ data[p] = NewPinData(upMs)
          /\ \A x \in Pins : x # p => data[x] = s.data[x]
      BY <1>3, <2>2, <3>4, <3>5 DEF Data, data, Put
    <3> HIDE DEF gone, t
    <3>7. t \in PinStates
      BY <1>1, <2>5, <3>2, <3>6 DEF PinStates
    <3>8. p \notin L => PinCounted(t, p, J)
      BY <2>1, <2>3, <2>9, <3>2, <3>3, <3>6 DEF PinCounted, PinOn, NewPinData
    <3>9. ASSUME NEW x \in Pins \ L, x # p PROVE PinCounted(t, x, J)
      BY <2>4, <3>2, <3>6, <3>9 DEF PinCounted, PinOn, AllCounted
    <3>10. AllCounted(t, L, J)
      BY <3>7, <3>8, <3>9 DEF AllCounted
    <3> QED
      BY <3>2, <3>10 DEF gone, t, Put
  <2> QED
    BY <2>8, <2>9
<1> QED
  BY <1>2, <1>3

(* o = Pin(p);                                                             *)
LEMMA AssignNewCounts ==
  ASSUME NEW L, NEW J, NEW s, AllCounted(s, L, J), NEW o \in Objects, o # temporary,
         s.pin_[temporary] = PIN_COUNT, NEW p \in Pins, upMs \in Elapsed
  PROVE  /\ AllCounted(AssignNew(s, o, p), MoreLeft(L, s.pin_[o], p), MoreJoined(J, s.pin_[o], p))
         /\ AssignNew(s, o, p).pin_ = Put(s.pin_, o, p)
<1> DEFINE made == Construct(s, temporary, p)
           given == OperatorAssign(made, o, temporary)
           more == MoreLeft(L, s.pin_[o], p)
           moreJ == MoreJoined(J, s.pin_[o], p)
<1>1. temporary \in Objects /\ s.pin_ \in Named
  BY PinAssumption DEF AllCounted, PinStates
<1>2. AllCounted(made, L, J) /\ made.pin_ = Put(s.pin_, temporary, p)
  BY <1>1, ConstructCounts
<1> HIDE DEF made, given
<1>3. made.pin_[o] = s.pin_[o] /\ made.pin_[temporary] = p
  BY <1>1, <1>2 DEF Named, Put
<1>4. AllCounted(given, more, moreJ) /\ given.pin_ = Put(made.pin_, o, p)
  BY <1>1, <1>2, <1>3, AnyAssignCounts DEF given
<1> HIDE DEF more, moreJ
<1>5. /\ AllCounted(Destroy(given, temporary), more, moreJ)
      /\ Destroy(given, temporary).pin_ = Put(given.pin_, temporary, PIN_COUNT)
  BY <1>1, <1>4, DestroyCounts
<1>6. Put(given.pin_, temporary, PIN_COUNT) = Put(s.pin_, o, p)
  BY <1>1, <1>2, <1>4 DEF Named, Put
<1> QED
  BY <1>5, <1>6 DEF AssignNew, given, made, more, moreJ

(* What a call makes of the objects is what they become.                   *)
LEMMA NowCounted == PinInv => AllCounted(Now, left, joined)
<1> SUFFICES ASSUME PinInv PROVE AllCounted(Now, left, joined)
  OBVIOUS
<1>1. Now \in PinStates
  BY DEF PinInv, PinTypeOK, Now, PinStates, Named, Data
<1>2. ASSUME NEW p \in Pins \ left PROVE PinCounted(Now, p, joined)
  BY DEF PinInv, PinsCounted, PinCounted, PinOn, Now, NamesOf
<1> QED
  BY <1>1, <1>2 DEF AllCounted

LEMMA BecomesCounted ==
  ASSUME PinInv, NEW s, AllCounted(s, left', joined'), Become(s), UNCHANGED <<level, work, upMs>>,
         left' \subseteq Pins, joined' \subseteq Pins,
         s.pin_[temporary] = PIN_COUNT, s.pin_[pVbus_] \in {PIN_COUNT, Vbus}
  PROVE  PinInv'
<1>1. PinTypeOK'
  BY DEF PinInv, PinTypeOK, Become, AllCounted, PinStates, Named, Data
<1>2. PinsCounted'
  BY DEF Become, AllCounted, PinCounted, PinOn, PinsCounted, NamesOf
<1> QED
  BY <1>1, <1>2 DEF PinInv, Become

LEMMA PinVbusCounts ==
  ASSUME PinInv
  PROVE  /\ AllCounted(PinVbus, left, joined)
         /\ PinVbus.pin_ = Put(pin_, pVbus_, Vbus)
<1>1. /\ pVbus_ \in Objects /\ pVbus_ # temporary /\ Vbus \in Pins /\ PIN_COUNT \notin Pins
      /\ Now.pin_ = pin_ /\ Now.pin_[temporary] = PIN_COUNT
      /\ upMs \in Elapsed /\ pin_[pVbus_] \in {PIN_COUNT, Vbus}
  BY UsbPowerAssumption, PinAssumption DEF PinInv, PinTypeOK, Now
<1>2. /\ MoreLeft(left, Now.pin_[pVbus_], Vbus) = left
      /\ MoreJoined(joined, Now.pin_[pVbus_], Vbus) = joined
  BY <1>1 DEF MoreLeft, MoreJoined
<1>3. /\ AllCounted(AssignNew(Now, pVbus_, Vbus), MoreLeft(left, Now.pin_[pVbus_], Vbus),
                    MoreJoined(joined, Now.pin_[pVbus_], Vbus))
      /\ AssignNew(Now, pVbus_, Vbus).pin_ = Put(Now.pin_, pVbus_, Vbus)
  BY <1>1, NowCounted, AssignNewCounts
<1> QED
  BY <1>1, <1>2, <1>3 DEF PinVbus

LEMMA UsbCallsKeep ==
  ASSUME PinInv, EnablePowerSaveMode \/ UsbInit
  PROVE  PinInv'
<1>1. /\ AllCounted(PinVbus, left, joined) /\ PinVbus.pin_ = Put(pin_, pVbus_, Vbus)
  BY PinVbusCounts
<1>2. /\ AllCounted(Now, left, joined) /\ Now.pin_ = pin_
  BY NowCounted DEF Now
<1>3. /\ Put(pin_, pVbus_, Vbus)[temporary] = PIN_COUNT
      /\ Put(pin_, pVbus_, Vbus)[pVbus_] = Vbus
  BY UsbPowerAssumption, PinAssumption DEF PinInv, PinTypeOK, Put
<1>4. left' = left /\ joined' = joined /\ left \subseteq Pins /\ joined \subseteq Pins
  BY DEF EnablePowerSaveMode, UsbInit, PinInv, PinTypeOK
<1>5. CASE EnablePowerSaveMode
  <2>1. CASE Become(Now)
    BY <1>2, <1>4, <1>5, <2>1, BecomesCounted DEF PinInv, EnablePowerSaveMode
  <2>2. CASE Become(PinVbus)
    BY <1>1, <1>3, <1>4, <1>5, <2>2, BecomesCounted DEF EnablePowerSaveMode
  <2> QED
    BY <1>5, <2>1, <2>2 DEF EnablePowerSaveMode
<1>6. CASE UsbInit
  <2> DEFINE s == EnableInterrupt(PinVbus, pVbus_)
  <2>1. AllCounted(s, left, joined) /\ s.pin_ = PinVbus.pin_
    BY <1>1, InterruptCounts, UsbPowerAssumption
  <2> HIDE DEF s
  <2>2. Become(s) /\ UNCHANGED <<level, work, upMs>>
    BY <1>6 DEF UsbInit, s
  <2> QED
    BY <1>1, <1>3, <1>4, <2>1, <2>2, BecomesCounted
<1> QED
  BY <1>5, <1>6

LEMMA ClientKeeps ==
  ASSUME PinInv, NEW o \in Clients, Client(o, Clients, Pins \ {Vbus})
  PROVE  PinInv'
<1>1. /\ o \in Objects /\ o # temporary /\ o # pVbus_ /\ Clients \subseteq Objects
      /\ AllCounted(Now, left, joined) /\ Now.pin_ = pin_ /\ pin_ \in Named /\ upMs \in Elapsed
      /\ left \subseteq Pins /\ joined \subseteq Pins /\ pin_[temporary] = PIN_COUNT
  BY NowCounted DEF Clients, Now, PinInv, PinTypeOK, Named
<1>2. ASSUME NEW s, AllCounted(s, left', joined'), Become(s),
             left' \subseteq Pins, joined' \subseteq Pins,
             s.pin_ = pin_ \/ \E p : s.pin_ = Put(pin_, o, p)
      PROVE  PinInv'
  <2>1. s.pin_[temporary] = pin_[temporary] /\ s.pin_[pVbus_] = pin_[pVbus_]
    BY <1>1, <1>2, UsbPowerAssumption, PinAssumption DEF Named, Put
  <2> QED
    BY <1>2, <2>1, BecomesCounted DEF PinInv, Client
<1>3. ASSUME NEW p, NEW q, Moves(p, q)
      PROVE  /\ left' = MoreLeft(left, p, q) /\ joined' = MoreJoined(joined, p, q)
             /\ left' \subseteq Pins /\ joined' \subseteq Pins
  BY <1>1, <1>3 DEF Moves, MoreLeft, MoreJoined
<1>4. CASE ClientConstruct(o, Pins \ {Vbus})
  <2>1. PICK p \in Pins : Become(Construct(Now, o, p))
    BY <1>4 DEF ClientConstruct
  <2>2. /\ AllCounted(Construct(Now, o, p), left, joined)
        /\ Construct(Now, o, p).pin_ = Put(Now.pin_, o, p)
    BY <1>1, <1>4, ConstructCounts DEF ClientConstruct
  <2>3. left' = left /\ joined' = joined
    BY <1>4 DEF ClientConstruct
  <2> QED
    BY <1>1, <1>2, <2>1, <2>2, <2>3
<1>5. CASE ClientCopy(o, Clients)
  <2>1. PICK other \in Objects : Become(CopyConstruct(Now, o, other))
    BY <1>1, <1>5 DEF ClientCopy
  <2>2. /\ AllCounted(CopyConstruct(Now, o, other), left, joined)
        /\ CopyConstruct(Now, o, other).pin_ = Put(Now.pin_, o, Now.pin_[other])
    BY <1>1, <1>5, CopyCounts DEF ClientCopy
  <2>3. left' = left /\ joined' = joined
    BY <1>5 DEF ClientCopy
  <2> QED
    BY <1>1, <1>2, <2>1, <2>2, <2>3
<1>6. CASE ClientAssign(o, Clients)
  <2>1. PICK other \in Objects :
          Become(OperatorAssign(Now, o, other)) /\ Moves(pin_[o], pin_[other])
    BY <1>1, <1>6 DEF ClientAssign
  <2>2. /\ AllCounted(OperatorAssign(Now, o, other), left', joined')
        /\ OperatorAssign(Now, o, other).pin_ = Put(Now.pin_, o, Now.pin_[other])
    BY <1>1, <1>3, <2>1, AnyAssignCounts
  <2> QED
    BY <1>1, <1>2, <1>3, <2>1, <2>2
<1>7. CASE ClientSetPin(o, Pins \ {Vbus})
  <2>1. PICK p \in Pins : Become(AssignNew(Now, o, p)) /\ Moves(pin_[o], p)
    BY <1>7 DEF ClientSetPin
  <2>2. /\ AllCounted(AssignNew(Now, o, p), left', joined')
        /\ AssignNew(Now, o, p).pin_ = Put(Now.pin_, o, p)
    BY <1>1, <1>3, <2>1, AssignNewCounts
  <2> QED
    BY <1>1, <1>2, <1>3, <2>1, <2>2
<1>8. CASE ClientDestroy(o)
  BY <1>1, <1>2, <1>8, DestroyCounts DEF ClientDestroy
<1>9. CASE /\ Become(EnableInterrupt(Now, o)) \/ Become(DisableInterrupt(Now, o))
           /\ UNCHANGED <<left, joined>>
  BY <1>1, <1>2, <1>9, InterruptCounts
<1> QED
  BY <1>4, <1>5, <1>6, <1>7, <1>8, <1>9 DEF Client

TimeStarts(data, p) == [data EXCEPT ![p].sinceMs = 0]

LEMMA TimesStart ==
  ASSUME NEW data \in Data, NEW p \in Pins, 0 \in Elapsed
  PROVE  /\ TimeStarts(data, p) \in Data
         /\ \A x \in Pins : x # p => TimeStarts(data, p)[x] = data[x]
         /\ TimeStarts(data, p)[p].count = data[p].count
         /\ TimeStarts(data, p)[p].intEnabled_ = data[p].intEnabled_
BY DEF Data, PinData, TimeStarts

LEMMA EdgeKeeps ==
  ASSUME PinInv, NEW p \in Pins, Edge(p)
  PROVE  PinInv'
<1>1. level' \in [Pins -> {0, 1}] /\ UNCHANGED <<pin_, gpio, irq, upMs, left, joined>>
  BY DEF Edge, PinInv, PinTypeOK
<1>2. CASE UNCHANGED <<pin__data_, work>>
  BY <1>1, <1>2 DEF PinInv, PinTypeOK, PinsCounted
<1>3. CASE /\ pin__data_' = [pin__data_ EXCEPT ![p].sinceMs = 0]
           /\ work' = Append(work, p)
  <2>1. /\ pin__data_' \in [Pins \cup {PIN_COUNT} -> PinData]
        /\ \A x \in Pins : /\ pin__data_'[x].count = pin__data_[x].count
                           /\ pin__data_'[x].intEnabled_ = pin__data_[x].intEnabled_
    <3>1. 0 \in Elapsed /\ pin__data_ \in Data
      BY PinAssumption DEF PinInv, PinTypeOK, Elapsed, Data
    <3>2. /\ pin__data_' \in Data /\ \A x \in Pins : x # p => pin__data_'[x] = pin__data_[x]
          /\ pin__data_'[p].count = pin__data_[p].count
          /\ pin__data_'[p].intEnabled_ = pin__data_[p].intEnabled_
      <4>1. pin__data_' = TimeStarts(pin__data_, p)
        BY <1>3 DEF TimeStarts
      <4> QED
        BY <3>1, <4>1, TimesStart
    <3> QED
      BY <3>2 DEF Data
  <2>2. work' \in Seq(Pins) /\ Len(work') <= MaxQueued
    BY <1>3, PinAssumption DEF PinInv, PinTypeOK, Edge
  <2> QED
    BY <1>1, <2>1, <2>2 DEF PinInv, PinTypeOK, PinsCounted
<1> QED
  BY <1>2, <1>3 DEF Edge, InterruptHandler

LEMMA PinTickKeeps ==
  ASSUME PinInv, PinTick
  PROVE  PinInv'
<1>1. \A ms \in Elapsed : Older(ms) \in Elapsed
  BY PinAssumption DEF Elapsed, Older
<1>2. /\ pin__data_' \in [Pins \cup {PIN_COUNT} -> PinData]
      /\ \A x \in Pins : /\ pin__data_'[x].count = pin__data_[x].count
                         /\ pin__data_'[x].intEnabled_ = pin__data_[x].intEnabled_
  <2>1. pin__data_ \in Data /\ DOMAIN pin__data_ = Pins \cup {PIN_COUNT}
    BY DEF PinInv, PinTypeOK, Data
  <2>2. ASSUME NEW x \in Pins \cup {PIN_COUNT}
        PROVE  /\ pin__data_'[x] \in PinData
               /\ pin__data_'[x].count = pin__data_[x].count
               /\ pin__data_'[x].intEnabled_ = pin__data_[x].intEnabled_
    <3> DEFINE d == pin__data_[x]
    <3>1. d \in PinData /\ pin__data_'[x] = [d EXCEPT !.sinceMs = Older(@)]
      BY <2>1 DEF PinTick, Data
    <3>2. Older(d.sinceMs) \in Elapsed
      BY <1>1, <3>1 DEF PinData
    <3> HIDE DEF d
    <3>3. /\ pin__data_'[x] \in PinData
          /\ pin__data_'[x].count = d.count /\ pin__data_'[x].intEnabled_ = d.intEnabled_
      BY <3>1, <3>2 DEF PinData
    <3> QED
      BY <3>3 DEF d
  <2>3. pin__data_' = [x \in Pins \cup {PIN_COUNT} |-> pin__data_'[x]]
    BY <2>1 DEF PinTick
  <2> QED
    BY <2>2, <2>3
<1>3. PinTypeOK'
  BY <1>1, <1>2 DEF PinInv, PinTypeOK, PinTick
<1>4. PinsCounted'
  BY <1>2 DEF PinInv, PinsCounted, PinTick
<1> QED
  BY <1>3, <1>4 DEF PinInv, PinTick

LEMMA RunPinWorkKeeps ==
  ASSUME PinInv, RunPinWork
  PROVE  PinInv'
<1>1. work' \in Seq(Pins) /\ Len(work') <= MaxQueued
  BY HeadTailProperties, EmptySeq, PinAssumption DEF RunPinWork, RunWork, PinInv, PinTypeOK
<1> QED
  BY <1>1 DEF PinInv, PinTypeOK, PinsCounted, RunPinWork, RunWork, objects

LEMMA PinStarts == UsbPowerInit => PinInv
<1> SUFFICES ASSUME UsbPowerInit PROVE PinInv
  OBVIOUS
<1>1. PinTypeOK
  BY PinAssumption, EmptySeq
     DEF UsbPowerInit, PinInit, PinTypeOK, NewPinData, PinData, Elapsed
<1>2. ASSUME NEW p \in Pins
      PROVE  {o \in Objects : pin_[o] = p} = {}
  BY PinAssumption DEF UsbPowerInit, PinInit
<1>3. PinsCounted
  BY <1>2, FS_EmptySet DEF PinsCounted, UsbPowerInit, PinInit, NewPinData
<1> QED
  BY <1>1, <1>3, UsbPowerAssumption, PinAssumption DEF PinInv, UsbPowerInit, PinInit

(* A pin counts the objects that name it, is on while there is one, and    *)
(* without any has no interrupt, for any pins, any objects that can be     *)
(* counted and any clients; but for the pins that an object was made to    *)
(* leave for another, and whether those others are on.                     *)
THEOREM PinsAreCounted == UsbPowerSpec => []PinsCounted
<1>1. PinInv /\ [UsbPowerNext]_usbVars => PinInv'
  <2> SUFFICES ASSUME PinInv, [UsbPowerNext]_usbVars PROVE PinInv'
    OBVIOUS
  <2>1. CASE UNCHANGED pinVars
    BY <2>1 DEF pinVars, objects, PinInv, PinTypeOK, PinsCounted
  <2>2. CASE UsbPowerNext
    BY <2>1, <2>2, UsbCallsKeep, ClientKeeps, EdgeKeeps, PinTickKeeps, RunPinWorkKeeps,
       UsbPowerAssumption
       DEF UsbPowerNext, DisablePowerSaveMode, StartTinyUsb, TusbInit, VbusChanges
  <2> QED
    BY <2>1, <2>2 DEF usbVars
<1>2. PinInv => PinsCounted
  BY DEF PinInv
<1> QED
  BY PinStarts, <1>1, <1>2, PTL DEF UsbPowerSpec

-----------------------------------------------------------------------------
(* Timeline, for any capacities, events, and threads that record and       *)
(* report.                                                                 *)

Things == EventNames \cup {ResetEvent, NoEvent}

(* A circular buffer of capacity c that holds the items: size, head and    *)
(* next are s, h and n.                                                    *)
Place(a, c) == IF a < c THEN a ELSE a - c

Holds(list, c, s, h, n, items) ==
  /\ c \in Nat \ {0} /\ s \in 0 .. c /\ h \in 0 .. c - 1
  /\ n = Place(h + s, c)
  /\ list \in [0 .. c - 1 -> Things]
  /\ items \in Seq(Things) /\ Len(items) = s
  /\ \A i \in 1 .. s : items[i] = list[Place(h + i - 1, c)]

Buffered ==
  /\ capacity_ \in MaxEvents
  /\ Holds(list_, capacity_, size_, head_, next_, recorded)

(* The items are the last of what a report had, after the first o.         *)
Behind(had, items, o) ==
  /\ o \in Nat /\ had \in Seq(Things) /\ Len(had) = o + Len(items)
  /\ \A i \in 1 .. Len(items) : had[o + i] = items[i]

(* Some of the first k of a sequence, in their order.                      *)
InOrderTo(some, of, k) ==
  \E place \in [1 .. Len(some) -> 1 .. k] :
    /\ \A i, j \in 1 .. Len(some) : i < j => place[i] < place[j]
    /\ \A i \in 1 .. Len(some) : some[i] = of[place[i]]

(* A report that goes on has printed as many as it says it has, all of     *)
(* them of those up to the next, and the first of all if none came late.   *)
Printed(w, o) ==
  /\ Len(w.printed) = IF w.this = 1 THEN 0 ELSE w.this
  /\ InOrderTo(w.printed, w.had, o + w.this)
  /\ w.late = 0 => w.printed = SubSeq(w.had, 1, Len(w.printed))

Following(w, items, o) ==
  /\ Behind(w.had, items, o) /\ o <= w.late
  /\ \/ w.at = "size" /\ w.printed = <<>>
     \/ w.at = "width" /\ w.this \in 1 .. Len(items) /\ w.printed = <<>>
     \/ w.at = "print" /\ w.this \in 1 .. Len(items) /\ Printed(w, o)

Reported(w) ==
  /\ InOrder(w.printed, w.had)
  /\ w.late = 0 => IsPrefix(w.printed, w.had)
  /\ Len(w.printed) >= Len(w.had) - w.late \/ Len(w.had) <= w.late + 1

Printing(w, items) ==
  \/ w.at = "idle" \/ w.cleared
  \/ \E o \in Nat : Following(w, items, o)
  \/ w.at = "end" /\ Reported(w)

Places == {"idle", "size", "width", "print", "end"}
Walks == [at : Places, this : Nat, printed : Seq(Things), had : Seq(Things),
          late : Nat, cleared : BOOLEAN]

(* The inductive invariant: the buffer holds what is to be kept, and that  *)
(* is the end of what a report had and has got since, before which there   *)
(* is no more than what came late.                                         *)
TimelineInv ==
  /\ Buffered
  /\ adding \in [Recorders -> EventNames \cup {NoEvent}]
  /\ walk \in [Reporters -> Walks]
  /\ \A r \in Reporters : Printing(walk[r], recorded)

LEMMA NoneYet == <<>> \in Seq(Things)
OBVIOUS

(* Counting on past the end of a buffer of c.                              *)
LEMMA PlaceIsMod ==
  ASSUME NEW c \in Nat \ {0}, NEW a \in 0 .. 2 * c - 1
  PROVE  a % c = Place(a, c) /\ Place(a, c) \in 0 .. c - 1
<1>1. a % c \in 0 .. c - 1 /\ a = c * (a \div c) + (a % c) /\ a \div c \in Int
  BY SMTT(20)
<1> DEFINE q == a \div c
           r == a % c
<1>2. r \in 0 .. c - 1 /\ a = c * q + r /\ q \in Int
  BY <1>1
<1> HIDE DEF q, r
<1>3. q <= 1
  <2> SUFFICES ASSUME q >= 2 PROVE FALSE
    BY <1>2
  <2>1. c * q >= c * 2
    BY <1>2
  <2> QED
    BY <1>2, <2>1
<1>4. q >= 0
  <2> SUFFICES ASSUME q <= -1 PROVE FALSE
    BY <1>2
  <2>1. c * q <= c * (-1)
    BY <1>2
  <2> QED
    BY <1>2, <2>1
<1>5. CASE q = 0
  <2>1. a = r
    BY <1>2, <1>5
  <2> QED
    BY <2>1, <1>2 DEF Place, r
<1>6. CASE q = 1
  <2>1. a = c + r
    BY <1>2, <1>6
  <2> QED
    BY <2>1, <1>2 DEF Place, r
<1> QED
  BY <1>2, <1>3, <1>4, <1>5, <1>6

(* Pushing onto a buffer with room adds the item.                          *)
LEMMA PushAdds ==
  ASSUME NEW list, NEW c, NEW s, NEW h, NEW n, NEW items, Holds(list, c, s, h, n, items), s < c,
         NEW e \in Things
  PROVE  Holds([list EXCEPT ![n] = e], c, s + 1, h, Place(n + 1, c), Append(items, e))
<1>1. n \in 0 .. c - 1
  BY DEF Holds, Place
<1>2. Place(n + 1, c) = Place(h + (s + 1), c)
  BY DEF Holds, Place
<1>3. [list EXCEPT ![n] = e] \in [0 .. c - 1 -> Things]
  BY <1>1 DEF Holds
<1>4. Append(items, e) \in Seq(Things) /\ Len(Append(items, e)) = s + 1
  BY DEF Holds
<1>5. ASSUME NEW i \in 1 .. s + 1
      PROVE  Append(items, e)[i] = [list EXCEPT ![n] = e][Place(h + i - 1, c)]
  <2>1. Place(h + i - 1, c) \in 0 .. c - 1
    BY DEF Holds, Place
  <2>2. CASE i = s + 1
    <3>1. Place(h + i - 1, c) = n
      BY <2>2 DEF Holds, Place
    <3> QED
      BY <2>2, <3>1, <1>1 DEF Holds
  <2>3. CASE i \in 1 .. s
    <3>1. Place(h + i - 1, c) # n
      BY <2>3 DEF Holds, Place
    <3> QED
      BY <2>3, <3>1, <2>1 DEF Holds
  <2> QED
    BY <2>2, <2>3 DEF Holds
<1> QED
  BY <1>1, <1>2, <1>3, <1>4, <1>5 DEF Holds

(* Pushing onto a full one drops the oldest for it.                        *)
LEMMA PushReplaces ==
  ASSUME NEW list, NEW c, NEW s, NEW h, NEW n, NEW items, Holds(list, c, s, h, n, items), s = c,
         NEW e \in Things
  PROVE  Holds([list EXCEPT ![n] = e], c, s, Place(h + 1, c), Place(n + 1, c),
               Append(Tail(items), e))
<1> USE DEF Holds
<1>1. n = h /\ n \in 0 .. c - 1
  BY DEF Place
<1>2. Place(n + 1, c) = Place(Place(h + 1, c) + s, c) /\ Place(h + 1, c) \in 0 .. c - 1
  BY <1>1 DEF Place
<1>3. [list EXCEPT ![n] = e] \in [0 .. c - 1 -> Things]
  BY <1>1
<1>4. items # <<>>
  OBVIOUS
<1> DEFINE t == Tail(items)
<1>5. t \in Seq(Things) /\ Len(t) = s - 1 /\ \A i \in 1 .. s - 1 : t[i] = items[i + 1]
  BY <1>4
<1> HIDE DEF t
<1>6. Append(t, e) \in Seq(Things) /\ Len(Append(t, e)) = s
  BY <1>5
<1>7. ASSUME NEW i \in 1 .. s
      PROVE  Append(t, e)[i] = [list EXCEPT ![n] = e][Place(Place(h + 1, c) + i - 1, c)]
  <2>1. Place(Place(h + 1, c) + i - 1, c) \in 0 .. c - 1
    BY DEF Place
  <2>2. CASE i = s
    <3>1. Place(Place(h + 1, c) + i - 1, c) = n
      BY <2>2, <1>1 DEF Place
    <3>2. Append(t, e)[i] = e
      BY <2>2, <1>5
    <3> QED
      BY <3>1, <3>2, <1>1
  <2>3. CASE i \in 1 .. s - 1
    <3>1. Place(Place(h + 1, c) + i - 1, c) # n
      BY <2>3, <1>1 DEF Place
    <3>2. Place(Place(h + 1, c) + i - 1, c) = Place(h + (i + 1) - 1, c)
      BY <2>3 DEF Place
    <3>3. items[i + 1] = list[Place(h + (i + 1) - 1, c)]
      BY <2>3
    <3>4. Append(t, e)[i] = items[i + 1]
      BY <2>3, <1>5
    <3> QED
      BY <3>1, <3>2, <3>3, <3>4, <2>1
  <2>4. i = s \/ i \in 1 .. s - 1
    OBVIOUS
  <2> QED
    BY <2>2, <2>3, <2>4
<1> QED
  BY <1>2, <1>3, <1>5, <1>6, <1>7 DEF t

LEMMA CapacityIs ==
  Buffered => capacity_ \in Nat \ {0} /\ capacity_ < IndexLimit /\ IndexLimit \in Nat
BY TimelineAssumption DEF Buffered, Holds

(* Recording an event keeps the newest, or the oldest.                     *)
LEMMA AddItemKeeps ==
  ASSUME Buffered, NEW e \in EventNames, AddItem(e)
  PROVE  /\ Buffered' /\ capacity_' = capacity_
         /\ \/ walk' = walk /\ recorded' = recorded /\ size_' = size_
            \/ /\ walk' = [r \in Reporters |->
                            IF r \in Walking
                              THEN [walk[r] EXCEPT !.had = Append(@, e), !.late = @ + 1]
                              ELSE walk[r]]
               /\ \/ /\ size_' = size_ + 1 /\ recorded' = Append(recorded, e)
                  \/ /\ size_' = size_ /\ recorded # <<>>
                     /\ recorded' = Append(Tail(recorded), e)
<1> DEFINE pushed == [list_ EXCEPT ![next_] = e]
<1>0. capacity_ \in Nat \ {0} /\ size_ \in 0 .. capacity_ /\ head_ \in 0 .. capacity_ - 1
      /\ next_ = Place(head_ + size_, capacity_) /\ Len(recorded) = size_ /\ capacity_ \in MaxEvents
      /\ Holds(list_, capacity_, size_, head_, next_, recorded) /\ e \in Things
  BY DEF Buffered, Holds, Things
<1>1. CASE size_ = capacity_ /\ keepOldest_
  BY <1>1 DEF AddItem, Buffered, buffer
<1>2. CASE ~(size_ = capacity_ /\ keepOldest_)
  <2>1. PushBack(e) /\ capacity_' = capacity_ /\ list_' = pushed
        /\ next_' = (next_ + 1) % capacity_
        /\ recorded' = Append(IF size_ = capacity_ THEN Tail(recorded) ELSE recorded, e)
        /\ walk' = [r \in Reporters |->
                      IF r \in Walking
                        THEN [walk[r] EXCEPT !.had = Append(@, e), !.late = @ + 1]
                        ELSE walk[r]]
    BY <1>0, <1>2 DEF AddItem, PushBack
  <2>2. next_ \in 0 .. capacity_ - 1 /\ (next_ = head_ /\ size_ > 0) = (size_ = capacity_)
    BY <1>0 DEF Place
  <2>3. next_' = Place(next_ + 1, capacity_)
    <3>1. next_ + 1 \in 0 .. 2 * capacity_ - 1
      BY <1>0, <2>2
    <3> QED
      BY <1>0, <3>1, <2>1, PlaceIsMod
  <2>4. CASE size_ = capacity_
    <3>1. head_' = (head_ + 1) % capacity_ /\ size_' = size_
      BY <2>1, <2>2, <2>4 DEF PushBack
    <3>2. head_ + 1 \in 0 .. 2 * capacity_ - 1
      BY <1>0
    <3>3. head_' = Place(head_ + 1, capacity_)
      BY <1>0, <3>1, <3>2, PlaceIsMod
    <3>4. Holds(pushed, capacity_, size_, Place(head_ + 1, capacity_), Place(next_ + 1, capacity_),
                Append(Tail(recorded), e))
      BY <1>0, <2>4, PushReplaces
    <3> HIDE DEF pushed
    <3>5. recorded' = Append(Tail(recorded), e)
      BY <2>1, <2>4
    <3>6. recorded # <<>>
      BY <1>0, <2>4
    <3>7. Buffered'
      BY <1>0, <2>1, <2>3, <3>1, <3>3, <3>4, <3>5 DEF Buffered
    <3> QED
      BY <2>1, <3>1, <3>5, <3>6, <3>7
  <2>5. CASE size_ # capacity_
    <3>1. head_' = head_ /\ size_' = size_ + 1
      BY <2>1, <2>2, <2>5 DEF PushBack
    <3>2. size_ < capacity_
      BY <1>0, <2>5
    <3>4. Holds(pushed, capacity_, size_ + 1, head_, Place(next_ + 1, capacity_),
                Append(recorded, e))
      BY <1>0, <3>2, PushAdds
    <3> HIDE DEF pushed
    <3>5. recorded' = Append(recorded, e)
      BY <2>1, <2>5
    <3>6. Buffered'
      BY <1>0, <2>1, <2>3, <3>1, <3>4, <3>5 DEF Buffered
    <3> QED
      BY <2>1, <3>1, <3>5, <3>6
  <2> QED
    BY <2>4, <2>5
<1> QED
  BY <1>1, <1>2

(* What is in the order of a sequence is in that of a longer one.          *)
LEMMA InOrderOfMore ==
  ASSUME NEW some, NEW of, NEW longer, NEW k \in Nat, NEW m \in Nat, k <= m,
         InOrderTo(some, of, k), \A i \in 1 .. k : longer[i] = of[i]
  PROVE  InOrderTo(some, longer, m)
<1>1. PICK place \in [1 .. Len(some) -> 1 .. k] :
        /\ \A i, j \in 1 .. Len(some) : i < j => place[i] < place[j]
        /\ \A i \in 1 .. Len(some) : some[i] = of[place[i]]
  BY DEF InOrderTo
<1>2. place \in [1 .. Len(some) -> 1 .. m]
  <2>1. 1 .. k \subseteq 1 .. m
    OBVIOUS
  <2> QED
    BY <1>1, <2>1
<1>3. \A i \in 1 .. Len(some) : some[i] = longer[place[i]]
  BY <1>1
<1> QED
  BY <1>1, <1>2, <1>3 DEF InOrderTo

(* And with the next of it, it is in its order too.                        *)
LEMMA InOrderAndNext ==
  ASSUME NEW some \in Seq(Things), NEW of, NEW k \in Nat, InOrderTo(some, of, k),
         NEW e \in Things, of[k + 1] = e
  PROVE  InOrderTo(some \o <<e>>, of, k + 1)
<1> DEFINE n == Len(some)
           more == some \o <<e>>
<1>1. n \in Nat /\ Len(more) = n + 1 /\ more[n + 1] = e /\ \A i \in 1 .. n : more[i] = some[i]
  OBVIOUS
<1>2. PICK place \in [1 .. n -> 1 .. k] :
        /\ \A i, j \in 1 .. n : i < j => place[i] < place[j]
        /\ \A i \in 1 .. n : some[i] = of[place[i]]
  BY DEF InOrderTo
<1> HIDE DEF n, more
<1> DEFINE p == [i \in 1 .. n + 1 |-> IF i = n + 1 THEN k + 1 ELSE place[i]]
<1>3. \A i \in 1 .. n : p[i] = place[i] /\ place[i] \in 1 .. k
  BY <1>1, <1>2
<1>4. p[n + 1] = k + 1 /\ p \in [1 .. n + 1 -> 1 .. k + 1]
  BY <1>1, <1>2
<1> HIDE DEF p
<1>5. \A i \in 1 .. n + 1 : i = n + 1 \/ i \in 1 .. n
  BY <1>1
<1>6. \A i, j \in 1 .. n + 1 : i < j => p[i] < p[j]
  <2> SUFFICES ASSUME NEW i \in 1 .. n + 1, NEW j \in 1 .. n + 1, i < j PROVE p[i] < p[j]
    OBVIOUS
  <2>1. i \in 1 .. n
    BY <1>1
  <2>2. CASE j = n + 1
    BY <2>1, <2>2, <1>3, <1>4
  <2>3. CASE j \in 1 .. n
    BY <2>1, <2>3, <1>2, <1>3
  <2> QED
    BY <1>5, <2>2, <2>3
<1>7. \A i \in 1 .. n + 1 : more[i] = of[p[i]]
  BY <1>1, <1>2, <1>3, <1>4, <1>5
<1> QED
  BY <1>1, <1>4, <1>6, <1>7 DEF InOrderTo, more

LEMMA NoneInOrder ==
  ASSUME NEW of, NEW k \in Nat
  PROVE  InOrderTo(<<>>, of, k)
<1>1. [i \in 1 .. 0 |-> i] \in [1 .. Len(<<>>) -> 1 .. k]
  OBVIOUS
<1>2. \A i \in 1 .. Len(<<>>) : FALSE
  OBVIOUS
<1> QED
  BY <1>1, <1>2 DEF InOrderTo

LEMMA InOrderIs ==
  ASSUME NEW some \in Seq(Things), NEW of \in Seq(Things), InOrderTo(some, of, Len(of))
  PROVE  InOrder(some, of)
<1>1. DOMAIN some = 1 .. Len(some) /\ DOMAIN of = 1 .. Len(of)
  OBVIOUS
<1> QED
  BY <1>1 DEF InOrder, InOrderTo

LEMMA PrefixIs ==
  ASSUME NEW some \in Seq(Things), NEW of \in Seq(Things), Len(some) <= Len(of),
         some = SubSeq(of, 1, Len(some))
  PROVE  IsPrefix(some, of)
<1>1. SubSeq(some, 1, Len(some)) = some
  OBVIOUS
<1> QED
  BY <1>1 DEF IsPrefix

(* Appending, and cutting the first off.                                   *)
LEMMA AppendIs ==
  ASSUME NEW s \in Seq(Things), NEW e \in Things
  PROVE  /\ Append(s, e) \in Seq(Things) /\ Len(Append(s, e)) = Len(s) + 1
         /\ \A i \in 1 .. Len(s) : Append(s, e)[i] = s[i]
         /\ Append(s, e)[Len(s) + 1] = e
OBVIOUS

LEMMA TailIs ==
  ASSUME NEW s \in Seq(Things), s # <<>>
  PROVE  /\ Len(s) \in Nat \ {0} /\ Tail(s) \in Seq(Things) /\ Len(Tail(s)) = Len(s) - 1
         /\ \A i \in 1 .. Len(s) - 1 : Tail(s)[i] = s[i + 1]
OBVIOUS

(* One event more: at the end of what there is, or for the oldest of it.   *)
LEMMA BehindOneMore ==
  ASSUME NEW had, NEW items \in Seq(Things), NEW o, Behind(had, items, o), NEW e \in Things
  PROVE  /\ Behind(Append(had, e), Append(items, e), o)
         /\ items # <<>> => Behind(Append(had, e), Append(Tail(items), e), o + 1)
<1> DEFINE h == Append(had, e)
           n == Len(items)
<1>1. o \in Nat /\ had \in Seq(Things) /\ Len(had) = o + n /\ n \in Nat
      /\ \A i \in 1 .. n : had[o + i] = items[i]
  BY DEF Behind
<1>2. h \in Seq(Things) /\ Len(h) = o + n + 1 /\ h[o + n + 1] = e
      /\ \A i \in 1 .. o + n : h[i] = had[i]
  BY <1>1, AppendIs
<1> HIDE DEF h
<1>3. Behind(h, Append(items, e), o)
  <2> DEFINE t == Append(items, e)
  <2>1. t \in Seq(Things) /\ Len(t) = n + 1 /\ t[n + 1] = e /\ \A i \in 1 .. n : t[i] = items[i]
    BY AppendIs
  <2> HIDE DEF t, n
  <2>2. ASSUME NEW i \in 1 .. n + 1 PROVE h[o + i] = t[i]
    <3>1. CASE i = n + 1
      BY <1>1, <1>2, <2>1, <3>1
    <3>2. CASE i \in 1 .. n
      BY <1>1, <1>2, <2>1, <3>2
    <3> QED
      BY <1>1, <3>1, <3>2
  <2>3. Behind(h, t, o)
    BY <1>1, <1>2, <2>1, <2>2 DEF Behind
  <2> QED
    BY <2>3 DEF t
<1>4. ASSUME items # <<>> PROVE Behind(h, Append(Tail(items), e), o + 1)
  <2> DEFINE t == Append(Tail(items), e)
  <2>1. n \in Nat \ {0} /\ Tail(items) \in Seq(Things) /\ Len(Tail(items)) = n - 1
        /\ \A i \in 1 .. n - 1 : Tail(items)[i] = items[i + 1]
    BY <1>4, TailIs
  <2>2. t \in Seq(Things) /\ Len(t) = n - 1 + 1 /\ t[n - 1 + 1] = e
        /\ \A i \in 1 .. n - 1 : t[i] = Tail(items)[i]
    BY <2>1, AppendIs
  <2> HIDE DEF t, n
  <2>3. n - 1 + 1 = n
    BY <2>1
  <2>4. ASSUME NEW i \in 1 .. n PROVE h[o + 1 + i] = t[i]
    <3>1. CASE i = n
      BY <1>1, <1>2, <2>1, <2>2, <2>3, <3>1
    <3>2. CASE i \in 1 .. n - 1
      <4>1. i + 1 \in 1 .. n /\ o + 1 + i = o + (i + 1) /\ o + (i + 1) \in 1 .. o + n
        BY <1>1, <2>1, <3>2
      <4>2. had[o + (i + 1)] = items[i + 1] /\ h[o + (i + 1)] = had[o + (i + 1)]
        BY <1>1, <1>2, <4>1
      <4> QED
        BY <2>1, <2>2, <3>2, <4>1, <4>2
    <3> QED
      BY <2>1, <3>1, <3>2
  <2>5. Behind(h, t, o + 1)
    BY <1>1, <1>2, <2>1, <2>2, <2>3, <2>4 DEF Behind
  <2> QED
    BY <2>5 DEF t
<1> QED
  BY <1>3, <1>4 DEF h

(* A report that has the event too goes on as it did.                      *)
LEMMA FollowingOneMore ==
  ASSUME NEW items \in Seq(Things), NEW w \in Walks, NEW o \in Nat, Following(w, items, o),
         NEW e \in Things, NEW more,
         more = Append(items, e) \/ (items # <<>> /\ more = Append(Tail(items), e))
  PROVE  \E q \in Nat : Following([w EXCEPT !.had = Append(@, e), !.late = @ + 1], more, q)
<1> DEFINE v == [w EXCEPT !.had = Append(@, e), !.late = @ + 1]
<1>1. w.had \in Seq(Things) /\ w.late \in Nat /\ w.this \in Nat
  BY DEF Walks
<1>2. v.at = w.at /\ v.this = w.this /\ v.printed = w.printed
      /\ v.had = Append(w.had, e) /\ v.late = w.late + 1
  BY DEF Walks
<1> HIDE DEF v
<1>3. Behind(w.had, items, o) /\ o <= w.late
  BY DEF Following
<1>4. Len(w.had) = o + Len(items)
  BY <1>3 DEF Behind
<1>5. PICK q \in Nat : /\ Behind(v.had, more, q) /\ q >= o /\ q <= o + 1
                       /\ Len(more) \in Nat /\ Len(items) <= Len(more)
  <2>1. CASE more = Append(items, e)
    <3>1. Behind(v.had, more, o)
      BY <1>2, <1>3, <2>1, BehindOneMore
    <3>2. Len(more) = Len(items) + 1
      BY <2>1, AppendIs
    <3> QED
      BY <3>1, <3>2
  <2>2. CASE items # <<>> /\ more = Append(Tail(items), e)
    <3>1. Behind(v.had, more, o + 1)
      BY <1>2, <1>3, <2>2, BehindOneMore
    <3>2. o + 1 \in Nat /\ Tail(items) \in Seq(Things) /\ Len(Tail(items)) = Len(items) - 1
          /\ Len(items) \in Nat
      BY <2>2, TailIs
    <3>3. Len(more) = Len(Tail(items)) + 1
      BY <2>2, <3>2, AppendIs
    <3>4. Len(more) = Len(items)
      <4> DEFINE t == Tail(items)
      <4>1. Len(t) = Len(items) - 1 /\ Len(more) = Len(t) + 1 /\ Len(items) \in Nat
        BY <3>2, <3>3
      <4> HIDE DEF t
      <4> QED
        BY <4>1
    <3> QED
      BY <3>1, <3>2, <3>4
  <2> QED
    BY <2>1, <2>2
<1>6. q <= v.late /\ v.late # 0
  BY <1>1, <1>2, <1>3, <1>5
<1>7. ASSUME w.this \in 1 .. Len(items), Printed(w, o) PROVE Printed(v, q)
  <2>1. \A i \in 1 .. o + w.this : v.had[i] = w.had[i]
    BY <1>1, <1>2, <1>4, <1>7
  <2>2. o + w.this \in Nat /\ q + w.this \in Nat /\ o + w.this <= q + w.this
    BY <1>1, <1>5
  <2>3. InOrderTo(w.printed, w.had, o + w.this)
    BY <1>7 DEF Printed
  <2>4. InOrderTo(v.printed, v.had, q + v.this)
    BY <1>2, <2>1, <2>2, <2>3, InOrderOfMore
  <2> QED
    BY <1>2, <1>6, <1>7, <2>4 DEF Printed
<1>8. \/ v.at = "size" /\ v.printed = <<>>
      \/ v.at = "width" /\ v.this \in 1 .. Len(more) /\ v.printed = <<>>
      \/ v.at = "print" /\ v.this \in 1 .. Len(more) /\ Printed(v, q)
  <2>1. 1 .. Len(items) \subseteq 1 .. Len(more)
    BY <1>5
  <2> QED
    BY <1>2, <1>7, <2>1 DEF Following
<1>9. Following(v, more, q)
  BY <1>5, <1>6, <1>8 DEF Following
<1> QED
  BY <1>9 DEF v

LEMMA BufferIs ==
  Buffered => /\ capacity_ \in Nat \ {0} /\ size_ \in 0 .. capacity_
              /\ recorded \in Seq(Things) /\ Len(recorded) = size_
              /\ capacity_ < IndexLimit /\ IndexLimit \in Nat
<1> SUFFICES ASSUME Buffered
             PROVE  /\ capacity_ \in Nat \ {0} /\ size_ \in 0 .. capacity_
                    /\ recorded \in Seq(Things) /\ Len(recorded) = size_
                    /\ capacity_ < IndexLimit /\ IndexLimit \in Nat
  OBVIOUS
<1>1. capacity_ < IndexLimit /\ IndexLimit \in Nat
  BY CapacityIs
<1> QED
  BY <1>1 DEF Buffered, Holds

LEMMA PrintingStays ==
  ASSUME NEW w, NEW items, NEW more, Printing(w, items), w.at = "idle" \/ w.cleared \/ w.at = "end"
  PROVE  Printing(w, more)
BY DEF Printing, Following

LEMMA AddingKeeps ==
  ASSUME TimelineInv, NEW e \in EventNames, AddItem(e)
  PROVE  /\ Buffered' /\ walk' \in [Reporters -> Walks]
         /\ \A r \in Reporters : Printing(walk'[r], recorded')
<1>1. Buffered'
  BY AddItemKeeps DEF TimelineInv
<1>2. CASE walk' = walk /\ recorded' = recorded /\ size_' = size_
  BY <1>1, <1>2 DEF TimelineInv
<1>3. CASE /\ walk' = [r \in Reporters |->
                            IF r \in Walking
                              THEN [walk[r] EXCEPT !.had = Append(@, e), !.late = @ + 1]
                              ELSE walk[r]]
           /\ \/ recorded' = Append(recorded, e)
              \/ recorded # <<>> /\ recorded' = Append(Tail(recorded), e)
  <2> SUFFICES ASSUME NEW r \in Reporters
               PROVE  walk'[r] \in Walks /\ Printing(walk'[r], recorded')
    BY <1>1, <1>3
  <2>1. walk[r] \in Walks /\ Printing(walk[r], recorded) /\ recorded \in Seq(Things) /\ e \in Things
    BY BufferIs DEF TimelineInv, Things
  <2>2. CASE r \notin Walking
    <3>1. walk'[r] = walk[r]
      BY <1>3, <2>2
    <3>2. walk[r].at = "idle" \/ walk[r].cleared \/ walk[r].at = "end"
      BY <2>2 DEF Walking, Reporting
    <3>3. Printing(walk[r], recorded')
      BY <2>1, <3>2, PrintingStays
    <3> QED
      BY <2>1, <3>1, <3>3
  <2>3. CASE r \in Walking
    <3> DEFINE w == walk[r]
               v == [w EXCEPT !.had = Append(@, e), !.late = @ + 1]
    <3>1. walk'[r] = v
      BY <1>3, <2>3
    <3>2. w.at # "idle" /\ ~w.cleared /\ w.at # "end"
      BY <2>3 DEF Walking, Reporting
    <3>3. PICK o \in Nat : Following(w, recorded, o)
      BY <2>1, <3>2 DEF Printing
    <3>4. \E q \in Nat : Following(v, recorded', q)
      <4>1. recorded' = Append(recorded, e)
            \/ (recorded # <<>> /\ recorded' = Append(Tail(recorded), e))
        BY <1>3
      <4> HIDE DEF w
      <4> QED
        BY <2>1, <3>3, <4>1, FollowingOneMore DEF w
    <3>5. v \in Walks
      <4>1. Append(w.had, e) \in Seq(Things) /\ w.late + 1 \in Nat
        BY <2>1 DEF Walks
      <4> QED
        BY <2>1, <4>1 DEF Walks
    <3> HIDE DEF w, v
    <3> QED
      BY <3>1, <3>4, <3>5 DEF Printing
  <2> QED
    BY <2>2, <2>3
<1> QED
  BY <1>1, <1>2, <1>3, AddItemKeeps DEF TimelineInv

(* What leaves the buffer and the reports alone.                           *)
LEMMA AsideKeeps ==
  ASSUME TimelineInv, UNCHANGED <<buffer, recorded, walk>>,
         adding' \in [Recorders -> EventNames \cup {NoEvent}]
  PROVE  TimelineInv'
BY DEF TimelineInv, Buffered, buffer

LEMMA RecordingKeeps ==
  ASSUME TimelineInv,
         \/ \E e \in EventNames : Event(e) \/ \E t \in Recorders : EventBegins(t, e)
         \/ \E t \in Recorders : EventAdds(t)
  PROVE  TimelineInv'
<1>1. ASSUME NEW e \in EventNames, Event(e) PROVE TimelineInv'
  <2>1. CASE currentlyReporting_
    BY <1>1, <2>1, AsideKeeps DEF Event, TimelineInv
  <2>2. CASE ~currentlyReporting_
    BY <1>1, <2>2, AddingKeeps DEF Event, TimelineInv
  <2> QED
    BY <2>1, <2>2
<1>2. ASSUME NEW e \in EventNames, NEW t \in Recorders, EventBegins(t, e) PROVE TimelineInv'
  BY <1>2, AsideKeeps DEF EventBegins, TimelineInv
<1>3. ASSUME NEW t \in Recorders, EventAdds(t) PROVE TimelineInv'
  <2>1. adding[t] \in EventNames /\ adding' \in [Recorders -> EventNames \cup {NoEvent}]
    BY <1>3 DEF EventAdds, TimelineInv
  <2> QED
    BY <1>3, <2>1, AddingKeeps DEF EventAdds, TimelineInv
<1> QED
  BY <1>1, <1>2, <1>3

(* What the callers clear, cut or switch.                                  *)
LEMMA ClearedKeeps ==
  ASSUME TimelineInv, Cleared
  PROVE  walk' \in [Reporters -> Walks] /\ \A r \in Reporters : Printing(walk'[r], recorded')
<1> SUFFICES ASSUME NEW r \in Reporters
             PROVE  walk'[r] \in Walks /\ Printing(walk'[r], recorded')
  BY DEF Cleared
<1>1. walk[r] \in Walks
  BY DEF TimelineInv
<1>2. CASE r \notin Reporting
  BY <1>1, <1>2 DEF Cleared, Printing, Reporting
<1>3. CASE r \in Reporting
  <2> DEFINE v == [walk[r] EXCEPT !.cleared = TRUE, !.printed = <<>>, !.had = <<>>, !.late = 0]
  <2>1. v \in Walks /\ v.cleared
    BY <1>1, NoneYet DEF Walks
  <2>2. walk'[r] = v
    BY <1>3 DEF Cleared
  <2> HIDE DEF v
  <2> QED
    BY <2>1, <2>2 DEF Printing
<1> QED
  BY <1>2, <1>3

LEMMA ClearingKeeps ==
  ASSUME TimelineInv, TimelineReset \/ Keep \/ \E c \in MaxEvents : SetMaxEvents(c)
  PROVE  TimelineInv'
<1>1. CASE TimelineReset
  <2>1. /\ capacity_ \in Nat \ {0} /\ capacity_ \in MaxEvents
        /\ list_ \in [0 .. capacity_ - 1 -> Things]
    BY DEF TimelineInv, Buffered, Holds
  <2>2. Buffered'
    <3>1. CASE currentlyReporting_
      BY <1>1, <2>1, <3>1, NoneYet DEF TimelineReset, Buffered, Holds, Place
    <3>2. CASE ~currentlyReporting_
      <4>1. 1 % capacity_ = Place(1, capacity_)
        <5>1. 1 \in 0 .. 2 * capacity_ - 1
          BY <2>1
        <5> QED
          BY <2>1, <5>1, PlaceIsMod
      <4>2. /\ capacity_' = capacity_ /\ head_' = 0 /\ size_' = 1 /\ next_' = Place(1, capacity_)
            /\ recorded' = <<ResetEvent>> /\ list_' = [list_ EXCEPT ![0] = ResetEvent]
        BY <1>1, <3>2, <4>1 DEF TimelineReset
      <4>3. list_' \in [0 .. capacity_ - 1 -> Things] /\ list_'[0] = ResetEvent
        BY <2>1, <4>2 DEF Things
      <4>4. recorded' \in Seq(Things) /\ Len(recorded') = 1 /\ recorded'[1] = ResetEvent
        BY <4>2 DEF Things
      <4>5. \A i \in 1 .. 1 : recorded'[i] = list_'[Place(0 + i - 1, capacity_)]
        BY <2>1, <4>3, <4>4 DEF Place
      <4> QED
        BY <2>1, <4>2, <4>3, <4>4, <4>5 DEF Buffered, Holds
    <3> QED
      BY <3>1, <3>2
  <2> QED
    BY <1>1, <2>2, ClearedKeeps DEF TimelineReset, TimelineInv
<1>2. CASE Keep
  BY <1>2, AsideKeeps DEF Keep, TimelineInv
<1>3. ASSUME NEW c \in MaxEvents, SetMaxEvents(c) PROVE TimelineInv'
  <2>1. c \in Nat \ {0} /\ capacity_ \in Nat \ {0} /\ list_ \in [0 .. capacity_ - 1 -> Things]
    BY TimelineAssumption DEF TimelineInv, Buffered, Holds
  <2>2. list_' \in [0 .. c - 1 -> Things]
    BY <1>3, <2>1 DEF SetMaxEvents, Things
  <2>3. Buffered'
    BY <1>3, <2>1, <2>2, NoneYet DEF SetMaxEvents, Buffered, Holds, Place
  <2> QED
    BY <1>3, <2>3, ClearedKeeps DEF SetMaxEvents, TimelineInv
<1> QED
  BY <1>1, <1>2, <1>3

(* Reports.                                                                *)

(* An element is the item that was recorded in its place.                  *)
LEMMA ElementIs ==
  ASSUME Buffered, NEW i \in 0 .. size_ - 1
  PROVE  Element(i) = recorded[i + 1]
<1>1. capacity_ \in Nat \ {0} /\ head_ \in 0 .. capacity_ - 1 /\ size_ \in 0 .. capacity_
      /\ \A k \in 1 .. size_ : recorded[k] = list_[Place(head_ + k - 1, capacity_)]
  BY DEF Buffered, Holds
<1>2. (head_ + i) % capacity_ = Place(head_ + i, capacity_)
  <2>1. head_ + i \in 0 .. 2 * capacity_ - 1
    BY <1>1
  <2> QED
    BY <1>1, <2>1, PlaceIsMod
<1>3. i + 1 \in 1 .. size_ /\ head_ + (i + 1) - 1 = head_ + i /\ i < size_
  BY <1>1
<1> QED
  BY <1>1, <1>2, <1>3 DEF Element

(* The first items, and the next.                                          *)
LEMMA OneItemMore ==
  ASSUME NEW S, NEW items \in Seq(S), NEW k \in 1 .. Len(items) - 1
  PROVE  SubSeq(items, 1, k) \o <<items[k + 1]>> = SubSeq(items, 1, k + 1)
<1>1. SubSeq(items, 1, k) \in Seq(S) /\ Len(SubSeq(items, 1, k)) = k
      /\ \A i \in 1 .. k : SubSeq(items, 1, k)[i] = items[i]
  OBVIOUS
<1>2. SubSeq(items, 1, k + 1) \in Seq(S) /\ Len(SubSeq(items, 1, k + 1)) = k + 1
      /\ \A i \in 1 .. k + 1 : SubSeq(items, 1, k + 1)[i] = items[i]
  OBVIOUS
<1> DEFINE a == SubSeq(items, 1, k)
           b == SubSeq(items, 1, k + 1)
           d == a \o <<items[k + 1]>>
<1>3. items[k + 1] \in S
  OBVIOUS
<1>4. d \in Seq(S) /\ Len(d) = k + 1 /\ \A i \in 1 .. k + 1 : d[i] = items[i]
  <2> HIDE DEF a
  <2> QED
    BY <1>1, <1>3 DEF a
<1> HIDE DEF a, b, d
<1>5. b = d
  BY <1>2, <1>4, SeqEqual DEF b
<1> QED
  BY <1>5 DEF a, b, d

LEMMA FirstOne ==
  ASSUME NEW S, NEW items \in Seq(S), Len(items) >= 1
  PROVE  SubSeq(items, 1, 1) = <<items[1]>>
<1> DEFINE a == SubSeq(items, 1, 1)
           b == <<items[1]>>
<1>1. a \in Seq(S) /\ Len(a) = 1 /\ a[1] = items[1]
  OBVIOUS
<1>2. b \in Seq(S) /\ Len(b) = 1 /\ b[1] = items[1]
  OBVIOUS
<1> HIDE DEF a, b
<1>3. \A i \in 1 .. Len(a) : a[i] = b[i]
  BY <1>1, <1>2
<1>4. a = b
  BY <1>1, <1>2, <1>3, SeqEqual
<1> QED
  BY <1>4 DEF a, b

(* One report goes on, to a state w that is right.                         *)
LEMMA ReportGoesOn ==
  ASSUME TimelineInv, NEW r \in Reporters, NEW w \in Walks, Printing(w, recorded),
         walk' = [walk EXCEPT ![r] = w], UNCHANGED <<buffer, adding, recorded>>
  PROVE  TimelineInv'
<1>1. Buffered' /\ adding' = adding
  BY DEF TimelineInv, Buffered, buffer
<1>2. walk' \in [Reporters -> Walks]
  BY DEF TimelineInv
<1>3. \A q \in Reporters : Printing(walk'[q], recorded')
  BY DEF TimelineInv
<1> QED
  BY <1>1, <1>2, <1>3 DEF TimelineInv

LEMMA NoWalkIs == NoWalk \in Walks /\ \A items : Printing(NoWalk, items)
BY NoneYet DEF NoWalk, Walks, Places, Printing

LEMMA ReportNowKeeps ==
  ASSUME TimelineInv, NEW r \in Reporters, ReportNow(r)
  PROVE  TimelineInv'
<1> DEFINE w == [NoWalk EXCEPT !.at = "size", !.had = recorded]
<1>1. walk' = [walk EXCEPT ![r] = w] /\ UNCHANGED <<buffer, adding, recorded>>
  BY DEF ReportNow
<1>2. recorded \in Seq(Things)
  BY BufferIs DEF TimelineInv
<1>3. w.at = "size" /\ w.printed = <<>> /\ w.had = recorded /\ w.late = 0 /\ w \in Walks
  BY <1>2, NoneYet DEF NoWalk, Walks, Places
<1> HIDE DEF w
<1>4. Behind(recorded, recorded, 0)
  BY <1>2 DEF Behind
<1>5. Following(w, recorded, 0)
  BY <1>3, <1>4 DEF Following
<1>6. Printing(w, recorded)
  BY <1>5 DEF Printing
<1> QED
  BY <1>1, <1>3, <1>6, ReportGoesOn

LEMMA ReportEndsKeeps ==
  ASSUME TimelineInv, NEW r \in Reporters, ReportEnds(r)
  PROVE  TimelineInv'
BY NoWalkIs, ReportGoesOn DEF ReportEnds

(* A list that was cleared is gone on with, whatever is printed of it.     *)
LEMMA ClearedGoesOn ==
  ASSUME TimelineInv, NEW r \in Reporters, walk[r].cleared,
         FindWidths(r) \/ FindWidth(r) \/ PrintEvent(r)
  PROVE  TimelineInv'
<1>1. walk[r] \in Walks /\ walk \in [Reporters -> Walks] /\ IndexLimit \in Nat \ {0}
  BY CapacityIs DEF TimelineInv
<1>2. ASSUME NEW p, walk' = [walk EXCEPT ![r] = p], p \in Walks, p.cleared,
             UNCHANGED <<buffer, adding, recorded>>
      PROVE  TimelineInv'
  BY <1>2, ReportGoesOn DEF Printing
<1>3. CASE FindWidths(r)
  <2> DEFINE p == [walk[r] EXCEPT !.at = IF size_ > 0 THEN "width" ELSE "end", !.this = 1]
  <2>1. walk' = [walk EXCEPT ![r] = p] /\ UNCHANGED <<buffer, adding, recorded>>
    BY <1>1, <1>3 DEF FindWidths
  <2>2. p \in Walks /\ p.cleared
    BY <1>1 DEF Walks, Places
  <2> HIDE DEF p
  <2> QED
    BY <1>2, <2>1, <2>2
<1>4. CASE FindWidth(r) /\ walk[r].this # size_
  <2> DEFINE p == [walk[r] EXCEPT !.this = (@ + 1) % IndexLimit]
  <2>1. walk' = [walk EXCEPT ![r] = p] /\ UNCHANGED <<buffer, adding, recorded>>
    BY <1>1, <1>4 DEF FindWidth
  <2>2. walk[r].this \in Nat
    BY <1>1 DEF Walks
  <2>3. (walk[r].this + 1) % IndexLimit \in Nat
    BY <1>1, <2>2
  <2>4. p \in Walks /\ p.cleared
    BY <1>1, <2>3 DEF Walks, Places
  <2> HIDE DEF p
  <2> QED
    BY <1>2, <2>1, <2>4
<1>5. CASE FindWidth(r) /\ walk[r].this = size_
  <2> DEFINE p == [walk[r] EXCEPT !.at = "print", !.this = 1]
  <2>1. walk' = [walk EXCEPT ![r] = p] /\ UNCHANGED <<buffer, adding, recorded>>
    BY <1>1, <1>5 DEF FindWidth
  <2>2. p \in Walks /\ p.cleared
    BY <1>1 DEF Walks, Places
  <2> HIDE DEF p
  <2> QED
    BY <1>2, <2>1, <2>2
<1>6. CASE PrintEvent(r) /\ walk[r].this < size_
  <2> DEFINE p == [walk[r] EXCEPT !.this = walk[r].this + 1, !.printed = @ \o <<>>]
  <2>1. walk' = [walk EXCEPT ![r] = p] /\ UNCHANGED <<buffer, adding, recorded>>
    BY <1>1, <1>6 DEF PrintEvent
  <2>2. p \in Walks /\ p.cleared
    <3>1. walk[r].printed \o <<>> \in Seq(Things) /\ walk[r].this + 1 \in Nat
      BY <1>1, NoneYet DEF Walks
    <3> QED
      BY <1>1, <3>1 DEF Walks, Places
  <2> HIDE DEF p
  <2> QED
    BY <1>2, <2>1, <2>2
<1>7. CASE PrintEvent(r) /\ ~(walk[r].this < size_)
  <2> DEFINE p == [walk[r] EXCEPT !.at = "end"]
  <2>1. walk' = [walk EXCEPT ![r] = p] /\ UNCHANGED <<buffer, adding, recorded>>
    BY <1>1, <1>7 DEF PrintEvent
  <2>2. p \in Walks /\ p.cleared
    BY <1>1 DEF Walks, Places
  <2> HIDE DEF p
  <2> QED
    BY <1>2, <2>1, <2>2
<1> QED
  BY <1>3, <1>4, <1>5, <1>6, <1>7

(* Where a report is that goes on.                                         *)
LEMMA FollowingIs ==
  ASSUME TimelineInv, NEW r \in Reporters, walk[r].at \in {"size", "width", "print"},
         ~walk[r].cleared
  PROVE  /\ walk[r] \in Walks /\ walk \in [Reporters -> Walks]
         /\ \E o \in Nat : /\ Following(walk[r], recorded, o) /\ o <= walk[r].late
                           /\ Len(walk[r].had) = o + size_
         /\ Buffered /\ size_ \in Nat /\ recorded \in Seq(Things) /\ Len(recorded) = size_
<1>1. Buffered /\ size_ \in Nat /\ recorded \in Seq(Things) /\ Len(recorded) = size_
  BY BufferIs DEF TimelineInv
<1>2. PICK o \in Nat : Following(walk[r], recorded, o)
  BY DEF TimelineInv, Printing
<1>3. o <= walk[r].late /\ Len(walk[r].had) = o + size_
  BY <1>1, <1>2 DEF Following, Behind
<1> QED
  BY <1>1, <1>2, <1>3 DEF TimelineInv

(* Nothing was printed of at most one event more than came late.           *)
LEMMA NoneIsDone ==
  ASSUME NEW w \in Walks, w.printed = <<>>, Len(w.had) <= w.late + 1
  PROVE  Reported(w)
<1>1. w.had \in Seq(Things) /\ Len(w.had) \in Nat
  BY DEF Walks
<1>2. InOrder(<<>>, w.had)
  BY <1>1, NoneInOrder, InOrderIs, NoneYet
<1>3. IsPrefix(<<>>, w.had)
  BY <1>1 DEF IsPrefix
<1> QED
  BY <1>2, <1>3 DEF Reported

LEMMA FindingKeeps ==
  ASSUME TimelineInv, NEW r \in Reporters, FindWidths(r) \/ FindWidth(r), ~walk[r].cleared
  PROVE  TimelineInv'
<1>0. walk[r].at \in {"size", "width", "print"}
  BY DEF FindWidths, FindWidth
<1>1. walk[r] \in Walks /\ walk \in [Reporters -> Walks] /\ Buffered /\ size_ \in Nat
      /\ recorded \in Seq(Things) /\ Len(recorded) = size_
  BY <1>0, FollowingIs
<1>2. PICK o \in Nat : /\ Following(walk[r], recorded, o) /\ o <= walk[r].late
                       /\ Len(walk[r].had) = o + size_
  BY <1>0, FollowingIs
<1>3. walk[r].had \in Seq(Things) /\ walk[r].late \in Nat /\ walk[r].this \in Nat
  BY <1>1 DEF Walks
<1>4. ASSUME NEW p \in Walks, walk' = [walk EXCEPT ![r] = p], Following(p, recorded, o),
             UNCHANGED <<buffer, adding, recorded>>
      PROVE  TimelineInv'
  BY <1>4, ReportGoesOn DEF Printing
<1>5. CASE FindWidths(r)
  <2>1. walk[r].printed = <<>>
    BY <1>2, <1>5 DEF Following, FindWidths
  <2>2. CASE size_ > 0
    <3> DEFINE p == [walk[r] EXCEPT !.at = "width", !.this = 1]
    <3>1. walk' = [walk EXCEPT ![r] = p] /\ UNCHANGED <<buffer, adding, recorded>>
      BY <1>1, <1>5, <2>2 DEF FindWidths
    <3>2. p \in Walks /\ p.at = "width" /\ p.this = 1 /\ p.printed = <<>>
          /\ p.had = walk[r].had /\ p.late = walk[r].late
      BY <1>1, <2>1 DEF Walks, Places
    <3> HIDE DEF p
    <3>3. Following(p, recorded, o)
      BY <1>1, <1>2, <2>2, <3>2 DEF Following
    <3> QED
      BY <1>4, <3>1, <3>2, <3>3
  <2>3. CASE ~(size_ > 0)
    <3> DEFINE p == [walk[r] EXCEPT !.at = "end", !.this = 1]
    <3>1. walk' = [walk EXCEPT ![r] = p] /\ UNCHANGED <<buffer, adding, recorded>>
      BY <1>1, <1>5, <2>3 DEF FindWidths
    <3>2. p \in Walks /\ p.at = "end" /\ p.printed = <<>>
          /\ p.had = walk[r].had /\ p.late = walk[r].late
      BY <1>1, <2>1 DEF Walks, Places
    <3> HIDE DEF p
    <3>3. Len(p.had) <= p.late + 1
      BY <1>1, <1>2, <1>3, <2>3, <3>2
    <3>4. Reported(p)
      BY <3>2, <3>3, NoneIsDone
    <3> QED
      BY <3>1, <3>2, <3>4, ReportGoesOn DEF Printing
  <2> QED
    BY <2>2, <2>3
<1>6. CASE FindWidth(r) /\ walk[r].this # size_
  <2> DEFINE p == [walk[r] EXCEPT !.this = (@ + 1) % IndexLimit]
  <2>1. walk' = [walk EXCEPT ![r] = p] /\ UNCHANGED <<buffer, adding, recorded>>
    BY <1>1, <1>6 DEF FindWidth
  <2>2. walk[r].at = "width" /\ walk[r].this \in 1 .. size_ - 1 /\ walk[r].printed = <<>>
    <3>1. walk[r].at = "width" /\ walk[r].this \in 1 .. size_ /\ walk[r].printed = <<>>
      BY <1>1, <1>2, <1>6 DEF Following, FindWidth
    <3> QED
      BY <1>1, <1>6, <3>1
  <2>3. (walk[r].this + 1) % IndexLimit = walk[r].this + 1
    <3>1. IndexLimit \in Nat \ {0} /\ walk[r].this + 1 \in 0 .. IndexLimit - 1
      BY <1>1, <2>2, BufferIs
    <3>2. walk[r].this + 1 \in 0 .. 2 * IndexLimit - 1
      BY <3>1
    <3>3. (walk[r].this + 1) % IndexLimit = Place(walk[r].this + 1, IndexLimit)
      BY <3>1, <3>2, PlaceIsMod
    <3> QED
      BY <3>1, <3>3 DEF Place
  <2>4. p \in Walks /\ p.at = "width" /\ p.this = walk[r].this + 1 /\ p.printed = <<>>
        /\ p.had = walk[r].had /\ p.late = walk[r].late
    <3> DEFINE k == (walk[r].this + 1) % IndexLimit
    <3>1. k \in Nat /\ k = walk[r].this + 1
      BY <1>3, <2>3
    <3> HIDE DEF k
    <3>2. p = [walk[r] EXCEPT !.this = k]
      BY DEF k
    <3> HIDE DEF p
    <3> QED
      BY <1>1, <2>2, <3>1, <3>2 DEF Walks
  <2> HIDE DEF p
  <2>5. p.this \in 1 .. Len(recorded)
    BY <1>1, <2>2, <2>4
  <2>6. Following(p, recorded, o)
    BY <1>2, <2>4, <2>5 DEF Following
  <2> QED
    BY <1>4, <2>1, <2>4, <2>6
<1>7. CASE FindWidth(r) /\ walk[r].this = size_
  <2> DEFINE p == [walk[r] EXCEPT !.at = "print", !.this = 1]
  <2>1. walk' = [walk EXCEPT ![r] = p] /\ UNCHANGED <<buffer, adding, recorded>>
    BY <1>1, <1>7 DEF FindWidth
  <2>2. walk[r].printed = <<>> /\ 1 \in 1 .. Len(recorded)
    BY <1>1, <1>2, <1>7 DEF Following, FindWidth
  <2>3. p \in Walks /\ p.at = "print" /\ p.this = 1 /\ p.printed = <<>>
        /\ p.had = walk[r].had /\ p.late = walk[r].late
    BY <1>1, <2>2 DEF Walks, Places
  <2> HIDE DEF p
  <2>4. Printed(p, o)
    <3>1. InOrderTo(<<>>, p.had, o + 1)
      BY NoneInOrder
    <3>2. SubSeq(p.had, 1, 0) = <<>> /\ Len(<<>>) = 0
      BY <1>3, <2>3
    <3> QED
      BY <2>3, <3>1, <3>2 DEF Printed
  <2>5. Following(p, recorded, o)
    BY <1>2, <2>2, <2>3, <2>4 DEF Following
  <2> QED
    BY <1>4, <2>1, <2>3, <2>5
<1> QED
  BY <1>5, <1>6, <1>7

LEMMA FirstTwo ==
  ASSUME NEW a \in Things, NEW b \in Things
  PROVE  <<>> \o <<a, b>> = <<a>> \o <<b>>
<1> DEFINE s == <<>> \o <<a, b>>
           t == <<a>> \o <<b>>
<1>1. s \in Seq(Things) /\ Len(s) = 2 /\ s[1] = a /\ s[2] = b
  OBVIOUS
<1>2. t \in Seq(Things) /\ Len(t) = 2 /\ t[1] = a /\ t[2] = b
  OBVIOUS
<1> HIDE DEF s, t
<1>3. \A i \in 1 .. Len(s) : s[i] = t[i]
  BY <1>1, <1>2
<1>4. s = t
  BY <1>1, <1>2, <1>3, SeqEqual
<1> QED
  BY <1>4 DEF s, t

(* Two more, and one more, of what a report had.                           *)
LEMMA PrintedMore ==
  ASSUME NEW w \in Walks, NEW o \in Nat, w.this \in Nat \ {0}, o + w.this + 1 <= Len(w.had),
         w.late = 0 => o = 0, Printed(w, o), NEW new,
         new = IF w.this = 1 THEN <<w.had[o + 1], w.had[o + 2]>> ELSE <<w.had[o + w.this + 1]>>
  PROVE  /\ w.printed \o new \in Seq(Things) /\ Len(w.printed \o new) = w.this + 1
         /\ InOrderTo(w.printed \o new, w.had, o + w.this + 1)
         /\ w.late = 0 => w.printed \o new = SubSeq(w.had, 1, w.this + 1)
<1> DEFINE had == w.had
           this == w.this
           printed == w.printed
<1>1. had \in Seq(Things) /\ printed \in Seq(Things) /\ this \in Nat \ {0} /\ Len(had) \in Nat
      /\ o + this + 1 <= Len(had)
  BY DEF Walks
<1>2. Len(printed) = (IF this = 1 THEN 0 ELSE this) /\ InOrderTo(printed, had, o + this)
      /\ (w.late = 0 => printed = SubSeq(had, 1, Len(printed)))
      /\ new = IF this = 1 THEN <<had[o + 1], had[o + 2]>> ELSE <<had[o + this + 1]>>
  BY DEF Printed
<1> HIDE DEF had, this, printed
<1>3. CASE this = 1
  <2>1. had[o + 1] \in Things /\ had[o + 2] \in Things
    BY <1>1, <1>3
  <2>2. printed = <<>>
    BY <1>1, <1>2, <1>3
  <2> DEFINE one == <<had[o + 1]>>
             both == one \o <<had[o + 2]>>
  <2>3. one = <<>> \o <<had[o + 1]>> /\ one \in Seq(Things) /\ both \in Seq(Things)
        /\ Len(both) = 2
    BY <2>1
  <2>4. printed \o new = both
    <3> DEFINE a == had[o + 1]
               b == had[o + 2]
    <3>1. a \in Things /\ b \in Things /\ new = <<a, b>> /\ both = <<a>> \o <<b>>
      BY <1>2, <1>3, <2>1
    <3> HIDE DEF a, b, both
    <3>2. <<>> \o <<a, b>> = <<a>> \o <<b>>
      BY <3>1, FirstTwo
    <3> QED
      BY <2>2, <3>1, <3>2
  <2>5. InOrderTo(one, had, o + 1)
    BY <2>1, <2>3, NoneInOrder, InOrderAndNext, NoneYet
  <2>6. InOrderTo(both, had, o + 1 + 1)
    <3> HIDE DEF one
    <3>1. o + 1 \in Nat /\ had[o + 1 + 1] = had[o + 2]
      BY <1>1
    <3> QED
      BY <2>1, <2>3, <2>5, <3>1, InOrderAndNext
  <2>7. ASSUME w.late = 0 PROVE both = SubSeq(had, 1, 2)
    <3>1. o = 0 /\ 1 \in 1 .. Len(had) - 1 /\ Len(had) >= 1
      BY <1>1, <1>3, <2>7
    <3>2. SubSeq(had, 1, 1) = <<had[1]>>
      BY <1>1, <3>1, FirstOne
    <3>3. SubSeq(had, 1, 1) \o <<had[1 + 1]>> = SubSeq(had, 1, 1 + 1)
      BY <1>1, <3>1, OneItemMore
    <3> QED
      BY <3>1, <3>2, <3>3
  <2> HIDE DEF both
  <2>8. o + 1 + 1 = o + this + 1 /\ this + 1 = 2
    BY <1>3
  <2> QED
    BY <2>3, <2>4, <2>6, <2>7, <2>8 DEF had, this, printed
<1>4. CASE this # 1
  <2> DEFINE e == had[o + this + 1]
             more == printed \o <<e>>
  <2>0. o + this + 1 \in 1 .. Len(had)
    BY <1>1
  <2>1. e \in Things /\ Len(printed) = this /\ printed \o new = more
    <3>1. new = <<had[o + this + 1]>>
      BY <1>2, <1>4
    <3>2. had[o + this + 1] \in Things
      BY <1>1, <2>0
    <3>3. Len(printed) = this
      BY <1>2, <1>4
    <3> QED
      BY <3>1, <3>2, <3>3
  <2> HIDE DEF e
  <2>2. more \in Seq(Things) /\ Len(more) = this + 1
    BY <1>1, <2>1
  <2>3. InOrderTo(more, had, o + this + 1)
    BY <1>1, <1>2, <2>1, InOrderAndNext DEF e
  <2>4. ASSUME w.late = 0 PROVE more = SubSeq(had, 1, this + 1)
    <3>1. o + this + 1 = this + 1 /\ this \in 1 .. Len(had) - 1
      BY <1>1, <2>4
    <3> QED
      BY <1>1, <1>2, <2>1, <2>4, <3>1, OneItemMore DEF e
  <2> HIDE DEF more
  <2> QED
    BY <2>1, <2>2, <2>3, <2>4 DEF had, this, printed
<1> QED
  BY <1>3, <1>4

LEMMA PrintEventKeeps ==
  ASSUME TimelineInv, NEW r \in Reporters, PrintEvent(r), ~walk[r].cleared
  PROVE  TimelineInv'
<1> DEFINE w == walk[r]
           this == w.this
           new == IF this = 1 THEN <<Element(0), Element(1)>> ELSE <<Element(this)>>
<1>0. w.at = "print"
  BY DEF PrintEvent
<1>1. w \in Walks /\ walk \in [Reporters -> Walks] /\ Buffered /\ size_ \in Nat
      /\ recorded \in Seq(Things) /\ Len(recorded) = size_
  BY <1>0, FollowingIs
<1>2. PICK o \in Nat : Following(w, recorded, o) /\ o <= w.late /\ Len(w.had) = o + size_
  BY <1>0, FollowingIs
<1>3. w.had \in Seq(Things) /\ w.printed \in Seq(Things) /\ w.late \in Nat /\ this \in Nat
  BY <1>1 DEF Walks
<1>4. this \in 1 .. size_ /\ Printed(w, o) /\ \A i \in 1 .. size_ : w.had[o + i] = recorded[i]
  BY <1>0, <1>1, <1>2 DEF Following, Behind
<1>5. CASE this < size_
  <2> DEFINE p == [w EXCEPT !.this = this + 1, !.printed = w.printed \o new]
  <2>1. walk' = [walk EXCEPT ![r] = p] /\ UNCHANGED <<buffer, adding, recorded>>
    BY <1>1, <1>5 DEF PrintEvent
  <2>2. new = IF this = 1 THEN <<w.had[o + 1], w.had[o + 2]>> ELSE <<w.had[o + this + 1]>>
    <3>1. \A i \in 0 .. size_ - 1 : Element(i) = w.had[o + (i + 1)]
      <4>1. \A i \in 0 .. size_ - 1 : Element(i) = recorded[i + 1] /\ i + 1 \in 1 .. size_
        BY <1>1, ElementIs
      <4> QED
        BY <1>4, <4>1
    <3>2. this \in 0 .. size_ - 1 /\ 0 \in 0 .. size_ - 1 /\ o + (this + 1) = o + this + 1
      BY <1>1, <1>4, <1>5
    <3>3. Element(this) = w.had[o + (this + 1)] /\ Element(0) = w.had[o + (0 + 1)]
      BY <3>1, <3>2
    <3>4. o + (0 + 1) = o + 1 /\ (this = 1 => o + (this + 1) = o + 2)
      OBVIOUS
    <3> HIDE DEF w, this
    <3> QED
      BY <3>2, <3>3, <3>4
  <2>3. this \in Nat \ {0} /\ o + this + 1 <= Len(w.had) /\ (w.late = 0 => o = 0)
    BY <1>1, <1>2, <1>3, <1>4, <1>5
  <2> DEFINE q == w.printed \o new
  <2>4. /\ q \in Seq(Things) /\ Len(q) = this + 1
        /\ InOrderTo(q, w.had, o + this + 1)
        /\ w.late = 0 => q = SubSeq(w.had, 1, this + 1)
    <3> HIDE DEF w, new
    <3> QED
      BY <1>1, <1>4, <2>2, <2>3, PrintedMore DEF this
  <2>5. p = [w EXCEPT !.this = this + 1, !.printed = q] /\ this + 1 \in Nat
    BY <1>3
  <2> HIDE DEF q, p
  <2>6. p \in Walks /\ p.this = this + 1 /\ p.printed = q /\ p.at = w.at /\ p.had = w.had
        /\ p.late = w.late
    <3> HIDE DEF w, this
    <3> QED
      BY <1>1, <2>4, <2>5 DEF Walks
  <2>7. this + 1 \in 1 .. Len(recorded) /\ this + 1 # 1 /\ o + (this + 1) = o + this + 1
    BY <1>1, <1>4, <1>5
  <2> HIDE DEF w, this
  <2>8. Printed(p, o)
    BY <2>4, <2>6, <2>7 DEF Printed
  <2>9. Following(p, recorded, o)
    BY <1>0, <1>2, <2>6, <2>7, <2>8 DEF Following
  <2> QED
    BY <2>1, <2>6, <2>9, ReportGoesOn DEF Printing
<1>6. CASE ~(this < size_)
  <2> DEFINE p == [w EXCEPT !.at = "end"]
  <2>1. walk' = [walk EXCEPT ![r] = p] /\ UNCHANGED <<buffer, adding, recorded>>
    BY <1>1, <1>6 DEF PrintEvent
  <2>2. p \in Walks /\ p.at = "end" /\ p.printed = w.printed /\ p.had = w.had /\ p.late = w.late
    BY <1>1 DEF Walks, Places
  <2>3. this = size_ /\ o + this = Len(w.had) /\ Len(w.printed) = IF this = 1 THEN 0 ELSE this
    BY <1>1, <1>2, <1>4, <1>6 DEF Printed
  <2>4. InOrder(w.printed, w.had)
    <3>1. InOrderTo(w.printed, w.had, Len(w.had))
      BY <1>4, <2>3 DEF Printed
    <3> QED
      BY <1>3, <3>1, InOrderIs
  <2>5. Len(w.printed) <= Len(w.had) /\ Len(w.printed) \in Nat
    BY <1>1, <1>2, <1>3, <2>3
  <2>6. w.late = 0 => IsPrefix(w.printed, w.had)
    BY <1>3, <1>4, <2>5, PrefixIs DEF Printed
  <2>7. Len(w.printed) >= Len(w.had) - w.late \/ Len(w.had) <= w.late + 1
    BY <1>1, <1>2, <1>3, <2>3
  <2> HIDE DEF p, w
  <2>8. Reported(p)
    BY <2>2, <2>4, <2>6, <2>7 DEF Reported
  <2> QED
    BY <2>1, <2>2, <2>8, ReportGoesOn DEF Printing
<1> QED
  BY <1>5, <1>6

(* The initial event is what every timeline begins with.                   *)
LEMMA TimelineStarts == TimelineInit => TimelineInv
<1> SUFFICES ASSUME TimelineInit PROVE TimelineInv
  OBVIOUS
<1>1. capacity_ \in MaxEvents /\ capacity_ \in Nat \ {0}
  BY TimelineAssumption DEF TimelineInit
<1>2. 1 % capacity_ = Place(1, capacity_)
  <2>1. 1 \in 0 .. 2 * capacity_ - 1
    BY <1>1
  <2> QED
    BY <1>1, <2>1, PlaceIsMod
<1>3. list_ \in [0 .. capacity_ - 1 -> Things] /\ list_[0] = ResetEvent
  BY <1>1 DEF TimelineInit, Things
<1>4. recorded \in Seq(Things) /\ Len(recorded) = 1 /\ recorded[1] = ResetEvent
  BY DEF TimelineInit, Things
<1>5. \A i \in 1 .. 1 : recorded[i] = list_[Place(0 + i - 1, capacity_)]
  BY <1>1, <1>3, <1>4 DEF Place
<1>6. Buffered
  BY <1>1, <1>2, <1>3, <1>4, <1>5 DEF TimelineInit, Buffered, Holds
<1>7. walk \in [Reporters -> Walks] /\ \A r \in Reporters : Printing(walk[r], recorded)
  BY NoWalkIs DEF TimelineInit
<1> QED
  BY <1>6, <1>7 DEF TimelineInit, TimelineInv

(* A report prints what was recorded, each event once and in order, and    *)
(* misses no more than came late, for every capacity and any threads that  *)
(* record and report, whenever they are preempted; but for what it prints  *)
(* of a list that is cleared under it.                                     *)
THEOREM ReportsAreInOrder == TimelineSpec => []ReportInOrder
<1>1. TimelineInit => TimelineInv
  BY TimelineStarts
<1>2. TimelineInv /\ [TimelineNext]_timelineVars => TimelineInv'
  <2> SUFFICES ASSUME TimelineInv, [TimelineNext]_timelineVars PROVE TimelineInv'
    OBVIOUS
  <2>1. CASE \/ \E e \in EventNames : Event(e) \/ \E t \in Recorders : EventBegins(t, e)
             \/ \E t \in Recorders : EventAdds(t)
    BY <2>1, RecordingKeeps
  <2>2. CASE TimelineReset \/ Keep \/ \E c \in MaxEvents : SetMaxEvents(c)
    BY <2>2, ClearingKeeps
  <2>3. ASSUME NEW r \in Reporters,
               ReportNow(r) \/ FindWidths(r) \/ FindWidth(r) \/ PrintEvent(r) \/ ReportEnds(r)
        PROVE  TimelineInv'
    BY <2>3, ReportNowKeeps, ClearedGoesOn, FindingKeeps, PrintEventKeeps, ReportEndsKeeps
  <2>4. CASE UNCHANGED timelineVars
    BY <2>4, AsideKeeps DEF timelineVars, TimelineInv
  <2> QED
    BY <2>1, <2>2, <2>3, <2>4 DEF TimelineNext
<1>3. TimelineInv => ReportInOrder
  <2> SUFFICES ASSUME TimelineInv, NEW r \in Reporting, ~walk[r].cleared
               PROVE  /\ InOrder(walk[r].printed, walk[r].had)
                      /\ walk[r].late = 0 => IsPrefix(walk[r].printed, walk[r].had)
                      /\ walk[r].at = "end" =>
                           \/ Len(walk[r].printed) >= Len(walk[r].had) - walk[r].late
                           \/ Len(walk[r].had) <= walk[r].late + 1
    BY DEF ReportInOrder
  <2> DEFINE w == walk[r]
  <2>1. w \in Walks /\ w.at # "idle" /\ Printing(w, recorded)
    BY DEF TimelineInv, Reporting
  <2>2. w.had \in Seq(Things) /\ w.printed \in Seq(Things) /\ Len(w.had) \in Nat
    BY <2>1 DEF Walks
  <2> HIDE DEF w
  <2>3. CASE w.at = "end" /\ Reported(w)
    BY <2>3 DEF Reported, w
  <2>4. ASSUME NEW o \in Nat, Following(w, recorded, o)
        PROVE  /\ w.at # "end" /\ InOrder(w.printed, w.had)
               /\ w.late = 0 => IsPrefix(w.printed, w.had)
    <3>1. CASE w.printed = <<>>
      <4>1. InOrder(<<>>, w.had)
        BY <2>2, NoneInOrder, InOrderIs, NoneYet
      <4>2. IsPrefix(<<>>, w.had)
        BY <2>2 DEF IsPrefix
      <4> QED
        BY <2>4, <3>1, <4>1, <4>2 DEF Following
    <3>2. CASE w.at = "print" /\ w.this \in 1 .. Len(recorded) /\ Printed(w, o)
      <4>1. Len(w.had) = o + Len(recorded) /\ Len(recorded) \in Nat
        BY <2>4, BufferIs DEF TimelineInv, Following, Behind
      <4>2. InOrderTo(w.printed, w.had, Len(w.had))
        <5>1. o + w.this \in Nat /\ o + w.this <= Len(w.had)
          BY <3>2, <4>1
        <5> QED
          BY <2>2, <3>2, <5>1, InOrderOfMore DEF Printed
      <4>3. InOrder(w.printed, w.had)
        BY <2>2, <4>2, InOrderIs
      <4>4. Len(w.printed) <= Len(w.had)
        BY <2>2, <3>2, <4>1 DEF Printed
      <4>5. w.late = 0 => IsPrefix(w.printed, w.had)
        BY <2>2, <3>2, <4>4, PrefixIs DEF Printed
      <4> QED
        BY <3>2, <4>3, <4>5
    <3> QED
      BY <2>4, <3>1, <3>2 DEF Following
  <2> QED
    BY <2>1, <2>3, <2>4 DEF Printing, w
<1> QED
  BY <1>1, <1>2, <1>3, PTL DEF TimelineSpec

-----------------------------------------------------------------------------
(* UsbCdc, for FIFOs, packets and queues of every size, and wherever       *)
(* Send() preempts SendFromQueue(), as it erases too: first, the lengths   *)
(* and parts of sequences.                                                 *)

LEMMA MinOfTwo ==
  ASSUME NEW a \in Int, NEW b \in Int
  PROVE  Min({a, b}) = IF a <= b THEN a ELSE b
BY DEF Min

LEMMA MaxOfTwo ==
  ASSUME NEW a \in Int, NEW b \in Int
  PROVE  Max({a, b}) = IF a >= b THEN a ELSE b
BY DEF Max

LEMMA Part ==
  ASSUME NEW s \in Seq(Int), NEW m \in Nat \ {0}, NEW n \in 0 .. Len(s)
  PROVE  /\ SubSeq(s, m, n) \in Seq(Int)
         /\ Len(SubSeq(s, m, n)) = IF m <= n THEN n - m + 1 ELSE 0
<1>1. Len(s) \in Nat /\ \A i \in 1 .. Len(s) : s[i] \in Int
  BY LenProperties, ElementOfSeq
<1>2. \A i \in m .. n : s[i] \in Int
  BY <1>1
<1> QED
  BY <1>1, <1>2, SubSeqProperties

LEMMA Together ==
  ASSUME NEW s \in Seq(Int), NEW t \in Seq(Int)
  PROVE  s \o t \in Seq(Int) /\ Len(s \o t) = Len(s) + Len(t)
BY ConcatProperties

-----------------------------------------------------------------------------
(* What is under way.                                                      *)

(* A transfer goes on, or its end has yet to be seen: there will be a      *)
(* callback.                                                               *)
Busy == packet # <<>> \/ complete

QueueTypes ==
  /\ sendBuf_ \in Seq(Int) /\ fifo \in Seq(Int) /\ packet \in Seq(Int)
  /\ Len(fifo) <= FifoSize
  /\ capacity \in Nat /\ Len(sendBuf_) <= capacity
  /\ sendBufCapacity_ \in Nat /\ accepted \in Int /\ received \in Int
  /\ stage \in {"tud_task", "queue", "sent", "clear", "erase", "flush"}
  /\ bytesSent \in Nat /\ finish \in Nat
  /\ stage = "sent" => bytesSent <= Len(sendBuf_)
  /\ stage = "erase" => bytesSent <= finish /\ finish <= Len(sendBuf_)

(* Past SendFromQueue() the callback has made TinyUSB busy; when there was *)
(* nothing to send from, who queues meanwhile makes it busy.               *)
MovesInv ==
  /\ stage \in {"sent", "clear", "erase"} => Busy
  /\ stage \in {"tud_task", "flush"} /\ sendBuf_ # <<>> => Busy

QueueInv == QueueTypes /\ MovesInv

(* Room for bytes is what the FIFO has left, and a write of any, or to a   *)
(* FIFO that has some, leaves TinyUSB busy.                                *)
LEMMA Writing ==
  ASSUME QueueTypes, NEW bytes \in Seq(Int), Len(bytes) <= Room, Write(bytes), complete' = complete
  PROVE  /\ fifo' \in Seq(Int) /\ Len(fifo') <= FifoSize /\ packet' \in Seq(Int)
         /\ Busy => Busy'
         /\ Len(fifo) + Len(bytes) > 0 => Busy'
<1> DEFINE all == fifo \o bytes
           n == IF packet # <<>> \/ complete THEN 0 ELSE Min({PacketSize, Len(all)})
<1>1. /\ all \in Seq(Int) /\ Len(all) = Len(fifo) + Len(bytes) /\ Len(all) \in Nat
      /\ Len(all) <= FifoSize /\ Len(fifo) \in Nat /\ Len(bytes) \in Nat
  BY Together, LenProperties, UsbCdcAssumption DEF QueueTypes, Room
<1>2. PacketSize \in Nat \ {0} /\ FifoSize \in Nat
  BY UsbCdcAssumption
<1>3. fifo' = SubSeq(all, n + 1, Len(all))
      /\ packet' = IF n > 0 THEN SubSeq(all, 1, n) ELSE packet
  BY DEF Write
<1> HIDE DEF all
<1>4. n \in 0 .. Len(all) /\ (~Busy /\ Len(all) > 0 => n > 0) /\ (Busy => n = 0)
  <2>1. CASE Busy
    BY <1>1, <2>1 DEF Busy
  <2>2. CASE ~Busy
    <3>1. n = IF PacketSize <= Len(all) THEN PacketSize ELSE Len(all)
      BY <1>1, <1>2, <2>2, MinOfTwo DEF Busy
    <3> QED
      BY <1>1, <1>2, <2>2, <3>1
  <2> QED
    BY <2>1, <2>2
<1> HIDE DEF n
<1>5. fifo' \in Seq(Int) /\ Len(fifo') <= FifoSize
  <2>1. n + 1 \in Nat \ {0} /\ Len(all) \in 0 .. Len(all)
    BY <1>1, <1>4
  <2>2. SubSeq(all, n + 1, Len(all)) \in Seq(Int)
        /\ Len(SubSeq(all, n + 1, Len(all))) =
             IF n + 1 <= Len(all) THEN Len(all) - (n + 1) + 1 ELSE 0
    BY <1>1, <2>1, Part
  <2> QED
    BY <1>1, <1>2, <1>4, <1>3, <2>2
<1>6. n > 0 => SubSeq(all, 1, n) \in Seq(Int) /\ Len(SubSeq(all, 1, n)) = n
  BY <1>1, <1>4, Part
<1>7. packet' \in Seq(Int)
  BY <1>3, <1>6 DEF QueueTypes
<1>8. n > 0 => packet' # <<>>
  <2>1. n > 0 => Len(packet') = n
    BY <1>3, <1>6
  <2> QED
    BY <1>4, <2>1
<1>9. Busy => Busy'
  BY <1>3, <1>4 DEF Busy
<1>10. Len(fifo) + Len(bytes) > 0 => Busy'
  <2>1. CASE Busy
    BY <1>9, <2>1
  <2>2. CASE ~Busy
    <3>1. Len(fifo) + Len(bytes) > 0 => packet' # <<>>
      BY <1>1, <1>4, <1>8, <2>2
    <3> QED
      BY <3>1 DEF Busy
  <2> QED
    BY <2>1, <2>2
<1> QED
  BY <1>5, <1>7, <1>9, <1>10

-----------------------------------------------------------------------------
(* The steps.                                                              *)

LEMMA QueueInvInit == CdcInit => QueueInv
<1> SUFFICES ASSUME CdcInit PROVE QueueInv
  OBVIOUS
<1>1. <<>> \in Seq(Int) /\ Len(<<>>) = 0
  BY EmptySeq
<1> QED
  BY <1>1, UsbCdcAssumption DEF CdcInit, QueueInv, QueueTypes, MovesInv

(* What Send() takes: bytes that fit in the FIFO, when nothing is queued,  *)
(* and bytes that fit in the buffer.                                       *)
BytesNow(bufLen) == IF sendBuf_ = <<>> THEN Min({bufLen, Room}) ELSE 0
Queued(bufLen) == Min({bufLen - BytesNow(bufLen), Reserved - Len(sendBuf_)})

LEMMA Amounts ==
  ASSUME QueueTypes, NEW bufLen \in Nat \ {0}
  PROVE  /\ Room \in Nat /\ Reserved \in Nat /\ capacity <= Reserved
         /\ BytesNow(bufLen) \in 0 .. bufLen
         /\ sendBuf_ = <<>> => BytesNow(bufLen) <= Room
         /\ sendBuf_ = <<>> /\ BytesNow(bufLen) < bufLen => BytesNow(bufLen) = Room
         /\ Queued(bufLen) \in Nat /\ Queued(bufLen) <= bufLen - BytesNow(bufLen)
         /\ Queued(bufLen) <= Reserved - Len(sendBuf_)
         /\ Numbers(BytesNow(bufLen) + Queued(bufLen)) \in Seq(Int)
         /\ Len(Numbers(BytesNow(bufLen) + Queued(bufLen))) = BytesNow(bufLen) + Queued(bufLen)
<1> DEFINE now == BytesNow(bufLen)
           waiting == Queued(bufLen)
           bytes == Numbers(now + waiting)
<1>1. /\ Len(sendBuf_) \in Nat /\ Len(fifo) \in Nat /\ FifoSize \in Nat \ {0}
      /\ Room \in Nat /\ sendBuf_ \in Seq(Int) /\ fifo \in Seq(Int)
      /\ capacity \in Nat /\ sendBufCapacity_ \in Nat /\ Len(sendBuf_) <= capacity
  BY LenProperties, UsbCdcAssumption DEF QueueTypes, Room
<1>2. Reserved \in Nat /\ capacity <= Reserved
  BY <1>1, MaxOfTwo DEF Reserved
<1>3. /\ now \in 0 .. bufLen /\ (sendBuf_ = <<>> => now <= Room)
      /\ (sendBuf_ = <<>> /\ now < bufLen => now = Room)
  BY <1>1, MinOfTwo DEF BytesNow
<1>4. /\ waiting \in Nat /\ waiting <= bufLen - now
      /\ waiting <= Reserved - Len(sendBuf_)
  <2>1. bufLen - now \in Nat /\ Reserved - Len(sendBuf_) \in Nat
    BY <1>1, <1>2, <1>3
  <2> QED
    BY <2>1, MinOfTwo DEF Queued, now
<1> HIDE DEF now, waiting
<1>5. bytes \in Seq(Int) /\ Len(bytes) = now + waiting
  <2>1. \A i \in 1 .. now + waiting : (accepted + i) % Modulus \in Int
    <3>1. Modulus \in Nat \ {0} /\ accepted \in Int
      BY UsbCdcAssumption DEF QueueTypes
    <3>2. ASSUME NEW k \in Int PROVE k % Modulus \in Int
      BY <3>1
    <3> QED
      BY <3>1, <3>2
  <2>2. bytes = [i \in 1 .. now + waiting |-> (accepted + i) % Modulus]
    BY DEF Numbers
  <2>3. now + waiting \in Nat
    BY <1>3, <1>4
  <2> DEFINE k == now + waiting
  <2> HIDE DEF k, bytes
  <2>4. bytes \in [1 .. k -> Int]
    BY <2>1, <2>2 DEF k
  <2>5. bytes \in Seq(Int)
    BY <2>3, <2>4, SeqDef DEF k
  <2>6. DOMAIN bytes = 1 .. k /\ DOMAIN bytes = 1 .. Len(bytes) /\ Len(bytes) \in Nat
    BY <2>4, <2>5, LenProperties
  <2>7. Len(bytes) = k
    BY <2>3, <2>6 DEF k
  <2> QED
    BY <2>5, <2>7 DEF k
<1> QED
  BY <1>1, <1>2, <1>3, <1>4, <1>5 DEF now, waiting

(* Send() takes what fits in the FIFO and in the buffer.                   *)
LEMMA Taking ==
  ASSUME QueueInv, NEW bufLen \in Nat \ {0}, TakeBytes(bufLen), complete' = complete
  PROVE  /\ sendBuf_' \in Seq(Int) /\ fifo' \in Seq(Int) /\ packet' \in Seq(Int)
         /\ Len(fifo') <= FifoSize /\ capacity' \in Nat /\ accepted' \in Int
         /\ Len(sendBuf_') <= capacity' /\ Len(sendBuf_) <= Len(sendBuf_')
         /\ Busy => Busy'
         /\ sendBuf_ = <<>> /\ sendBuf_' # <<>> => Busy'
<1> DEFINE now == BytesNow(bufLen)
           waiting == Queued(bufLen)
           bytes == Numbers(now + waiting)
<1>1. /\ Len(sendBuf_) \in Nat /\ Len(fifo) \in Nat /\ FifoSize \in Nat \ {0}
      /\ Room \in Nat /\ sendBuf_ \in Seq(Int) /\ fifo \in Seq(Int)
      /\ capacity \in Nat /\ sendBufCapacity_ \in Nat /\ Len(sendBuf_) <= capacity
  BY LenProperties, UsbCdcAssumption DEF QueueInv, QueueTypes, Room
<1>2. Reserved \in Nat /\ capacity <= Reserved
  BY Amounts DEF QueueInv
<1>3. /\ now \in 0 .. bufLen /\ (sendBuf_ = <<>> => now <= Room)
      /\ (sendBuf_ = <<>> /\ now < bufLen => now = Room)
  BY Amounts DEF QueueInv
<1>4. /\ waiting \in Nat /\ waiting <= bufLen - now
      /\ waiting <= Reserved - Len(sendBuf_)
  BY Amounts DEF QueueInv
<1>5. bytes \in Seq(Int) /\ Len(bytes) = now + waiting
  BY Amounts DEF QueueInv
<1> HIDE DEF now, waiting, bytes
<1>6. /\ IF sendBuf_ = <<>> THEN Write(SubSeq(bytes, 1, now)) ELSE UNCHANGED <<fifo, packet>>
      /\ sendBuf_' = sendBuf_ \o SubSeq(bytes, now + 1, now + waiting)
      /\ capacity' = IF bufLen > now THEN Reserved ELSE capacity
      /\ accepted' = (accepted + now + waiting) % Modulus
  BY DEF TakeBytes, now, waiting, bytes, BytesNow, Queued
<1>7. SubSeq(bytes, 1, now) \in Seq(Int) /\ Len(SubSeq(bytes, 1, now)) = now
  <2>1. now \in 0 .. Len(bytes) /\ 1 \in Nat \ {0}
    BY <1>3, <1>4, <1>5
  <2> QED
    BY <1>3, <1>5, <2>1, Part
<1>8. /\ SubSeq(bytes, now + 1, now + waiting) \in Seq(Int)
      /\ Len(SubSeq(bytes, now + 1, now + waiting)) = waiting
  <2>1. now + waiting \in 0 .. Len(bytes) /\ now + 1 \in Nat \ {0}
    BY <1>3, <1>4, <1>5
  <2> QED
    BY <1>3, <1>4, <1>5, <2>1, Part
<1>9. sendBuf_' \in Seq(Int) /\ Len(sendBuf_') = Len(sendBuf_) + waiting
  BY <1>1, <1>6, <1>8, Together
<1>10. /\ fifo' \in Seq(Int) /\ Len(fifo') <= FifoSize /\ packet' \in Seq(Int)
       /\ Busy => Busy'
       /\ sendBuf_ = <<>> /\ Len(fifo) + now > 0 => Busy'
  <2>1. CASE sendBuf_ = <<>>
    <3>1. Len(SubSeq(bytes, 1, now)) <= Room
      BY <1>3, <1>7, <2>1
    <3>2. Write(SubSeq(bytes, 1, now))
      BY <1>6, <2>1
    <3> QED
      BY <1>7, <3>1, <3>2, Writing DEF QueueInv
  <2>2. CASE sendBuf_ # <<>>
    BY <1>6, <2>2 DEF QueueInv, QueueTypes, Busy
  <2> QED
    BY <2>1, <2>2
<1>11. capacity' \in Nat /\ Len(sendBuf_') <= capacity'
  <2>1. CASE bufLen > now
    BY <1>1, <1>2, <1>4, <1>6, <1>9, <2>1
  <2>2. CASE ~(bufLen > now)
    BY <1>1, <1>3, <1>4, <1>6, <1>9, <2>2
  <2> QED
    BY <2>1, <2>2
<1>12. accepted' \in Int
  BY <1>3, <1>4, <1>6, UsbCdcAssumption DEF QueueInv, QueueTypes
<1>13. sendBuf_ = <<>> /\ sendBuf_' # <<>> => Busy'
  <2> SUFFICES ASSUME sendBuf_ = <<>>, sendBuf_' # <<>> PROVE Busy'
    OBVIOUS
  <2>1. Len(sendBuf_) = 0 /\ Len(sendBuf_') \in Nat \ {0}
    BY <1>1, <1>9, EmptySeq
  <2>2. waiting > 0
    BY <1>4, <1>9, <2>1
  <2>3. now < bufLen
    BY <1>3, <1>4, <2>2
  <2>4. Len(fifo) + now = FifoSize
    BY <1>1, <1>3, <2>3 DEF Room
  <2> QED
    BY <1>1, <1>10, <2>4
<1> QED
  BY <1>4, <1>1, <1>9, <1>10, <1>11, <1>12, <1>13

(* Whatever erase() leaves is no longer than what was there.               *)
LEMMA Erasing ==
  ASSUME QueueInv, stage = "erase", sendBuf_' \in Erased
  PROVE  sendBuf_' \in Seq(Int) /\ Len(sendBuf_') <= Len(sendBuf_)
<1> DEFINE kept == SubSeq(sendBuf_, bytesSent + 1, finish)
           added == SubSeq(sendBuf_, bytesSent + 1, Len(sendBuf_))
           moved == SubSeq(sendBuf_, finish - bytesSent + 1, Len(sendBuf_) - bytesSent)
<1>1. /\ sendBuf_ \in Seq(Int) /\ Len(sendBuf_) \in Nat /\ bytesSent \in Nat /\ finish \in Nat
      /\ bytesSent <= finish /\ finish <= Len(sendBuf_)
  BY LenProperties DEF QueueInv, QueueTypes
<1>2. kept \in Seq(Int) /\ Len(kept) = finish - bytesSent
  <2>1. bytesSent + 1 \in Nat \ {0} /\ finish \in 0 .. Len(sendBuf_)
    BY <1>1
  <2>2. kept \in Seq(Int) /\ Len(kept) =
             IF bytesSent + 1 <= finish THEN finish - (bytesSent + 1) + 1 ELSE 0
    BY <1>1, <2>1, Part
  <2> HIDE DEF kept
  <2> QED
    BY <1>1, <2>2
<1>3. added \in Seq(Int) /\ Len(added) <= Len(sendBuf_)
  <2>1. bytesSent + 1 \in Nat \ {0} /\ Len(sendBuf_) \in 0 .. Len(sendBuf_)
    BY <1>1
  <2>2. added \in Seq(Int)
        /\ Len(added) =
             IF bytesSent + 1 <= Len(sendBuf_) THEN Len(sendBuf_) - (bytesSent + 1) + 1 ELSE 0
    BY <1>1, <2>1, Part
  <2> HIDE DEF added
  <2> QED
    BY <1>1, <2>2
<1>4. moved \in Seq(Int) /\ Len(moved) = Len(sendBuf_) - finish
  <2> DEFINE m == finish - bytesSent + 1
             n == Len(sendBuf_) - bytesSent
  <2>1. m \in Nat \ {0} /\ n \in 0 .. Len(sendBuf_)
    BY <1>1
  <2>2. moved = SubSeq(sendBuf_, m, n)
    OBVIOUS
  <2> HIDE DEF m, n, moved
  <2>3. moved \in Seq(Int) /\ Len(moved) = IF m <= n THEN n - m + 1 ELSE 0
    BY <1>1, <2>1, <2>2, Part
  <2> QED
    BY <1>1, <2>3 DEF m, n
<1>5. sendBuf_' = kept \/ sendBuf_' = added \/ sendBuf_' = kept \o moved
  BY DEF Erased
<1> HIDE DEF kept, added, moved
<1>6. kept \o moved \in Seq(Int) /\ Len(kept \o moved) = Len(sendBuf_) - bytesSent
  <2>1. kept \o moved \in Seq(Int) /\ Len(kept \o moved) = Len(kept) + Len(moved)
    BY <1>2, <1>4, Together
  <2> QED
    BY <1>1, <1>2, <1>4, <2>1
<1>7. Len(kept) <= Len(sendBuf_) /\ Len(kept \o moved) <= Len(sendBuf_)
  BY <1>1, <1>2, <1>6
<1> QED
  BY <1>2, <1>3, <1>5, <1>6, <1>7

LEMMA QueueInvNext == QueueInv /\ [CdcNext]_cdcVars => QueueInv'
<1> SUFFICES ASSUME QueueInv, [CdcNext]_cdcVars PROVE QueueInv'
  OBVIOUS
<1>0. /\ FifoSize \in Nat \ {0} /\ Capacities \subseteq Nat
      /\ Len(sendBuf_) \in Nat /\ Len(fifo) \in Nat
  BY LenProperties, UsbCdcAssumption DEF QueueInv, QueueTypes
<1> USE DEF QueueInv
<1>1. CASE Transfer
  <2>1. Last(packet) \in Int
    <3>1. packet \in Seq(Int) /\ Len(packet) \in Nat \ {0}
      BY <1>1, EmptySeq DEF Transfer, QueueTypes
    <3>2. Len(packet) \in 1 .. Len(packet)
      BY <3>1
    <3> QED
      BY <3>1, <3>2, ElementOfSeq DEF Last
  <2>2. <<>> \in Seq(Int)
    BY EmptySeq
  <2> QED
    BY <1>1, <2>1, <2>2 DEF Transfer, QueueTypes, MovesInv, Busy, thread
<1>2. CASE SetControlLineState
  BY <1>2 DEF SetControlLineState, QueueTypes, MovesInv, Busy, thread
<1>3. CASE \E n \in 1 .. MaxLen : Send(n)
  <2>1. PICK n \in 1 .. MaxLen : Send(n)
    BY <1>3
  <2>2. n \in Nat \ {0} /\ TakeBytes(n)
    BY <2>1, UsbCdcAssumption DEF Send
  <2>3. complete' = complete
    BY <2>1 DEF Send
  <2>4. UNCHANGED <<sendBufCapacity_, stage, bytesSent, finish, received>>
    BY <2>1 DEF Send, thread
  <2>5. /\ sendBuf_' \in Seq(Int) /\ fifo' \in Seq(Int) /\ packet' \in Seq(Int)
        /\ Len(fifo') <= FifoSize /\ capacity' \in Nat /\ accepted' \in Int
        /\ Len(sendBuf_') <= capacity' /\ Len(sendBuf_) <= Len(sendBuf_')
        /\ Busy => Busy'
        /\ sendBuf_ = <<>> /\ sendBuf_' # <<>> => Busy'
    BY <2>2, <2>3, Taking
  <2>6. Len(sendBuf_') \in Nat
    BY <2>5, LenProperties
  <2>7. QueueTypes'
    BY <1>0, <2>4, <2>5, <2>6 DEF QueueTypes
  <2>8. MovesInv'
    BY <2>4, <2>5 DEF MovesInv
  <2> QED
    BY <2>7, <2>8
<1>4. CASE \E c \in Capacities : SetSendBufCapacity(c)
  <2>1. PICK c \in Capacities : SetSendBufCapacity(c)
    BY <1>4
  <2> QED
    BY <1>0, <2>1 DEF SetSendBufCapacity, QueueTypes, MovesInv, Busy, thread, tud
<1>5. CASE LineStateCallback
  <2>1. accepted' \in Int
    <3>1. packet # <<>> => Last(packet) \in Int
      <4>1. packet # <<>> => Len(packet) \in Nat \ {0}
        BY EmptySeq DEF QueueTypes
      <4>2. packet # <<>> => Len(packet) \in 1 .. Len(packet)
        BY <4>1
      <4> QED
        BY <4>2, ElementOfSeq DEF Last, QueueTypes
    <3> QED
      BY <1>5, <3>1 DEF LineStateCallback, LineState, QueueTypes
  <2>2. <<>> \in Seq(Int) /\ Len(<<>>) = 0
    BY EmptySeq
  <2>3. /\ (fifo' = fifo /\ sendBuf_' = sendBuf_) \/ (fifo' = <<>> /\ sendBuf_' = <<>>)
        /\ UNCHANGED <<capacity, sendBufCapacity_, packet, complete, thread, received>>
        /\ stage = "tud_task"
    BY <1>5 DEF LineStateCallback, LineState
  <2>4. sendBuf_' \in Seq(Int) /\ fifo' \in Seq(Int)
        /\ Len(sendBuf_') <= capacity' /\ Len(fifo') <= FifoSize
    <3>1. CASE fifo' = fifo /\ sendBuf_' = sendBuf_
      BY <2>3, <3>1 DEF QueueTypes
    <3>2. CASE fifo' = <<>> /\ sendBuf_' = <<>>
      <4>1. capacity' \in Nat
        BY <2>3 DEF QueueTypes
      <4> QED
        BY <1>0, <2>2, <3>2, <4>1
    <3> QED
      BY <2>3, <3>1, <3>2
  <2>5. QueueTypes'
    BY <2>1, <2>3, <2>4 DEF QueueTypes, thread
  <2>6. MovesInv'
    BY <2>3 DEF MovesInv, Busy, thread
  <2> QED
    BY <2>5, <2>6
<1>6. CASE TxCompleteCallback
  BY <1>6 DEF TxCompleteCallback, TxComplete, QueueTypes, MovesInv
<1>7. CASE SendFromQueue
  <2> DEFINE n == Min({Len(sendBuf_), Room})
  <2>1. Room \in Nat
    BY <1>0 DEF Room, QueueTypes
  <2>2. n = IF Len(sendBuf_) <= Room THEN Len(sendBuf_) ELSE Room
    BY <1>0, <2>1, MinOfTwo
  <2>3. /\ bytesSent' = n /\ stage' = (IF sendBuf_ = <<>> THEN "flush" ELSE "sent")
        /\ Write(SubSeq(sendBuf_, 1, n)) /\ complete' = complete
        /\ UNCHANGED <<sendBuf_, capacity, sendBufCapacity_, finish, accepted, received>>
    BY <1>7 DEF SendFromQueue
  <2> HIDE DEF n
  <2>4. SubSeq(sendBuf_, 1, n) \in Seq(Int) /\ Len(SubSeq(sendBuf_, 1, n)) = n
    <3>1. n \in 0 .. Len(sendBuf_) /\ 1 \in Nat \ {0}
      BY <1>0, <2>1, <2>2
    <3> QED
      BY <1>0, <3>1, Part DEF QueueTypes
  <2>5. /\ fifo' \in Seq(Int) /\ Len(fifo') <= FifoSize /\ packet' \in Seq(Int)
        /\ Len(fifo) + n > 0 => Busy'
    <3>1. Len(SubSeq(sendBuf_, 1, n)) <= Room
      BY <1>0, <2>1, <2>2, <2>4
    <3> QED
      BY <2>3, <2>4, <3>1, Writing
  <2>6. sendBuf_ # <<>> => Busy'
    <3>1. sendBuf_ # <<>> => Len(sendBuf_) \in Nat \ {0}
      BY EmptySeq DEF QueueTypes
    <3>2. sendBuf_ # <<>> => Len(fifo) + n > 0
      BY <1>0, <2>1, <2>2, <3>1 DEF Room
    <3> QED
      BY <2>5, <3>2
  <2>7. n \in Nat /\ n <= Len(sendBuf_)
    BY <1>0, <2>1, <2>2
  <2>8. QueueTypes'
    BY <1>0, <2>3, <2>5, <2>7 DEF QueueTypes
  <2>9. MovesInv'
    BY <2>3, <2>6 DEF MovesInv
  <2> QED
    BY <2>8, <2>9
<1>8. CASE CompareSent
  <2>1. /\ stage = "sent" /\ finish' = Len(sendBuf_)
        /\ stage' \in {"clear", "erase", "flush"}
        /\ stage' = "erase" => bytesSent < Len(sendBuf_)
        /\ UNCHANGED <<sendBuf_, capacity, sendBufCapacity_, tud, bytesSent, accepted, received>>
    BY <1>8 DEF CompareSent, AfterSent
  <2> QED
    BY <1>0, <2>1 DEF QueueTypes, MovesInv, Busy, tud
<1>9. CASE RemoveSent
  <2>1. sendBuf_' \in Seq(Int) /\ Len(sendBuf_') <= Len(sendBuf_)
    <3>1. CASE stage = "clear" /\ sendBuf_' = <<>>
      BY <1>0, <3>1, EmptySeq
    <3>2. CASE stage = "erase" /\ sendBuf_' \in Erased
      BY <3>2, Erasing
    <3> QED
      BY <1>9, <3>1, <3>2 DEF RemoveSent
  <2>2. Len(sendBuf_') \in Nat
    BY <2>1, LenProperties
  <2>3. /\ stage \in {"clear", "erase"} /\ stage' = "flush" /\ bytesSent' = 0 /\ finish' = 0
        /\ UNCHANGED <<capacity, sendBufCapacity_, tud, accepted, received>>
    BY <1>9 DEF RemoveSent
  <2> QED
    BY <1>0, <2>1, <2>2, <2>3 DEF QueueTypes, MovesInv, Busy, tud
<1>10. CASE Flush
  <2>1. /\ stage = "flush" /\ stage' = "tud_task" /\ Write(<<>>) /\ complete' = complete
        /\ UNCHANGED <<sendBuf_, capacity, sendBufCapacity_, bytesSent, finish, accepted, received>>
    BY <1>10 DEF Flush
  <2>2. <<>> \in Seq(Int) /\ Len(<<>>) = 0 /\ 0 <= Room
    BY <1>0, EmptySeq DEF Room, QueueTypes
  <2>3. /\ fifo' \in Seq(Int) /\ Len(fifo') <= FifoSize /\ packet' \in Seq(Int)
        /\ Busy => Busy'
    BY <2>1, <2>2, Writing
  <2>4. QueueTypes'
    BY <2>1, <2>3 DEF QueueTypes
  <2>5. MovesInv'
    BY <2>1, <2>3 DEF MovesInv
  <2> QED
    BY <2>4, <2>5
<1>11. CASE UNCHANGED cdcVars
  BY <1>11 DEF cdcVars, tud, thread, QueueTypes, MovesInv, Busy
<1> QED
  BY <1>1, <1>2, <1>3, <1>4, <1>5, <1>6, <1>7, <1>8, <1>9, <1>10, <1>11 DEF CdcNext, TinyUsbThread

(* The queue and TinyUSB keep their bounds, and in each step of the        *)
(* callback TinyUSB is busy when it must be.                               *)
THEOREM QueueInvariant == CdcSpec => []QueueInv
<1>1. CdcInit => QueueInv
  BY QueueInvInit
<1>2. QueueInv /\ [CdcNext]_cdcVars => QueueInv'
  BY QueueInvNext
<1> QED
  BY <1>1, <1>2, PTL DEF CdcSpec

(* No bytes are ever queued without a completion to come that sends from   *)
(* the queue, for FIFOs, packets and queues of every size and wherever     *)
(* Send() preempts the TinyUSB thread.                                     *)
THEOREM QueueAlwaysMoves == CdcSpec => []QueueMoves
<1>1. QueueInv => QueueMoves
  BY DEF QueueInv, MovesInv, Busy, QueueMoves
<1> QED
  BY <1>1, QueueInvariant, PTL

-----------------------------------------------------------------------------
(* Numbers modulo m.                                                       *)

LEMMA Multiples ==
  ASSUME NEW m \in Int, m > 0, NEW u \in Int, NEW v \in Int,
         NEW r \in 0 .. m - 1, NEW s \in 0 .. m - 1,
         m * u + r = m * v + s
  PROVE  u = v /\ r = s
<1>1. m * (u - v) = s - r
  OBVIOUS
<1>2. ASSUME NEW w \in Int, w >= 1 PROVE m * w >= m
  BY <1>2
<1>3. ~(u - v >= 1)
  <2>1. u - v >= 1 => m * (u - v) >= m
    BY <1>2
  <2> QED
    BY <1>1, <2>1
<1>4. ~(v - u >= 1)
  <2>1. v - u >= 1 => m * (v - u) >= m
    BY <1>2
  <2>2. m * (v - u) = r - s
    BY <1>1
  <2> QED
    BY <2>1, <2>2
<1>5. u = v
  BY <1>3, <1>4
<1> QED
  BY <1>5

LEMMA DivMod ==
  ASSUME NEW m \in Int, m > 0, NEW a \in Int
  PROVE  a % m \in 0 .. m - 1 /\ a = m * (a \div m) + (a % m) /\ a \div m \in Int
<1>1. a % m \in 0 .. m - 1
  OBVIOUS
<1>2. a \div m \in Int
  OBVIOUS
<1>3. a = m * (a \div m) + (a % m)
  BY SMTT(20)
<1> QED
  BY <1>1, <1>2, <1>3

LEMMA ModPlus ==
  ASSUME NEW m \in Int, m > 0, NEW a \in Int, NEW i \in Int
  PROVE  ((a % m) + i) % m = (a + i) % m
<1> DEFINE q == a \div m
           r == a % m
           p == (r + i) \div m
           s == (r + i) % m
           v == (a + i) \div m
           t == (a + i) % m
<1>1. r \in 0 .. m - 1 /\ a = m * q + r /\ q \in Int
  BY DivMod
<1> HIDE DEF q, r
<1>2. s \in 0 .. m - 1 /\ r + i = m * p + s /\ p \in Int
  BY <1>1, DivMod
<1>3. t \in 0 .. m - 1 /\ a + i = m * v + t /\ v \in Int
  BY DivMod
<1> HIDE DEF p, s, v, t
<1>4. m * (q + p) = m * q + m * p
  BY <1>1, <1>2
<1>5. m * (q + p) + s = m * v + t
  BY <1>1, <1>2, <1>3, <1>4
<1>6. s = t
  <2> DEFINE k == q + p
  <2>1. k \in Int
    BY <1>1, <1>2
  <2>2. m * k + s = m * v + t
    BY <1>5
  <2> HIDE DEF k
  <2>3. v \in Int /\ s \in 0 .. m - 1 /\ t \in 0 .. m - 1
    BY <1>2, <1>3
  <2> QED
    BY <2>1, <2>2, <2>3, Multiples
<1>7. s = ((a % m) + i) % m
  BY DEF s, r
<1> QED
  BY <1>6, <1>7 DEF t

-----------------------------------------------------------------------------
(* The bytes in s are numbered on from the one after from.                 *)
Number(k) == k % Modulus
Numbered(s, from) == \A i \in 1 .. Len(s) : s[i] = Number(from + i)

LEMMA ModulusIs == Modulus \in Int /\ Modulus > 0 /\ Modulus \in Nat
BY UsbCdcAssumption

LEMMA NumberedOn ==
  ASSUME NEW s \in Seq(Int), NEW from \in Int
  PROVE  Numbered(s, Number(from)) <=> Numbered(s, from)
<1>1. Len(s) \in Nat
  BY LenProperties
<1>2. ASSUME NEW i \in 1 .. Len(s) PROVE Number(Number(from) + i) = Number(from + i)
  <2>1. i \in Int
    BY <1>1
  <2> QED
    BY <2>1, ModulusIs, ModPlus DEF Number
<1> QED
  BY <1>2 DEF Numbered

LEMMA LastPart ==
  ASSUME NEW s \in Seq(Int), NEW n \in 0 .. Len(s)
  PROVE  /\ SubSeq(s, n + 1, Len(s)) \in Seq(Int)
         /\ Len(SubSeq(s, n + 1, Len(s))) = Len(s) - n
         /\ \A i \in 1 .. Len(s) - n : SubSeq(s, n + 1, Len(s))[i] = s[n + i]
<1>1. Len(s) \in Nat /\ \A i \in 1 .. Len(s) : s[i] \in Int
  BY LenProperties, ElementOfSeq
<1> DEFINE b == SubSeq(s, n + 1, Len(s))
<1>2. b \in Seq(Int) /\ Len(b) = Len(s) - n /\ \A i \in 1 .. Len(s) - n : b[i] = s[n + i]
  <2> DEFINE m == n + 1
  <2>1. m \in Int /\ Len(s) \in Int /\ \A i \in m .. Len(s) : s[i] \in Int
    BY <1>1
  <2>2. b = SubSeq(s, m, Len(s))
    OBVIOUS
  <2> HIDE DEF m, b
  <2>3. /\ b \in Seq(Int) /\ Len(b) = (IF m <= Len(s) THEN Len(s) - m + 1 ELSE 0)
        /\ \A i \in 1 .. Len(s) - m + 1 : b[i] = s[m + i - 1]
    BY <2>1, <2>2, SubSeqProperties
  <2>4. \A i \in 1 .. Len(s) - n : m + i - 1 = n + i
    BY <1>1 DEF m
  <2>5. Len(b) = Len(s) - n /\ Len(s) - m + 1 = Len(s) - n
    BY <1>1, <2>3 DEF m
  <2> QED
    BY <2>3, <2>4, <2>5
<1> QED
  BY <1>2

LEMMA NumberedParts ==
  ASSUME NEW s \in Seq(Int), NEW from \in Int, Numbered(s, from), NEW n \in 0 .. Len(s)
  PROVE  /\ SubSeq(s, 1, n) \in Seq(Int) /\ Len(SubSeq(s, 1, n)) = n
         /\ SubSeq(s, n + 1, Len(s)) \in Seq(Int)
         /\ Len(SubSeq(s, n + 1, Len(s))) = Len(s) - n
         /\ Numbered(SubSeq(s, 1, n), from)
         /\ Numbered(SubSeq(s, n + 1, Len(s)), from + n)
<1>1. Len(s) \in Nat /\ \A i \in 1 .. Len(s) : s[i] \in Int
  BY LenProperties, ElementOfSeq
<1>2. \A i \in 1 .. n : s[i] \in Int
  BY <1>1
<1> DEFINE a == SubSeq(s, 1, n)
           b == SubSeq(s, n + 1, Len(s))
<1>4. a \in Seq(Int) /\ Len(a) = n /\ \A i \in 1 .. n : a[i] = s[i]
  <2>1. \A i \in 1 .. n : 1 + i - 1 = i
    OBVIOUS
  <2> QED
    BY <1>1, <1>2, <2>1, SubSeqProperties
<1>5. b \in Seq(Int) /\ Len(b) = Len(s) - n /\ \A i \in 1 .. Len(s) - n : b[i] = s[n + i]
  BY LastPart
<1> HIDE DEF a, b
<1>6. Numbered(a, from)
  <2> SUFFICES ASSUME NEW i \in 1 .. n PROVE a[i] = Number(from + i)
    BY <1>4 DEF Numbered
  <2>1. i \in 1 .. Len(s)
    BY <1>1
  <2> QED
    BY <1>4, <2>1 DEF Numbered
<1>7. Numbered(b, from + n)
  <2> SUFFICES ASSUME NEW i \in 1 .. Len(s) - n PROVE b[i] = Number(from + n + i)
    BY <1>5 DEF Numbered
  <2>1. n + i \in 1 .. Len(s)
    BY <1>1
  <2>2. from + (n + i) = from + n + i
    BY <2>1
  <2> QED
    BY <1>5, <2>1, <2>2 DEF Numbered
<1> QED
  BY <1>4, <1>5, <1>6, <1>7 DEF a, b

LEMMA NumberedTogether ==
  ASSUME NEW s \in Seq(Int), NEW t \in Seq(Int), NEW from \in Int,
         Numbered(s, from), Numbered(t, from + Len(s))
  PROVE  Numbered(s \o t, from)
<1>1. Len(s) \in Nat /\ Len(t) \in Nat
  BY LenProperties
<1>2. /\ Len(s \o t) = Len(s) + Len(t)
      /\ \A i \in 1 .. Len(s) + Len(t) :
           (s \o t)[i] = IF i <= Len(s) THEN s[i] ELSE t[i - Len(s)]
  BY ConcatProperties
<1> SUFFICES ASSUME NEW i \in 1 .. Len(s) + Len(t) PROVE (s \o t)[i] = Number(from + i)
  BY <1>2 DEF Numbered
<1>3. CASE i <= Len(s)
  BY <1>1, <1>2, <1>3 DEF Numbered
<1>4. CASE ~(i <= Len(s))
  <2>1. i - Len(s) \in 1 .. Len(t) /\ from + Len(s) + (i - Len(s)) = from + i
    BY <1>1, <1>4
  <2> QED
    BY <1>2, <1>4, <2>1 DEF Numbered
<1> QED
  BY <1>3, <1>4

-----------------------------------------------------------------------------
(* The bytes under way, part by part.                                      *)

Handed == IF stage \in {"sent", "clear", "erase"} THEN bytesSent ELSE 0

(* What the TinyUSB thread removes is what it handed on, as nothing is     *)
(* added while it does.                                                    *)
Undisturbed ==
  /\ stage = "clear" => bytesSent = Len(sendBuf_)
  /\ stage = "erase" => finish = Len(sendBuf_)

(* Packet, FIFO and what is unsent of the queue are numbered on from what  *)
(* was received.                                                           *)
Orders ==
  /\ received = Number(received)
  /\ Numbered(packet, received)
  /\ Numbered(fifo, received + Len(packet))
  /\ Numbered(Unsent, received + Len(packet) + Len(fifo))
  /\ accepted = Number(received + Len(packet) + Len(fifo) + Len(Unsent))
  /\ Undisturbed

LEMMA UnsentIs ==
  ASSUME QueueTypes, Undisturbed
  PROVE  /\ Handed \in 0 .. Len(sendBuf_) /\ Len(sendBuf_) \in Nat
         /\ Unsent = SubSeq(sendBuf_, Handed + 1, Len(sendBuf_))
         /\ Unsent \in Seq(Int) /\ Len(Unsent) = Len(sendBuf_) - Handed
<1>1. Len(sendBuf_) \in Nat /\ Handed \in 0 .. Len(sendBuf_)
  BY LenProperties DEF QueueTypes, Undisturbed, Handed
<1>2. Unsent = SubSeq(sendBuf_, Handed + 1, Len(sendBuf_))
  <2>1. 1 + Handed = Handed + 1
    BY <1>1
  <2> QED
    BY <2>1 DEF Unsent, Handed
<1>3. Handed + 1 \in Nat \ {0} /\ Len(sendBuf_) \in 0 .. Len(sendBuf_) /\ sendBuf_ \in Seq(Int)
  BY <1>1 DEF QueueTypes
<1> HIDE DEF Handed
<1>4. Unsent \in Seq(Int) /\ Len(Unsent) = IF Handed + 1 <= Len(sendBuf_)
                                           THEN Len(sendBuf_) - (Handed + 1) + 1 ELSE 0
  BY <1>2, <1>3, Part
<1> QED
  BY <1>1, <1>2, <1>4

(* What is written goes on where the FIFO ends.                            *)
LEMMA WritingOn ==
  ASSUME QueueTypes, NEW bytes \in Seq(Int), Write(bytes), received' = received,
         Numbered(packet, received), Numbered(fifo, received + Len(packet)),
         Numbered(bytes, received + Len(packet) + Len(fifo))
  PROVE  /\ Numbered(packet', received') /\ Numbered(fifo', received' + Len(packet'))
         /\ Len(packet') + Len(fifo') = Len(packet) + Len(fifo) + Len(bytes)
         /\ packet' \in Seq(Int) /\ fifo' \in Seq(Int)
<1> DEFINE all == fifo \o bytes
           n == IF packet # <<>> \/ complete THEN 0 ELSE Min({PacketSize, Len(all)})
<1>1. /\ Len(packet) \in Nat /\ Len(fifo) \in Nat /\ Len(bytes) \in Nat
      /\ received \in Int /\ received + Len(packet) \in Int
      /\ packet \in Seq(Int) /\ fifo \in Seq(Int)
  BY LenProperties DEF QueueTypes
<1>2. all \in Seq(Int) /\ Len(all) = Len(fifo) + Len(bytes)
  BY <1>1, Together
<1>3. Numbered(all, received + Len(packet))
  BY <1>1, NumberedTogether
<1>4. fifo' = SubSeq(all, n + 1, Len(all))
      /\ packet' = IF n > 0 THEN SubSeq(all, 1, n) ELSE packet
  BY DEF Write
<1> HIDE DEF all
<1>5. n \in 0 .. Len(all) /\ (n > 0 => packet = <<>>)
  <2>1. PacketSize \in Nat /\ Len(all) \in Nat
    BY <1>1, <1>2, UsbCdcAssumption
  <2> QED
    BY <2>1, MinOfTwo
<1> HIDE DEF n
<1>6. /\ SubSeq(all, 1, n) \in Seq(Int) /\ Len(SubSeq(all, 1, n)) = n
      /\ fifo' \in Seq(Int) /\ Len(fifo') = Len(all) - n
      /\ Numbered(SubSeq(all, 1, n), received + Len(packet))
      /\ Numbered(fifo', received + Len(packet) + n)
  BY <1>1, <1>2, <1>3, <1>4, <1>5, NumberedParts
<1>7. CASE n > 0
  <2>1. Len(packet) = 0 /\ packet' = SubSeq(all, 1, n) /\ Len(packet') = n
    BY <1>4, <1>5, <1>6, <1>7, EmptySeq
  <2>2. Len(packet) = 0 /\ Len(packet') = n /\ Len(fifo') = Len(fifo) + Len(bytes) - n
        /\ n \in Int
    BY <1>1, <1>2, <1>5, <1>6, <2>1
  <2>3. received + Len(packet) = received
        /\ received + Len(packet) + n = received' + Len(packet')
        /\ Len(packet') + Len(fifo') = Len(packet) + Len(fifo) + Len(bytes)
    BY <1>1, <2>2
  <2> QED
    BY <1>6, <2>1, <2>2, <2>3
<1>8. CASE ~(n > 0)
  <2>1. n = 0 /\ packet' = packet
    BY <1>4, <1>5, <1>8
  <2>2. received + Len(packet) + n = received' + Len(packet')
    BY <1>1, <2>1
  <2>3. Len(packet') + Len(fifo') = Len(packet) + Len(fifo) + Len(bytes)
    BY <1>1, <1>2, <1>6, <2>1
  <2> QED
    BY <1>1, <1>6, <2>1, <2>2, <2>3
<1> QED
  BY <1>7, <1>8

LEMMA OrdersInit == CdcInit => Orders
<1> SUFFICES ASSUME CdcInit PROVE Orders
  OBVIOUS
<1>1. <<>> \in Seq(Int) /\ Len(<<>>) = 0
  BY EmptySeq
<1>2. received = 0 /\ accepted = 0 /\ packet = <<>> /\ fifo = <<>> /\ stage = "tud_task"
  BY DEF CdcInit
<1>3. QueueTypes
  BY QueueInvInit DEF QueueInv
<1>4. Undisturbed
  BY <1>2 DEF Undisturbed
<1>5. Len(Unsent) = 0
  <2>1. sendBuf_ = <<>> /\ Handed = 0
    BY <1>2 DEF CdcInit, Handed
  <2> QED
    BY <1>1, <1>3, <1>4, <2>1, UnsentIs
<1>6. Number(0) = 0
  BY ModulusIs DEF Number
<1> QED
  BY <1>1, <1>2, <1>4, <1>5, <1>6 DEF Orders, Numbered

(* Bytes that go from one part to the next keep their numbers; what is     *)
(* unsent is numbered on from the other two.                               *)
LEMMA LastNumber ==
  ASSUME QueueTypes, Orders, packet # <<>>
  PROVE  Last(packet) = Number(received + Len(packet)) /\ Last(packet) \in Int
<1>1. Len(packet) \in Nat \ {0}
  BY EmptySeq DEF QueueTypes
<1>2. Len(packet) \in 1 .. Len(packet)
  BY <1>1
<1> QED
  BY <1>2, ElementOfSeq DEF Orders, Numbered, Last, QueueTypes

LEMMA NumberTwice ==
  ASSUME NEW a \in Int, NEW i \in Int
  PROVE  Number(a) \in Int /\ Number(Number(a) + i) = Number(a + i)
         /\ Number(Number(a)) = Number(a)
<1>1. Number(a) \in Int
  BY ModulusIs DEF Number
<1>2. Number(Number(a) + i) = Number(a + i)
  BY ModulusIs, ModPlus DEF Number
<1>3. Number(Number(a) + 0) = Number(a + 0)
  BY ModulusIs, ModPlus DEF Number
<1>4. Number(a) + 0 = Number(a) /\ a + 0 = a
  BY <1>1
<1> QED
  BY <1>1, <1>2, <1>3, <1>4

LEMMA TransferOrders ==
  ASSUME QueueInv, Orders, Transfer
  PROVE  Orders'
<1> DEFINE x == received + Len(packet)
<1>1. /\ packet # <<>> /\ packet' = <<>> /\ received' = Last(packet)
      /\ UNCHANGED <<sendBuf_, fifo, stage, bytesSent, finish, accepted>>
  BY DEF Transfer, thread
<1>2. /\ Len(packet) \in Nat /\ Len(fifo) \in Nat /\ fifo \in Seq(Int) /\ x \in Int
      /\ Unsent \in Seq(Int) /\ Len(Unsent) \in Nat
  BY LenProperties, UnsentIs DEF QueueInv, QueueTypes, Orders
<1>3. received' = Number(x) /\ received' \in Int
  BY <1>1, <1>2, LastNumber, NumberTwice DEF QueueInv
<1>4. received' = Number(received')
  BY <1>2, <1>3, NumberTwice
<1>5. Len(packet') = 0 /\ Numbered(packet', received')
  BY <1>1, EmptySeq DEF Numbered
<1>6. Undisturbed' /\ Unsent' = Unsent
  BY <1>1 DEF Orders, Undisturbed, Unsent
<1> HIDE DEF x
<1>7. Numbered(fifo, x) /\ Numbered(Unsent, x + Len(fifo))
  BY DEF Orders, x
<1>8. Numbered(fifo, received' + 0)
  <2>1. received' + 0 = Number(x)
    BY <1>3
  <2> QED
    BY <1>2, <1>7, <2>1, NumberedOn
<1>9. Numbered(Unsent, received' + 0 + Len(fifo))
  <2>1. Number(received' + 0 + Len(fifo)) = Number(x + Len(fifo))
    <3>1. received' + 0 + Len(fifo) = Number(x) + Len(fifo)
      BY <1>2, <1>3
    <3> QED
      BY <1>2, <3>1, NumberTwice
  <2>2. received' + 0 + Len(fifo) \in Int /\ x + Len(fifo) \in Int
    BY <1>2, <1>3
  <2> QED
    BY <1>2, <1>7, <2>1, <2>2, NumberedOn
<1>10. accepted = Number(received' + 0 + Len(fifo) + Len(Unsent))
  <2> DEFINE i == Len(fifo) + Len(Unsent)
  <2>1. i \in Int /\ x + Len(fifo) + Len(Unsent) = x + i
        /\ received' + 0 + Len(fifo) + Len(Unsent) = Number(x) + i
    BY <1>2, <1>3
  <2>2. accepted = Number(x + i)
    BY <2>1 DEF Orders, x
  <2> QED
    BY <1>2, <2>1, <2>2, NumberTwice
<1> QED
  BY <1>1, <1>4, <1>5, <1>6, <1>8, <1>9, <1>10 DEF Orders

(* Sums of lengths, past two of the parts.                                 *)
LEMMA SameSum ==
  ASSUME NEW a \in Int, NEW b \in Int, NEW c \in Int, NEW b1 \in Int, NEW c1 \in Int,
         NEW k \in Int, b1 + c1 = b + c + k
  PROVE  a + b1 + c1 = a + b + c + k
OBVIOUS

(* What the TinyUSB thread does from its callback on.                      *)
LEMMA QueueOrders ==
  ASSUME QueueInv, QueueInv', Orders, SendFromQueue
  PROVE  Orders'
<1> DEFINE n == Min({Len(sendBuf_), Room})
<1>1. Handed = 0 /\ stage = "queue"
  BY DEF SendFromQueue, Handed
<1>2. Len(sendBuf_) \in Nat /\ sendBuf_ \in Seq(Int) /\ Unsent = sendBuf_
  <2>1. sendBuf_ \in Seq(Int) /\ Len(sendBuf_) \in Nat
    BY LenProperties DEF QueueInv, QueueTypes
  <2>2. Unsent = SubSeq(sendBuf_, 1, Len(sendBuf_))
    BY <1>1 DEF Unsent
  <2> QED
    BY <2>1, <2>2, SubSeqFull
<1>3. n \in 0 .. Len(sendBuf_)
  <2>1. Room \in Int /\ Room >= 0 /\ Len(sendBuf_) \in Int /\ Len(sendBuf_) >= 0
    <3>1. /\ FifoSize \in Int /\ Len(fifo) \in Int /\ Len(fifo) <= FifoSize
      BY LenProperties, UsbCdcAssumption DEF QueueInv, QueueTypes
    <3> QED
      BY <1>2, <3>1 DEF Room
  <2>2. n = IF Len(sendBuf_) <= Room THEN Len(sendBuf_) ELSE Room
    BY <2>1, MinOfTwo
  <2> HIDE DEF n
  <2> QED
    BY <2>1, <2>2
<1>4. /\ bytesSent' = n /\ stage' = (IF sendBuf_ = <<>> THEN "flush" ELSE "sent")
      /\ Write(SubSeq(sendBuf_, 1, n)) /\ UNCHANGED <<sendBuf_, received, accepted>>
  BY DEF SendFromQueue
<1> HIDE DEF n
<1>5. /\ Undisturbed' /\ Handed' = n
  <2>1. sendBuf_ = <<>> => n = 0
    BY <1>3, EmptySeq
  <2> QED
    BY <1>4, <2>1 DEF Undisturbed, Handed
<1>6. Unsent' = SubSeq(sendBuf_, n + 1, Len(sendBuf_))
  <2>1. Unsent' = SubSeq(sendBuf_', 1 + Handed', Len(sendBuf_'))
    BY DEF Unsent, Handed
  <2>2. 1 + n = n + 1
    BY <1>3
  <2> QED
    BY <1>4, <1>5, <2>1, <2>2
<1> DEFINE y == received + Len(packet) + Len(fifo)
<1>7. Len(packet) \in Nat /\ Len(fifo) \in Nat /\ received \in Int /\ y \in Int
  BY LenProperties DEF QueueInv, QueueTypes
<1>8. Numbered(sendBuf_, y) /\ accepted = Number(y + Len(sendBuf_))
  BY <1>2 DEF Orders
<1> HIDE DEF y
<1>9. /\ SubSeq(sendBuf_, 1, n) \in Seq(Int) /\ Len(SubSeq(sendBuf_, 1, n)) = n
      /\ Numbered(SubSeq(sendBuf_, 1, n), y)
      /\ Numbered(Unsent', y + n) /\ Len(Unsent') = Len(sendBuf_) - n
  BY <1>2, <1>3, <1>6, <1>7, <1>8, NumberedParts
<1>10. /\ Numbered(packet', received') /\ Numbered(fifo', received' + Len(packet'))
       /\ Len(packet') + Len(fifo') = Len(packet) + Len(fifo) + n
       /\ packet' \in Seq(Int) /\ fifo' \in Seq(Int)
  <2> DEFINE bytes == SubSeq(sendBuf_, 1, n)
  <2>1. bytes \in Seq(Int) /\ Len(bytes) = n /\ Write(bytes) /\ received' = received
        /\ Numbered(bytes, received + Len(packet) + Len(fifo))
    BY <1>4, <1>9 DEF y
  <2> HIDE DEF bytes
  <2> QED
    BY <2>1, WritingOn DEF QueueInv, Orders
<1>11. Len(packet') \in Nat /\ Len(fifo') \in Nat
  BY <1>10, LenProperties
<1>12. received' + Len(packet') + Len(fifo') = y + n
       /\ y + n + (Len(sendBuf_) - n) = y + Len(sendBuf_)
  <2>1. received' = received /\ n \in Int
    BY <1>3, <1>4
  <2> HIDE DEF Handed
  <2>2. received + Len(packet') + Len(fifo') = received + Len(packet) + Len(fifo) + n
    <3>1. /\ received \in Int /\ Len(packet) \in Int /\ Len(fifo) \in Int
          /\ Len(packet') \in Int /\ Len(fifo') \in Int /\ n \in Int
          /\ Len(packet') + Len(fifo') = Len(packet) + Len(fifo) + n
      BY <1>7, <1>10, <1>11, <2>1
    <3> QED
      BY <3>1, SameSum
  <2>3. y + n + (Len(sendBuf_) - n) = y + Len(sendBuf_)
    BY <1>2, <1>7, <2>1
  <2> QED
    BY <2>1, <2>2, <2>3 DEF y
<1> QED
  BY <1>4, <1>5, <1>8, <1>9, <1>10, <1>12 DEF Orders

LEMMA RemovalOrders ==
  ASSUME QueueInv, Orders, CompareSent \/ RemoveSent
  PROVE  Orders'
<1>1. /\ UNCHANGED <<received, accepted, packet, fifo>>
      /\ sendBuf_ \in Seq(Int) /\ Len(sendBuf_) \in Nat
  BY LenProperties DEF CompareSent, RemoveSent, tud, QueueInv, QueueTypes
<1>2. CASE CompareSent
  <2>1. /\ stage = "sent" /\ bytesSent \in 0 .. Len(sendBuf_) /\ finish' = Len(sendBuf_)
        /\ UNCHANGED <<sendBuf_, bytesSent>>
    BY <1>1, <1>2 DEF CompareSent, QueueInv, QueueTypes
  <2>2. \/ stage' = "clear" /\ bytesSent = Len(sendBuf_)
        \/ stage' = "erase"
        \/ stage' = "flush" /\ bytesSent = 0
    BY <1>2, <2>1 DEF CompareSent, AfterSent
  <2>3. Handed' = Handed
    BY <2>1, <2>2 DEF Handed
  <2>4. Unsent' = Unsent
    BY <2>1, <2>3 DEF Unsent, Handed
  <2>5. Undisturbed'
    BY <2>1, <2>2 DEF Undisturbed
  <2> QED
    BY <1>1, <2>4, <2>5 DEF Orders
<1>3. CASE RemoveSent
  <2>1. stage' = "flush" /\ Undisturbed'
    BY <1>3 DEF RemoveSent, Undisturbed
  <2>2. /\ stage \in {"clear", "erase"} /\ Handed = bytesSent
        /\ bytesSent \in 0 .. Len(sendBuf_)
        /\ Unsent = SubSeq(sendBuf_, bytesSent + 1, Len(sendBuf_))
    <3>1. stage \in {"clear", "erase"} /\ Handed = bytesSent
      BY <1>3 DEF RemoveSent, Handed
    <3> QED
      BY <3>1, UnsentIs DEF QueueInv, Orders
  <2>3. sendBuf_' = Unsent
    <3>1. CASE stage = "clear" /\ sendBuf_' = <<>>
      <4>1. bytesSent = Len(sendBuf_)
        BY <3>1 DEF Orders, Undisturbed
      <4> QED
        BY <1>1, <2>2, <3>1, <4>1, SubSeqEmpty
    <3>2. CASE stage = "erase" /\ sendBuf_' \in Erased
      <4>1. finish = Len(sendBuf_)
        BY <3>2 DEF Orders, Undisturbed
      <4>2. SubSeq(sendBuf_, finish - bytesSent + 1, Len(sendBuf_) - bytesSent) = <<>>
        <5> DEFINE m == finish - bytesSent + 1
                   k == Len(sendBuf_) - bytesSent
        <5>1. m \in Int /\ k \in Int /\ k < m
          BY <1>1, <2>2, <4>1
        <5> HIDE DEF m, k
        <5>2. SubSeq(sendBuf_, m, k) = <<>>
          BY <5>1, SubSeqEmpty
        <5> QED
          BY <5>2 DEF m, k
      <4>3. Unsent \o <<>> = Unsent
        BY UnsentIs, ConcatEmptySeq DEF QueueInv, Orders
      <4>4. SubSeq(sendBuf_, bytesSent + 1, finish) = Unsent
        BY <2>2, <4>1
      <4> QED
        BY <2>2, <3>2, <4>2, <4>3, <4>4 DEF Erased
    <3> QED
      BY <1>3, <3>1, <3>2 DEF RemoveSent
  <2>4. Unsent' = Unsent
    <3>1. Unsent' = SubSeq(sendBuf_', 1, Len(sendBuf_'))
      BY <2>1 DEF Unsent
    <3>2. Unsent \in Seq(Int)
      BY UnsentIs DEF QueueInv, Orders
    <3> QED
      BY <2>3, <3>1, <3>2, SubSeqFull
  <2> QED
    BY <1>1, <2>1, <2>4 DEF Orders
<1> QED
  BY <1>2, <1>3

LEMMA FlushOrders ==
  ASSUME QueueInv, Orders, Flush
  PROVE  Orders'
<1>1. /\ stage = "flush" /\ stage' = "tud_task" /\ Write(<<>>)
      /\ UNCHANGED <<sendBuf_, bytesSent, received, accepted>>
  BY DEF Flush
<1>2. Undisturbed' /\ Unsent' = Unsent
  BY <1>1 DEF Undisturbed, Unsent
<1>3. <<>> \in Seq(Int) /\ Len(<<>>) = 0
  BY EmptySeq
<1>4. Numbered(<<>>, received + Len(packet) + Len(fifo))
  BY <1>3 DEF Numbered
<1>5. /\ Numbered(packet', received') /\ Numbered(fifo', received' + Len(packet'))
      /\ Len(packet') + Len(fifo') = Len(packet) + Len(fifo) + 0
      /\ packet' \in Seq(Int) /\ fifo' \in Seq(Int)
  <2> DEFINE bytes == <<>>
  <2>1. /\ bytes \in Seq(Int) /\ Len(bytes) = 0 /\ Write(bytes) /\ received' = received
        /\ Numbered(bytes, received + Len(packet) + Len(fifo))
    BY <1>1, <1>3, <1>4
  <2> HIDE DEF bytes
  <2> QED
    BY <2>1, WritingOn DEF QueueInv, Orders
<1>6. /\ Len(packet) \in Nat /\ Len(fifo) \in Nat /\ received \in Int
      /\ Len(packet') \in Nat /\ Len(fifo') \in Nat
  BY <1>5, LenProperties DEF QueueInv, QueueTypes
<1>7. received' + Len(packet') + Len(fifo') = received + Len(packet) + Len(fifo)
  <2>1. /\ received \in Int /\ Len(packet) \in Int /\ Len(fifo) \in Int
        /\ Len(packet') \in Int /\ Len(fifo') \in Int /\ 0 \in Int
        /\ Len(packet') + Len(fifo') = Len(packet) + Len(fifo) + 0
    BY <1>5, <1>6
  <2>2. received + Len(packet') + Len(fifo') = received + Len(packet) + Len(fifo) + 0
    BY <2>1, SameSum
  <2>3. received + Len(packet) + Len(fifo) + 0 = received + Len(packet) + Len(fifo)
    BY <1>6
  <2> QED
    BY <1>1, <2>2, <2>3
<1> QED
  BY <1>1, <1>2, <1>5, <1>7 DEF Orders

(* The port is closed: all that was not with the host any more is dropped, *)
(* and Send() goes on from there.                                          *)
LEMMA LineOrders ==
  ASSUME QueueInv, Orders, LineStateCallback
  PROVE  Orders'
<1>1. stage = "tud_task" /\ UNCHANGED <<packet, received, stage, bytesSent, finish>>
  BY DEF LineStateCallback, thread
<1>2. Undisturbed'
  BY <1>1 DEF Undisturbed
<1>3. CASE line
  <2>1. UNCHANGED <<fifo, sendBuf_, accepted>>
    BY <1>3 DEF LineStateCallback, LineState
  <2>2. Unsent' = Unsent
    BY <1>1, <2>1 DEF Unsent
  <2> QED
    BY <1>1, <1>2, <2>1, <2>2 DEF Orders
<1>4. CASE ~line
  <2>1. /\ fifo' = <<>> /\ sendBuf_' = <<>>
        /\ accepted' = IF packet # <<>> THEN Last(packet) ELSE received
    BY <1>4 DEF LineStateCallback, LineState
  <2>2. <<>> \in Seq(Int) /\ Len(<<>>) = 0
    BY EmptySeq
  <2>3. Unsent' = <<>>
    <3>1. Unsent' = SubSeq(sendBuf_', 1, Len(sendBuf_'))
      BY <1>1 DEF Unsent
    <3> QED
      BY <2>1, <2>2, <3>1, SubSeqFull
  <2>4. Len(packet) \in Nat /\ received \in Int /\
          received + Len(packet) + 0 + 0 = received + Len(packet)
    BY LenProperties DEF QueueInv, QueueTypes
  <2>5. accepted' = Number(received + Len(packet))
    <3>1. CASE packet # <<>>
      BY <2>1, <3>1, LastNumber DEF QueueInv
    <3>2. CASE packet = <<>>
      BY <2>1, <2>2, <2>4, <3>2 DEF Orders
    <3> QED
      BY <3>1, <3>2
  <2>6. \A from : Numbered(<<>>, from)
    BY <2>2 DEF Numbered
  <2> QED
    BY <1>1, <1>2, <2>1, <2>2, <2>3, <2>4, <2>5, <2>6 DEF Orders
<1> QED
  BY <1>3, <1>4
(* What is added to the queue is added to what is unsent of it.            *)
LEMMA AddedLast ==
  ASSUME NEW s \in Seq(Int), NEW t \in Seq(Int), NEW h \in 0 .. Len(s)
  PROVE  SubSeq(s \o t, h + 1, Len(s \o t)) = SubSeq(s, h + 1, Len(s)) \o t
<1> DEFINE all == s \o t
           a == SubSeq(all, h + 1, Len(all))
           b == SubSeq(s, h + 1, Len(s))
<1>1. /\ Len(s) \in Nat /\ Len(t) \in Nat /\ all \in Seq(Int) /\ Len(all) = Len(s) + Len(t)
      /\ \A i \in 1 .. Len(s) + Len(t) : all[i] = IF i <= Len(s) THEN s[i] ELSE t[i - Len(s)]
  BY LenProperties, ConcatProperties
<1> HIDE DEF all
<1>2. /\ a \in Seq(Int) /\ Len(a) = Len(all) - h
      /\ \A i \in 1 .. Len(all) - h : a[i] = all[h + i]
  <2>1. h \in 0 .. Len(all)
    BY <1>1
  <2> QED
    BY <1>1, <2>1, LastPart
<1>3. /\ b \in Seq(Int) /\ Len(b) = Len(s) - h
      /\ \A i \in 1 .. Len(s) - h : b[i] = s[h + i]
  BY LastPart
<1> HIDE DEF a, b
<1>4. /\ b \o t \in Seq(Int) /\ Len(b \o t) = Len(b) + Len(t)
      /\ \A i \in 1 .. Len(b) + Len(t) : (b \o t)[i] = IF i <= Len(b) THEN b[i] ELSE t[i - Len(b)]
  BY <1>3, ConcatProperties
<1>5. Len(a) = Len(b \o t) /\ Len(a) = Len(s) - h + Len(t)
  BY <1>1, <1>2, <1>3, <1>4
<1>6. ASSUME NEW i \in 1 .. Len(s) - h + Len(t) PROVE a[i] = (b \o t)[i]
  <2> DEFINE ls == Len(s)
             lt == Len(t)
             lb == Len(b)
             la == Len(all)
  <2>0. /\ ls \in Nat /\ lt \in Nat /\ la = ls + lt /\ lb = ls - h /\ h \in 0 .. ls
        /\ i \in 1 .. ls - h + lt
    BY <1>1, <1>3
  <2> HIDE DEF ls, lt, lb, la
  <2>1. h \in Int /\ i \in Int
    BY <2>0
  <2>2. i \in 1 .. la - h
    BY <2>0
  <2>3. i \in 1 .. lb + lt
    BY <2>0
  <2>4. h + i \in 1 .. ls + lt
    BY <2>0
  <2>5. h + i - ls = i - lb
    BY <2>0, <2>1
  <2>6. h + i <= ls => i <= lb
    BY <2>0, <2>1
  <2>7. i <= lb => i \in 1 .. ls - h /\ h + i <= ls
    BY <2>0, <2>1
  <2> USE DEF ls, lt, lb, la
  <2>8. a[i] = all[h + i]
    BY <1>2, <2>2
  <2>9. all[h + i] = IF h + i <= Len(s) THEN s[h + i] ELSE t[h + i - Len(s)]
    BY <1>1, <2>4
  <2>10. (b \o t)[i] = IF i <= Len(b) THEN b[i] ELSE t[i - Len(b)]
    BY <1>4, <2>3
  <2>11. CASE i <= Len(b)
    <3>1. b[i] = s[h + i]
      BY <1>3, <2>7, <2>11
    <3> QED
      BY <2>7, <2>8, <2>9, <2>10, <2>11, <3>1
  <2>12. CASE ~(i <= Len(b))
    BY <2>5, <2>6, <2>8, <2>9, <2>10, <2>12
  <2> QED
    BY <2>11, <2>12
<1>7. a = b \o t
  BY <1>2, <1>4, <1>5, <1>6, SeqEqual
<1> QED
  BY <1>7 DEF a, b, all

(* Send() numbers what it takes on from all that is under way, and takes   *)
(* nothing while the other thread removes.                                 *)
LEMMA SendOrders ==
  ASSUME QueueInv, QueueInv', Orders, ~SendsInErase, NEW bufLen \in Nat \ {0}, Send(bufLen)
  PROVE  Orders'
<1> DEFINE now == BytesNow(bufLen)
           waiting == Queued(bufLen)
           bytes == Numbers(now + waiting)
           rest == SubSeq(bytes, now + 1, Len(bytes))
           first == SubSeq(bytes, 1, now)
           y == received + Len(packet) + Len(fifo)
<1>1. /\ stage \notin {"clear", "erase"} /\ TakeBytes(bufLen)
      /\ UNCHANGED <<stage, bytesSent, finish, received>>
  BY DEF Send, thread
<1>2. /\ now \in Nat /\ waiting \in Nat /\ now + waiting \in Nat
      /\ bytes \in Seq(Int) /\ Len(bytes) = now + waiting /\ now \in 0 .. Len(bytes)
  <2>1. /\ now \in 0 .. bufLen /\ waiting \in Nat
        /\ bytes \in Seq(Int) /\ Len(bytes) = now + waiting
    BY Amounts DEF QueueInv
  <2> HIDE DEF now, waiting, bytes
  <2> QED
    BY <2>1
<1>3. /\ IF sendBuf_ = <<>> THEN Write(first) ELSE UNCHANGED <<fifo, packet>>
      /\ sendBuf_' = sendBuf_ \o rest
      /\ accepted' = Number(accepted + now + waiting)
  <2>1. /\ IF sendBuf_ = <<>> THEN Write(first) ELSE UNCHANGED <<fifo, packet>>
        /\ sendBuf_' = sendBuf_ \o SubSeq(bytes, now + 1, now + waiting)
        /\ accepted' = (accepted + now + waiting) % Modulus
    BY <1>1 DEF TakeBytes, BytesNow, Queued
  <2> HIDE DEF now, waiting, bytes
  <2> QED
    BY <1>2, <2>1 DEF Number
<1>4. sendBuf_ # <<>> => now = 0
  BY DEF BytesNow
<1>5. Numbered(bytes, accepted)
  <2>1. \A i \in 1 .. now + waiting : bytes[i] = Number(accepted + i)
    BY DEF Numbers, Number
  <2> HIDE DEF now, waiting, bytes
  <2> QED
    BY <1>2, <2>1 DEF Numbered
<1> HIDE DEF now, waiting, bytes
<1>6. /\ Len(packet) \in Nat /\ Len(fifo) \in Nat /\ received \in Int /\ y \in Int
      /\ packet \in Seq(Int) /\ fifo \in Seq(Int) /\ sendBuf_ \in Seq(Int)
  BY LenProperties DEF QueueInv, QueueTypes
<1>7. /\ Unsent \in Seq(Int) /\ Len(Unsent) \in Nat /\ Handed \in 0 .. Len(sendBuf_)
      /\ Unsent = SubSeq(sendBuf_, Handed + 1, Len(sendBuf_))
      /\ Len(Unsent) = Len(sendBuf_) - Handed
  BY UnsentIs, LenProperties DEF QueueInv, Orders
<1>8. accepted = Number(y + Len(Unsent)) /\ Numbered(Unsent, y)
  BY DEF Orders
<1>9. /\ first \in Seq(Int) /\ Len(first) = now
      /\ rest \in Seq(Int) /\ Len(rest) = waiting
      /\ Numbered(first, y + Len(Unsent)) /\ Numbered(rest, y + Len(Unsent) + now)
  <2>1. y + Len(Unsent) \in Int
    BY <1>6, <1>7
  <2> HIDE DEF y
  <2>2. Numbered(bytes, y + Len(Unsent))
    BY <1>2, <1>5, <1>8, <2>1, NumberedOn
  <2>3. /\ first \in Seq(Int) /\ Len(first) = now
        /\ rest \in Seq(Int) /\ Len(rest) = Len(bytes) - now
        /\ Numbered(first, y + Len(Unsent)) /\ Numbered(rest, y + Len(Unsent) + now)
    BY <1>2, <2>1, <2>2, NumberedParts
  <2> HIDE DEF rest
  <2>4. Len(rest) = waiting
    BY <1>2, <2>3
  <2> QED
    BY <2>3, <2>4
<1>10. accepted' = Number(y + Len(Unsent) + now + waiting)
  <2> DEFINE x == y + Len(Unsent)
             k == now + waiting
  <2>1. x \in Int /\ k \in Int /\ x + now + waiting = x + k
    <3>1. y \in Int /\ Len(Unsent) \in Int /\ now \in Int /\ waiting \in Int
      BY <1>2, <1>6, <1>7
    <3> HIDE DEF y
    <3> QED
      BY <3>1
  <2>2. accepted = Number(x) /\ accepted \in Int
    BY <1>8 DEF QueueInv, QueueTypes
  <2> HIDE DEF x, y
  <2>3. accepted + now + waiting = Number(x) + k
    BY <1>2, <2>2
  <2> HIDE DEF k
  <2>4. accepted' = Number(x + k)
    BY <1>3, <2>1, <2>2, <2>3, NumberTwice
  <2> QED
    BY <2>1, <2>4 DEF x, k
<1>11. Undisturbed' /\ Handed' = Handed
  BY <1>1 DEF Undisturbed, Handed
<1>12. Unsent' = Unsent \o rest
  <2>1. Unsent' = SubSeq(sendBuf_', 1 + Handed', Len(sendBuf_'))
    BY DEF Unsent, Handed
  <2>2. 1 + Handed = Handed + 1
    BY <1>7
  <2> HIDE DEF rest
  <2>3. SubSeq(sendBuf_ \o rest, Handed + 1, Len(sendBuf_ \o rest)) = Unsent \o rest
    BY <1>6, <1>7, <1>9, AddedLast
  <2> QED
    BY <1>3, <1>11, <2>1, <2>2, <2>3
<1> HIDE DEF first, rest
<1>13. Len(Unsent') = Len(Unsent) + waiting
  BY <1>7, <1>9, <1>12, Together
<1>14. CASE sendBuf_ = <<>>
  <2>1. Len(sendBuf_) = 0 /\ Len(Unsent) = 0
    <3>1. Len(sendBuf_) = 0
      BY <1>14, EmptySeq
    <3> HIDE DEF Handed
    <3> QED
      BY <1>7, <3>1
  <2>2. Unsent' = rest
    BY <1>7, <1>9, <1>12, <2>1, EmptySeq, ConcatEmptySeq
  <2>3. y + Len(Unsent) = y
    BY <1>6, <2>1
  <2>4. /\ Numbered(packet', received') /\ Numbered(fifo', received' + Len(packet'))
        /\ Len(packet') + Len(fifo') = Len(packet) + Len(fifo) + now
        /\ packet' \in Seq(Int) /\ fifo' \in Seq(Int)
    <3>1. /\ first \in Seq(Int) /\ Len(first) = now /\ Write(first) /\ received' = received
          /\ Numbered(first, received + Len(packet) + Len(fifo))
      BY <1>1, <1>3, <1>9, <1>14, <2>3 DEF y
    <3> QED
      BY <3>1, WritingOn DEF QueueInv, Orders
  <2>5. Len(packet') \in Nat /\ Len(fifo') \in Nat
    BY <2>4, LenProperties
  <2>6. received + Len(packet') + Len(fifo') = y + now
    <3>1. /\ received \in Int /\ Len(packet) \in Int /\ Len(fifo) \in Int
          /\ Len(packet') \in Int /\ Len(fifo') \in Int /\ now \in Int
          /\ Len(packet') + Len(fifo') = Len(packet) + Len(fifo) + now
      BY <1>2, <1>6, <2>4, <2>5
    <3> QED
      BY <3>1, SameSum DEF y
  <2> HIDE DEF y
  <2>7. Numbered(Unsent', y + now)
    BY <1>9, <2>2, <2>3
  <2>8. accepted' = Number(y + now + Len(Unsent'))
    BY <1>9, <1>10, <2>2, <2>3
  <2> QED
    BY <1>1, <1>11, <2>4, <2>6, <2>7, <2>8 DEF Orders
<1>15. CASE sendBuf_ # <<>>
  <2>1. now = 0 /\ UNCHANGED <<fifo, packet>>
    BY <1>3, <1>4, <1>15
  <2>2. y + Len(Unsent) + now = y + Len(Unsent)
        /\ y + Len(Unsent) + now + waiting = y + (Len(Unsent) + waiting)
    <3>1. y \in Int /\ Len(Unsent) \in Int /\ now = 0 /\ waiting \in Int
      BY <1>2, <1>6, <1>7, <2>1
    <3> HIDE DEF y
    <3> QED
      BY <3>1
  <2>3. y' = y
    BY <1>1, <2>1
  <2> HIDE DEF y
  <2>4. Numbered(Unsent', y)
    BY <1>6, <1>7, <1>8, <1>9, <1>12, <2>2, NumberedTogether
  <2>5. accepted' = Number(y + Len(Unsent'))
    BY <1>10, <1>13, <2>2
  <2> QED
    BY <1>1, <1>11, <2>1, <2>3, <2>4, <2>5 DEF Orders, y
<1> QED
  BY <1>14, <1>15

LEMMA OrdersNext == QueueInv /\ QueueInv' /\ Orders /\ ~SendsInErase /\ [CdcNext]_cdcVars => Orders'
<1> SUFFICES ASSUME QueueInv, QueueInv', Orders, ~SendsInErase, [CdcNext]_cdcVars PROVE Orders'
  OBVIOUS
<1>1. CASE Transfer
  BY <1>1, TransferOrders
<1>2. ASSUME UNCHANGED <<sendBuf_, fifo, packet, stage, bytesSent, finish, accepted, received>>
      PROVE  Orders'
  BY <1>2 DEF Orders, Undisturbed, Unsent
<1>3. CASE SetControlLineState
  BY <1>2, <1>3 DEF SetControlLineState, thread
<1>4. CASE \E n \in 1 .. MaxLen : Send(n)
  <2>1. PICK n \in 1 .. MaxLen : Send(n)
    BY <1>4
  <2>2. n \in Nat \ {0}
    BY UsbCdcAssumption
  <2> QED
    BY <2>1, <2>2, SendOrders
<1>5. CASE \E c \in Capacities : SetSendBufCapacity(c)
  BY <1>2, <1>5 DEF SetSendBufCapacity, tud, thread
<1>6. CASE LineStateCallback
  BY <1>6, LineOrders
<1>7. CASE TxCompleteCallback
  <2>1. /\ stage = "tud_task" /\ stage' = "queue"
        /\ UNCHANGED <<sendBuf_, fifo, packet, bytesSent, finish, accepted, received>>
    BY <1>7 DEF TxCompleteCallback, TxComplete
  <2> QED
    BY <2>1 DEF Orders, Undisturbed, Unsent
<1>8. CASE SendFromQueue
  BY <1>8, QueueOrders
<1>9. CASE CompareSent \/ RemoveSent
  BY <1>9, RemovalOrders
<1>10. CASE Flush
  BY <1>10, FlushOrders
<1>11. CASE UNCHANGED cdcVars
  BY <1>2, <1>11 DEF cdcVars, tud, thread
<1> QED
  BY <1>1, <1>3, <1>4, <1>5, <1>6, <1>7, <1>8, <1>9, <1>10, <1>11 DEF CdcNext, TinyUsbThread

LEMMA OrdersNoneLost ==
  ASSUME QueueInv, Orders
  PROVE  NoneLost
<1> DEFINE pf == packet \o fifo
           all == pf \o Unsent
<1>1. /\ packet \in Seq(Int) /\ fifo \in Seq(Int) /\ Unsent \in Seq(Int) /\ received \in Int
      /\ Len(packet) \in Nat /\ Len(fifo) \in Nat /\ Len(Unsent) \in Nat
  BY UnsentIs, LenProperties DEF QueueInv, QueueTypes, Orders
<1>2. pf \in Seq(Int) /\ Len(pf) = Len(packet) + Len(fifo)
  BY <1>1, Together
<1>3. Numbered(pf, received)
  BY <1>1, NumberedTogether DEF Orders
<1> HIDE DEF pf
<1>4. received + Len(pf) = received + Len(packet) + Len(fifo)
  BY <1>1, <1>2
<1>5. Numbered(all, received) /\ all \in Seq(Int) /\ Len(all) = Len(pf) + Len(Unsent)
  <2>1. Numbered(Unsent, received + Len(pf))
    BY <1>4 DEF Orders
  <2> QED
    BY <1>1, <1>2, <1>3, <2>1, NumberedTogether, Together
<1>6. UnderWay = all
  BY DEF UnderWay, pf
<1>7. accepted = Number(received + Len(all))
  <2>1. received + Len(all) = received + Len(packet) + Len(fifo) + Len(Unsent)
    BY <1>1, <1>2, <1>5
  <2> QED
    BY <2>1 DEF Orders
<1> HIDE DEF all
<1>8. all = [i \in DOMAIN all |-> Number(received + i)]
  <2>1. all = [i \in DOMAIN all |-> all[i]] /\ DOMAIN all = 1 .. Len(all)
    BY <1>5, LenProperties
  <2>2. \A i \in DOMAIN all : all[i] = Number(received + i)
    BY <1>5, <2>1 DEF Numbered
  <2> QED
    BY <2>1, <2>2
<1> QED
  BY <1>6, <1>7, <1>8 DEF NoneLost, Number

(* As long as Send() does not come while SendFromQueue() removes what it   *)
(* sent, every byte it took reaches the host once and in order: FIFO,      *)
(* packets and queue of every size, and Send() between any other two steps *)
(* of the TinyUSB thread.                                                  *)
THEOREM NothingLost ==
  ASSUME ~SendsInErase
  PROVE  CdcSpec => []NoneLost
<1>1. CdcInit => Orders
  BY OrdersInit
<1>2. QueueInv /\ QueueInv' /\ Orders /\ [CdcNext]_cdcVars => Orders'
  BY OrdersNext
<1>3. QueueInv /\ Orders => NoneLost
  BY OrdersNoneLost
<1> QED
  BY <1>1, <1>2, <1>3, QueueInvariant, PTL DEF CdcSpec
-----------------------------------------------------------------------------
(* Wspr, for every band that fits into 32 bits and every standard message. *)
(* Each step of the encoding is undone by one of the receiver: numbers and *)
(* their bits, callsigns and grids and their numbers, indices and places,  *)
(* parities and bits, frequencies and tones.  Recursion is by functions    *)
(* on 0 .. n, and what they are is counted up to from 0.                   *)

(* A number without its last bits is twice what it is without one more,    *)
(* and that one: for each bit of a callsign.                               *)
LEMMA HalfEach ==
  ASSUME NEW n \in Nat, NEW j \in 0 .. 27
  PROVE  /\ n \div 2^j \in Nat /\ n \div 2^(j + 1) \in Nat
         /\ n \div 2^j = 2 * (n \div 2^(j + 1)) + ((n \div 2^j) % 2)
         /\ (n \div 2^j) % 2 \in {0, 1}
<1>0. CASE j = 0
  BY <1>0
<1>1. CASE j = 1
  BY <1>1
<1>2. CASE j = 2
  BY <1>2
<1>3. CASE j = 3
  BY <1>3
<1>4. CASE j = 4
  BY <1>4
<1>5. CASE j = 5
  BY <1>5
<1>6. CASE j = 6
  BY <1>6
<1>7. CASE j = 7
  BY <1>7
<1>8. CASE j = 8
  BY <1>8
<1>9. CASE j = 9
  BY <1>9
<1>10. CASE j = 10
  BY <1>10
<1>11. CASE j = 11
  BY <1>11
<1>12. CASE j = 12
  BY <1>12
<1>13. CASE j = 13
  BY <1>13
<1>14. CASE j = 14
  BY <1>14
<1>15. CASE j = 15
  BY <1>15
<1>16. CASE j = 16
  BY <1>16
<1>17. CASE j = 17
  BY <1>17
<1>18. CASE j = 18
  BY <1>18
<1>19. CASE j = 19
  BY <1>19
<1>20. CASE j = 20
  BY <1>20
<1>21. CASE j = 21
  BY <1>21
<1>22. CASE j = 22
  BY <1>22
<1>23. CASE j = 23
  BY <1>23
<1>24. CASE j = 24
  BY <1>24
<1>25. CASE j = 25
  BY <1>25
<1>26. CASE j = 26
  BY <1>26
<1>27. CASE j = 27
  BY <1>27
<1> QED
  BY <1>0, <1>1, <1>2, <1>3, <1>4, <1>5, <1>6, <1>7, <1>8, <1>9, <1>10, <1>11,
     <1>12, <1>13, <1>14, <1>15, <1>16, <1>17, <1>18, <1>19, <1>20, <1>21, <1>22, <1>23,
     <1>24, <1>25, <1>26, <1>27

(* A number fits into bits: there is nothing before them.                  *)
Fits(n, k) == n \in Nat /\ n \div 2^k = 0

(* NumberOf undoes BitRange: as many bits as hold a number are that number.  *)
LEMMA NumberIsBits ==
  ASSUME NEW n, NEW k \in 1 .. 28, Fits(n, k)
  PROVE  NumberOf(BitRange(n, k)) = n
<1> DEFINE half == [j \in 0 .. 28 |-> n \div 2^j]
           bits == BitRange(n, k)
           Step(f, i) == IF i = 0 THEN 0 ELSE 2 * f[i - 1] + bits[i]
           upTo == [i \in 0 .. k |-> half[k - i]]
           number == CHOOSE f : f = [i \in 0 .. k |-> Step(f, i)]
<1>0. n \in Nat /\ n \div 2^k = 0
  BY DEF Fits
<1>1. /\ half[0] = n /\ half[k] = 0
      /\ \A j \in 0 .. 27 : half[j] \in Nat /\ half[j] = 2 * half[j + 1] + (half[j] % 2)
  <2>1. n \div 2^0 = n
    BY <1>0
  <2>2. half[0] = n /\ half[k] = 0
    BY <1>0, <2>1
  <2>3. ASSUME NEW j \in 0 .. 27
        PROVE  half[j] \in Nat /\ half[j] = 2 * half[j + 1] + (half[j] % 2)
    <3>1. half[j] = n \div 2^j /\ half[j + 1] = n \div 2^(j + 1)
      OBVIOUS
    <3> QED
      BY <1>0, <3>1, HalfEach
  <2> QED
    BY <2>2, <2>3
<1>2. bits = [i \in 1 .. k |-> half[k - i] % 2] /\ Len(bits) = k
  <2>1. \A i \in 1 .. k : (n \div 2^(k - i)) % 2 = half[k - i] % 2
    OBVIOUS
  <2> QED
    BY <2>1 DEF BitRange
<1> HIDE DEF half, bits
<1>3. upTo = [i \in 0 .. k |-> Step(upTo, i)]
  <2>1. ASSUME NEW i \in 0 .. k PROVE upTo[i] = Step(upTo, i)
    <3>1. CASE i = 0
      BY <1>1, <3>1
    <3>2. CASE i # 0
      <4>1. i - 1 \in 0 .. k /\ k - i \in 0 .. 27 /\ (k - i) + 1 = k - (i - 1)
        BY <3>2
      <4>2. half[k - i] = 2 * half[k - (i - 1)] + (half[k - i] % 2)
        BY <1>1, <4>1
      <4>3. bits[i] = half[k - i] % 2
        BY <1>2, <3>2
      <4> QED
        BY <3>2, <4>1, <4>2, <4>3
    <3> QED
      BY <3>1, <3>2
  <2> HIDE DEF Step
  <2> QED
    BY <2>1
<1>4. number = [i \in 0 .. k |-> Step(number, i)]
  <2> HIDE DEF Step, upTo
  <2> QED
    BY <1>3
<1> HIDE DEF number
<1>5. \A i \in 0 .. k : number[i] = upTo[i]
  <2> DEFINE Same == {i \in 0 .. k : number[i] = upTo[i]}
  <2>1. \A i \in 0 .. k : number[i] = Step(number, i) /\ upTo[i] = Step(upTo, i)
    <3> HIDE DEF Step, upTo
    <3> QED
      BY <1>3, <1>4
  <2> HIDE DEF upTo
  <2>2. 0 \in Same
    BY <2>1
  <2>3. \A i \in 1 .. k : i - 1 \in Same => i \in Same
    BY <2>1
  <2> HIDE DEF Same
  <2>4. \A i \in 0 .. k : i \in Same
    BY <2>2, <2>3, CountingUp
  <2> QED
    BY <2>4 DEF Same
<1>6. NumberOf(bits) = number[k]
  BY <1>2 DEF NumberOf, number
<1>7. upTo[k] = half[0]
  OBVIOUS
<1> HIDE DEF upTo
<1>8. number[k] = n
  <2>1. k \in 0 .. k
    OBVIOUS
  <2> QED
    BY <1>1, <1>5, <1>7, <2>1
<1>9. NumberOf(bits) = n
  BY <1>6, <1>8
<1> QED
  BY <1>9 DEF bits

(* The receiver's characters are those of the code.                        *)
LEMMA Char1Is ==
  ASSUME NEW ch \in Digits \cup Capitals \cup {Blank}
  PROVE  /\ chval1(ch) \in 0 .. 36 /\ Char1(chval1(ch)) = ch
         /\ ch # Blank => chval1(ch) \in 0 .. 35
         /\ ch \in Digits => chval1(ch) \in 0 .. 9
<1>1. CASE ch \in Digits
  <2>1. chval1(ch) = ch - 48
    BY <1>1 DEF chval1, isdigit
  <2> QED
    BY <1>1, <2>1 DEF Char1, Digits, Blank
<1>2. CASE ch \in Capitals
  <2>1. chval1(ch) = ch - 55
    BY <1>2 DEF chval1, isdigit, isalpha, toupper, Digits, Capitals
  <2> QED
    BY <1>2, <2>1 DEF Char1, Digits, Capitals, Blank
<1>3. CASE ch = Blank
  <2>1. chval1(ch) = 36
    BY <1>3 DEF chval1, isdigit, isalpha, toupper, Digits, Capitals, Blank
  <2> QED
    BY <1>3, <2>1 DEF Char1, Digits, Capitals, Blank
<1> QED
  BY <1>1, <1>2, <1>3

(* The letters after the digit, and the blanks after them.                 *)
LEMMA Char2Is ==
  ASSUME NEW ch \in Capitals \cup {Blank}
  PROVE  chval2(ch) \in 0 .. 26 /\ Char2(chval2(ch)) = ch
<1>1. CASE ch \in Capitals
  <2>1. chval2(ch) = ch - 65
    BY <1>1 DEF chval2, isalpha, toupper, Capitals
  <2> QED
    BY <1>1, <2>1 DEF Char2, Capitals, Blank
<1>2. CASE ch = Blank
  <2>1. chval2(ch) = 26
    BY <1>2 DEF chval2, isalpha, Capitals, Blank
  <2> QED
    BY <1>2, <2>1 DEF Char2
<1> QED
  BY <1>1, <1>2

(* Divided by two bases in turn is divided by their product.               *)
LEMMA DividedTwice ==
  ASSUME NEW n \in Nat
  PROVE  /\ (n \div 27) \div 27 = n \div 729 /\ (n \div 729) \div 27 = n \div 19683
         /\ (n \div 10) \div 36 = n \div 360
BY SMT

(* The last digit of a number, in the base it has there, and the rest.     *)
LEMMA DigitFirst ==
  ASSUME NEW base \in {10, 27, 36}, NEW x \in Nat, NEW y \in 0 .. base - 1
  PROVE  x * base + y \in Nat /\ (x * base + y) \div base = x /\ (x * base + y) % base = y
<1>1. CASE base = 10
  BY <1>1, SMT
<1>2. CASE base = 27
  BY <1>2, SMT
<1>3. CASE base = 36
  BY <1>3, SMT
<1> QED
  BY <1>1, <1>2, <1>3

(* The number of a callsign, and its parts as a receiver finds them.       *)
Radix(a, b, c, d, e, f) == ((((a * 36 + b) * 10 + c) * 27 + d) * 27 + e) * 27 + f

Undone(n, a, b, c, d, e, f) ==
  /\ Fits(n, 28)
  /\ (n \div 19683) \div 360 = a /\ ((n \div 19683) \div 10) % 36 = b
  /\ (n \div 19683) % 10 = c
  /\ (n \div 729) % 27 = d /\ (n \div 27) % 27 = e /\ n % 27 = f

(* A callsign's number fits into 28 bits, and its six parts are in it.     *)
LEMMA MixedRadix ==
  ASSUME NEW a \in 0 .. 36, NEW b \in 0 .. 35, NEW c \in 0 .. 9,
         NEW d \in 0 .. 26, NEW e \in 0 .. 26, NEW f \in 0 .. 26
  PROVE  Undone(Radix(a, b, c, d, e, f), a, b, c, d, e, f)
<1> DEFINE x == a * 36 + b
           y == x * 10 + c
           z == y * 27 + d
           u == z * 27 + e
           n == u * 27 + f
<1>1. n \in Nat /\ n \div 2^28 = 0
  BY SMT
<1>2. x \in Nat /\ x \div 36 = a /\ x % 36 = b
  BY DigitFirst
<1> HIDE DEF x
<1>3. y \in Nat /\ y \div 10 = x /\ y % 10 = c
  BY <1>2, DigitFirst
<1> HIDE DEF y
<1>4. z \in Nat /\ z \div 27 = y /\ z % 27 = d
  BY <1>3, DigitFirst
<1> HIDE DEF z
<1>5. u \in Nat /\ u \div 27 = z /\ u % 27 = e
  BY <1>4, DigitFirst
<1> HIDE DEF u
<1>6. n \in Nat /\ n \div 27 = u /\ n % 27 = f
  BY <1>5, DigitFirst
<1> HIDE DEF n
<1>7. n \div 729 = z /\ n \div 19683 = y
  BY <1>4, <1>5, <1>6, DividedTwice
<1>8. y \div 360 = a
  BY <1>2, <1>3, DividedTwice
<1>9. Undone(n, a, b, c, d, e, f)
  BY <1>1, <1>2, <1>3, <1>4, <1>5, <1>6, <1>7, <1>8 DEF Undone, Fits
<1> QED
  BY <1>9, SMT DEF n, u, z, y, x, Radix

(* The first and the last place of a callsign that is not blank.           *)
LEMMA EndsOfRange ==
  ASSUME NEW a \in Int, NEW b \in Int, a <= b
  PROVE  Min(a .. b) = a /\ Max(a .. b) = b
<1>1. \A x \in a .. b : (\A y \in a .. b : x <= y) => x = a
  OBVIOUS
<1>2. \A x \in a .. b : (\A y \in a .. b : x >= y) => x = b
  OBVIOUS
<1>3. a \in a .. b /\ (\A y \in a .. b : a <= y) /\ b \in a .. b /\ (\A y \in a .. b : b >= y)
  OBVIOUS
<1>4. Min(a .. b) \in a .. b /\ \A y \in a .. b : Min(a .. b) <= y
  BY <1>3 DEF Min
<1>5. Max(a .. b) \in a .. b /\ \A y \in a .. b : Max(a .. b) >= y
  BY <1>3 DEF Max
<1> QED
  BY <1>1, <1>2, <1>4, <1>5

(* What three sequences one after the other are made of.                   *)
LEMMA ConcatOfThree ==
  ASSUME NEW S, NEW s \in Seq(S), NEW t \in Seq(S), NEW u \in Seq(S)
  PROVE  /\ s \o t \o u \in Seq(S) /\ Len(s \o t \o u) = Len(s) + Len(t) + Len(u)
         /\ \A i \in 1 .. Len(s) : (s \o t \o u)[i] = s[i]
         /\ \A i \in 1 .. Len(t) : (s \o t \o u)[Len(s) + i] = t[i]
         /\ \A i \in 1 .. Len(u) : (s \o t \o u)[Len(s) + Len(t) + i] = u[i]
<1> DEFINE st == s \o t
<1>1. Len(s) \in Nat /\ Len(t) \in Nat /\ Len(u) \in Nat
  BY LenProperties
<1>2. /\ st \in Seq(S) /\ Len(st) = Len(s) + Len(t)
      /\ \A i \in 1 .. Len(s) + Len(t) : st[i] = IF i <= Len(s) THEN s[i] ELSE t[i - Len(s)]
  BY ConcatProperties
<1> HIDE DEF st
<1> HIDE DEF st
<1>20. st \in Seq(S)
  BY <1>2
<1>3. /\ st \o u \in Seq(S) /\ Len(st \o u) = Len(st) + Len(u)
      /\ \A i \in 1 .. Len(st) + Len(u) :
           (st \o u)[i] = IF i <= Len(st) THEN st[i] ELSE u[i - Len(st)]
  BY <1>20, ConcatProperties
<1> DEFINE stu == st \o u
<1> HIDE DEF stu
<1>4. ASSUME NEW i \in 1 .. Len(s) PROVE stu[i] = s[i]
  BY <1>1, <1>2, <1>3 DEF stu
<1>5. ASSUME NEW i \in 1 .. Len(t) PROVE stu[Len(s) + i] = t[i]
  <2>1. Len(s) + i \in 1 .. Len(s) + Len(t) /\ ~(Len(s) + i <= Len(s)) /\ (Len(s) + i) - Len(s) = i
    BY <1>1
  <2> QED
    BY <1>1, <1>2, <1>3, <2>1 DEF stu
<1>6. ASSUME NEW i \in 1 .. Len(u) PROVE stu[Len(s) + Len(t) + i] = u[i]
  <2>1. /\ Len(st) + i \in 1 .. Len(st) + Len(u) /\ ~(Len(st) + i <= Len(st))
        /\ (Len(st) + i) - Len(st) = i
    BY <1>1, <1>2
  <2> QED
    BY <1>2, <1>3, <2>1 DEF stu
<1> QED
  BY <1>2, <1>3, <1>4, <1>5, <1>6 DEF stu, st

(* The six characters of a callsign are coded: the callsign itself, with a *)
(* blank before it when its digit is its second character, and blanks      *)
(* after it.                                                               *)
Shift(callsign) == IF DigitAt(callsign, 2) /\ ~DigitAt(callsign, 3) THEN 1 ELSE 0
Padded(callsign) ==
  [i \in 1 .. 6 |-> IF i - Shift(callsign) \in 1 .. Len(callsign)
                    THEN callsign[i - Shift(callsign)] ELSE Blank]

(* Each of the six characters is one that its place has a number for.      *)
LEMMA PaddedIs ==
  ASSUME NEW m, Standard(m)
  PROVE  LET padded == Padded(m.callsign)
         IN  /\ Shift(m.callsign) \in {0, 1} /\ Len(m.callsign) \in 3 - Shift(m.callsign) .. 6 - Shift(m.callsign)
             /\ \A i \in 1 .. 3 : padded[i] \in Digits \cup Capitals \cup {Blank}
             /\ padded[2] # Blank /\ padded[3] \in Digits
             /\ \A i \in 4 .. 6 : padded[i] \in Capitals \cup {Blank}
<1> DEFINE c == m.callsign
           padded == Padded(c)
           shift == Shift(c)
<1>1. c \in Seq(Digits \cup Capitals)
  BY DEF Standard
<1>2. Len(c) \in Nat /\ \A i \in 1 .. Len(c) : c[i] \in Digits \cup Capitals
  BY <1>1, LenProperties, ElementOfSeq
<1>3. PICK d \in {2, 3} : /\ Len(c) \in d .. d + 3 /\ c[d] \in Digits
                          /\ \A i \in d + 1 .. Len(c) : c[i] \in Capitals
  BY DEF Standard, isdigit
<1>4. \A ch \in Capitals : ch \notin Digits
  BY DEF Capitals, Digits
<1>5. shift = 3 - d
  <2>1. CASE d = 2
    <3>1. DigitAt(c, 2)
      BY <1>3, <2>1 DEF DigitAt, isdigit
    <3>2. ~DigitAt(c, 3)
      BY <1>3, <1>4, <2>1 DEF DigitAt, isdigit
    <3> QED
      BY <2>1, <3>1, <3>2 DEF Shift
  <2>2. CASE d = 3
    <3>1. DigitAt(c, 3)
      BY <1>3, <2>2 DEF DigitAt, isdigit
    <3> QED
      BY <2>2, <3>1 DEF Shift
  <2> QED
    BY <2>1, <2>2
<1>6. \A i \in 1 .. 6 : padded[i] = IF i - shift \in 1 .. Len(c) THEN c[i - shift] ELSE Blank
  BY DEF Padded
<1>7. Blank \notin Digits \cup Capitals
  BY DEF Blank, Digits, Capitals
<1> HIDE DEF c, padded, shift
<1>8. shift \in {0, 1} /\ Len(c) \in 3 - shift .. 6 - shift
  BY <1>3, <1>5
<1>9. \A i \in 1 .. 3 : padded[i] \in Digits \cup Capitals \cup {Blank}
  BY <1>2, <1>6, <1>8
<1>10. padded[2] # Blank /\ padded[3] \in Digits
  BY <1>2, <1>3, <1>5, <1>6, <1>7
<1>11. ASSUME NEW i \in 4 .. 6 PROVE padded[i] \in Capitals \cup {Blank}
  <2>1. CASE i - shift \in 1 .. Len(c)
    <3>1. i - shift \in d + 1 .. Len(c) /\ padded[i] = c[i - shift]
      BY <1>3, <1>5, <1>6, <2>1
    <3> QED
      BY <1>3, <3>1
  <2>2. CASE i - shift \notin 1 .. Len(c)
    BY <1>6, <2>2
  <2> QED
    BY <2>1, <2>2
<1> QED
  BY <1>8, <1>9, <1>10, <1>11 DEF c, padded, shift

(* encodecallsign numbers those six characters, whatever was padded.       *)
LEMMA EncodesPadded ==
  ASSUME NEW m, Standard(m)
  PROVE  LET padded == Padded(m.callsign)
         IN  encodecallsign(m.callsign) =
               Radix(chval1(padded[1]), chval1(padded[2]), chval1(padded[3]),
                     chval2(padded[4]), chval2(padded[5]), chval2(padded[6]))
<1> DEFINE c == m.callsign
           padded == Padded(c)
           S == Digits \cup Capitals \cup {Blank}
           first == IF DigitAt(c, 2) /\ ~DigitAt(c, 3) THEN <<Blank>> ELSE <<>>
           blanks == <<Blank, Blank, Blank>>
           all == first \o c \o blanks
<1>1. c \in Seq(Digits \cup Capitals)
  BY DEF Standard
<1>2. c \in Seq(S) /\ first \in Seq(S) /\ blanks \in Seq(S)
  <2>1. Digits \cup Capitals \subseteq S /\ Blank \in S
    OBVIOUS
  <2> HIDE DEF S
  <2>2. c \in Seq(S)
    BY <1>1, <2>1, SeqMonotonic
  <2> QED
    BY <2>1, <2>2
<1>3. Len(first) = Shift(c) /\ (Shift(c) = 1 => first[1] = Blank)
      /\ Len(blanks) = 3 /\ \A i \in 1 .. 3 : blanks[i] = Blank
  BY DEF Shift
<1>4. Shift(c) \in {0, 1} /\ Len(c) \in 3 - Shift(c) .. 6 - Shift(c)
  BY PaddedIs
<1>5. DigitAt(c, 2) \/ DigitAt(c, 3)
  BY DEF Standard, DigitAt
<1>6. encodecallsign(c) =
        Radix(chval1(all[1]), chval1(all[2]), chval1(all[3]),
              chval2(all[4]), chval2(all[5]), chval2(all[6]))
  BY <1>5 DEF encodecallsign, Radix
<1>7. /\ \A i \in 1 .. Len(first) : all[i] = first[i]
      /\ \A i \in 1 .. Len(c) : all[Len(first) + i] = c[i]
      /\ \A i \in 1 .. Len(blanks) : all[Len(first) + Len(c) + i] = blanks[i]
  <2> HIDE DEF S, first, blanks, c
  <2> QED
    BY <1>2, ConcatOfThree
<1>8. \A i \in 1 .. 6 : padded[i] = IF i - Shift(c) \in 1 .. Len(c) THEN c[i - Shift(c)] ELSE Blank
  BY DEF Padded
<1> HIDE DEF S, first, blanks, all, c, padded
<1>9. ASSUME NEW i \in 1 .. 6 PROVE all[i] = padded[i]
  <2>1. CASE i <= Shift(c)
    <3>1. i = 1 /\ Shift(c) = 1 /\ ~(i - Shift(c) \in 1 .. Len(c))
      BY <1>4, <2>1
    <3>2. all[1] = Blank
      BY <1>3, <1>7, <3>1
    <3> QED
      BY <1>8, <3>1, <3>2
  <2>2. CASE i - Shift(c) \in 1 .. Len(c)
    <3>1. Shift(c) + (i - Shift(c)) = i
      BY <1>4
    <3>2. all[i] = c[i - Shift(c)]
      BY <1>3, <1>7, <2>2, <3>1
    <3> QED
      BY <1>8, <2>2, <3>2
  <2>3. CASE i > Shift(c) + Len(c)
    <3>1. /\ i - (Shift(c) + Len(c)) \in 1 .. 3 /\ ~(i - Shift(c) \in 1 .. Len(c))
          /\ Shift(c) + Len(c) + (i - (Shift(c) + Len(c))) = i
      BY <1>4, <2>3
    <3>2. all[i] = Blank
      BY <1>3, <1>7, <3>1
    <3> QED
      BY <1>8, <3>1, <3>2
  <2> QED
    BY <1>4, <2>1, <2>2, <2>3
<1> QED
  BY <1>6, <1>9 DEF padded, c

(* A callsign is coded in 28 bits, from which it is heard.                 *)
LEMMA CallsignIsHeard ==
  ASSUME NEW m, Standard(m)
  PROVE  /\ Fits(encodecallsign(m.callsign), 28)
         /\ CallsignHeard(encodecallsign(m.callsign)) = m.callsign
<1> DEFINE c == m.callsign
           n == encodecallsign(c)
           padded == Padded(c)
           shift == Shift(c)
           rest == n \div 19683
           six == <<Char1(rest \div 360), Char1((rest \div 10) % 36), Char1(rest % 10),
                    Char2((n \div 729) % 27), Char2((n \div 27) % 27), Char2(n % 27)>>
           used == {i \in 1 .. 6 : six[i] # Blank}
<1>1. /\ shift \in {0, 1} /\ Len(c) \in 3 - shift .. 6 - shift
      /\ \A i \in 1 .. 3 : padded[i] \in Digits \cup Capitals \cup {Blank}
      /\ padded[2] # Blank /\ padded[3] \in Digits
      /\ \A i \in 4 .. 6 : padded[i] \in Capitals \cup {Blank}
  BY PaddedIs
<1>2. c \in Seq(Digits \cup Capitals) /\ \A i \in 1 .. Len(c) : c[i] \in Digits \cup Capitals
  BY ElementOfSeq DEF Standard
<1>3. \A i \in 1 .. 6 : padded[i] = IF i - shift \in 1 .. Len(c) THEN c[i - shift] ELSE Blank
  BY DEF Padded
<1>4. n = Radix(chval1(padded[1]), chval1(padded[2]), chval1(padded[3]),
                chval2(padded[4]), chval2(padded[5]), chval2(padded[6]))
  BY EncodesPadded
<1>5. CallsignHeard(n) = SubSeq(six, Min(used), Max(used))
  BY DEF CallsignHeard
<1> HIDE DEF padded, shift, c, n, six
<1>6. /\ chval1(padded[1]) \in 0 .. 36 /\ chval1(padded[2]) \in 0 .. 35 /\ chval1(padded[3]) \in 0 .. 9
      /\ Char1(chval1(padded[1])) = padded[1] /\ Char1(chval1(padded[2])) = padded[2]
      /\ Char1(chval1(padded[3])) = padded[3]
  <2>1. \A i \in 1 .. 3 : chval1(padded[i]) \in 0 .. 36 /\ Char1(chval1(padded[i])) = padded[i]
    BY <1>1, Char1Is
  <2>2. chval1(padded[2]) \in 0 .. 35
    <3>1. padded[2] \in Digits \cup Capitals \cup {Blank} /\ padded[2] # Blank
      BY <1>1
    <3> QED
      BY <3>1, Char1Is
  <2>3. chval1(padded[3]) \in 0 .. 9
    BY <1>1, Char1Is
  <2> QED
    BY <2>1, <2>2, <2>3
<1>7. /\ chval2(padded[4]) \in 0 .. 26 /\ chval2(padded[5]) \in 0 .. 26 /\ chval2(padded[6]) \in 0 .. 26
      /\ Char2(chval2(padded[4])) = padded[4] /\ Char2(chval2(padded[5])) = padded[5]
      /\ Char2(chval2(padded[6])) = padded[6]
  <2>1. \A i \in 4 .. 6 : chval2(padded[i]) \in 0 .. 26 /\ Char2(chval2(padded[i])) = padded[i]
    BY <1>1, Char2Is
  <2> QED
    BY <2>1
<1>8. /\ Fits(n, 28)
      /\ (n \div 19683) \div 360 = chval1(padded[1])
      /\ ((n \div 19683) \div 10) % 36 = chval1(padded[2])
      /\ (n \div 19683) % 10 = chval1(padded[3])
      /\ (n \div 729) % 27 = chval2(padded[4]) /\ (n \div 27) % 27 = chval2(padded[5])
      /\ n % 27 = chval2(padded[6])
  <2> DEFINE a == chval1(padded[1])
             b == chval1(padded[2])
             c3 == chval1(padded[3])
             d == chval2(padded[4])
             e == chval2(padded[5])
             f == chval2(padded[6])
  <2>1. a \in 0 .. 36 /\ b \in 0 .. 35 /\ c3 \in 0 .. 9
    BY <1>6
  <2>2. d \in 0 .. 26 /\ e \in 0 .. 26 /\ f \in 0 .. 26
    BY <1>7
  <2>3. n = Radix(a, b, c3, d, e, f)
    BY <1>4
  <2> HIDE DEF a, b, c3, d, e, f
  <2>4. Undone(n, a, b, c3, d, e, f)
    BY <2>1, <2>2, <2>3, MixedRadix
  <2> QED
    BY <2>4 DEF a, b, c3, d, e, f, Undone
<1>9. six = <<padded[1], padded[2], padded[3], padded[4], padded[5], padded[6]>>
  BY <1>6, <1>7, <1>8 DEF six
<1>10. \A i \in 1 .. 6 : six[i] = padded[i]
  BY <1>9
<1>11. used = 1 + shift .. Len(c) + shift
  <2>1. Blank \notin Digits \cup Capitals
    BY DEF Blank, Digits, Capitals
  <2>2. ASSUME NEW i \in 1 .. 6 PROVE six[i] # Blank <=> i - shift \in 1 .. Len(c)
    BY <1>2, <1>3, <1>10, <2>1
  <2>3. \A i \in Int : i \in 1 + shift .. Len(c) + shift <=> i \in 1 .. 6 /\ i - shift \in 1 .. Len(c)
    BY <1>1
  <2>4. 1 + shift .. Len(c) + shift \subseteq Int
    OBVIOUS
  <2> QED
    BY <2>2, <2>3, <2>4
<1> HIDE DEF used
<1>12. Min(used) = 1 + shift /\ Max(used) = Len(c) + shift
  BY <1>1, <1>11, EndsOfRange
<1>13. SubSeq(six, 1 + shift, Len(c) + shift) = c
  <2> DEFINE sub == SubSeq(six, 1 + shift, Len(c) + shift)
             S == Digits \cup Capitals
  <2>1. ASSUME NEW i \in 1 + shift .. Len(c) + shift PROVE six[i] \in S /\ six[i] = c[i - shift]
    <3>1. i \in 1 .. 6 /\ i - shift \in 1 .. Len(c)
      BY <1>1
    <3> QED
      BY <1>2, <1>3, <1>10, <3>1
  <2> HIDE DEF S
  <2>2. /\ sub \in Seq(S)
        /\ Len(sub) = IF 1 + shift <= Len(c) + shift THEN (Len(c) + shift) - (1 + shift) + 1 ELSE 0
        /\ \A i \in 1 .. (Len(c) + shift) - (1 + shift) + 1 : sub[i] = six[(1 + shift) + i - 1]
    BY <1>1, <2>1, SubSeqProperties
  <2> HIDE DEF sub
  <2>3. Len(sub) = Len(c)
    BY <1>1, <2>2
  <2>4. ASSUME NEW i \in 1 .. Len(sub) PROVE sub[i] = c[i]
    <3>1. i \in 1 .. (Len(c) + shift) - (1 + shift) + 1 /\ (1 + shift) + i - 1 = i + shift
          /\ i + shift \in 1 + shift .. Len(c) + shift /\ (i + shift) - shift = i
      BY <1>1, <2>3
    <3> QED
      BY <2>1, <2>2, <3>1
  <2>5. c \in Seq(S)
    BY <1>2 DEF S
  <2>6. sub = c
    BY <2>2, <2>3, <2>4, <2>5, SeqEqual
  <2> QED
    BY <2>6 DEF sub
<1> QED
  BY <1>5, <1>8, <1>12, <1>13 DEF n, c

(* North and east, of two digits each, in the number they make.            *)
GridNumber(a, b, c, d) == (179 - 10 * (a - 65) - (c - 48)) * 180 + 10 * (b - 65) + d - 48

(* A grid's number fits into 15 bits, and north and east are in it.        *)
LEMMA GridNumberIs ==
  ASSUME NEW a \in 65 .. 82, NEW b \in 65 .. 82, NEW c \in 48 .. 57, NEW d \in 48 .. 57
  PROVE  /\ Fits(GridNumber(a, b, c, d), 15)
         /\ GridHeard(GridNumber(a, b, c, d)) = <<a, b, c, d>>
<1> DEFINE north == 10 * (a - 65) + (c - 48)
           east == 10 * (b - 65) + (d - 48)
           n == GridNumber(a, b, c, d)
<1>1. north \in 0 .. 179 /\ 65 + (north \div 10) = a /\ 48 + (north % 10) = c
  BY SMT
<1>2. east \in 0 .. 179 /\ 65 + (east \div 10) = b /\ 48 + (east % 10) = d
  BY SMT
<1>3. n = (179 - north) * 180 + east
  BY SMT DEF GridNumber
<1>4. GridHeard(n) = <<65 + (179 - (n \div 180)) \div 10, 65 + (n % 180) \div 10,
                       48 + ((179 - (n \div 180)) % 10), 48 + ((n % 180) % 10)>>
  BY DEF GridHeard
<1> HIDE DEF north, east, n
<1>5. n \in Nat /\ n \div 2^15 = 0 /\ n \div 180 = 179 - north /\ n % 180 = east
  BY <1>1, <1>2, <1>3, SMT
<1>6. 179 - (n \div 180) = north
  BY <1>1, <1>5
<1>7. GridHeard(n) = <<65 + north \div 10, 65 + east \div 10, 48 + (north % 10), 48 + (east % 10)>>
  BY <1>4, <1>5, <1>6
<1>8. GridHeard(n) = <<a, b, c, d>>
  BY <1>1, <1>2, <1>7
<1> QED
  BY <1>5, <1>8 DEF n, Fits

(* A grid is coded in 15 bits, from which it is heard.                     *)
LEMMA GridIsHeard ==
  ASSUME NEW m, Standard(m)
  PROVE  /\ Fits(encodegrid(m.grid), 15)
         /\ GridHeard(encodegrid(m.grid)) = m.grid
<1> DEFINE g == m.grid
           S == Digits \cup (65 .. 82)
<1>1. g \in Seq(S) /\ Len(g) = 4 /\ g[1] \in 65 .. 82 /\ g[2] \in 65 .. 82
      /\ g[3] \in 48 .. 57 /\ g[4] \in 48 .. 57
  <2>1. /\ g \in Seq(S) /\ Len(g) = 4
        /\ \A i \in 1 .. 2 : g[i] \in 65 .. 82 /\ g[i + 2] \in 48 .. 57
    BY DEF Standard, Digits
  <2>2. g[1 + 2] = g[3] /\ g[2 + 2] = g[4]
    OBVIOUS
  <2> QED
    BY <2>1, <2>2
<1>2. encodegrid(g) = GridNumber(g[1], g[2], g[3], g[4])
  BY DEF encodegrid, GridNumber
<1> HIDE DEF g, S
<1>3. g = <<g[1], g[2], g[3], g[4]>>
  <2> DEFINE h == <<g[1], g[2], g[3], g[4]>>
  <2>1. \A i \in 1 .. Len(g) : g[i] \in S
    BY <1>1, ElementOfSeq
  <2>2. h \in Seq(S) /\ Len(h) = 4 /\ \A i \in 1 .. 4 : h[i] = g[i]
    BY <1>1, <2>1
  <2> HIDE DEF h
  <2>3. g = h
    BY <1>1, <2>2, SeqEqual
  <2> QED
    BY <2>3 DEF h
<1>4. /\ Fits(encodegrid(g), 15)
      /\ GridHeard(encodegrid(g)) = <<g[1], g[2], g[3], g[4]>>
  BY <1>1, <1>2, GridNumberIs
<1> QED
  BY <1>3, <1>4 DEF g

(* A power is coded in 7 bits.                                             *)
LEMMA PowerIsHeard ==
  ASSUME NEW m, Standard(m)
  PROVE  /\ Fits(encodepower(m.powerDbm), 7)
         /\ encodepower(m.powerDbm) - 64 = m.powerDbm
<1>1. m.powerDbm \in 0 .. 63
  BY DEF Standard
<1> QED
  BY <1>1 DEF encodepower, Fits

(* A range of bits is as long as it is asked to be.                        *)
LEMMA BitRangeIs ==
  ASSUME NEW n, NEW k \in 1 .. 28, Fits(n, k)
  PROVE  BitRange(n, k) \in Seq({0, 1}) /\ Len(BitRange(n, k)) = k
<1>1. ASSUME NEW i \in 1 .. k PROVE (n \div 2^(k - i)) % 2 \in {0, 1}
  <2>1. k - i \in 0 .. 27
    OBVIOUS
  <2> QED
    BY <2>1, HalfEach DEF Fits
<1> QED
  BY <1>1 DEF BitRange

(* The bits of a message: what the parts are read from.                    *)
LEMMA MessageBitsAre ==
  ASSUME NEW m, Standard(m)
  PROVE  /\ MessageBits(m) \in Seq({0, 1}) /\ Len(MessageBits(m)) = 50
         /\ NumberOf(SubSeq(MessageBits(m), 1, 28)) = encodecallsign(m.callsign)
         /\ NumberOf(SubSeq(MessageBits(m), 29, 43)) = encodegrid(m.grid)
         /\ NumberOf(SubSeq(MessageBits(m), 44, 50)) = encodepower(m.powerDbm)
<1> DEFINE c == BitRange(encodecallsign(m.callsign), 28)
           g == BitRange(encodegrid(m.grid), 15)
           p == BitRange(encodepower(m.powerDbm), 7)
           bits == MessageBits(m)
<1>1. /\ c \in Seq({0, 1}) /\ Len(c) = 28 /\ NumberOf(c) = encodecallsign(m.callsign)
      /\ g \in Seq({0, 1}) /\ Len(g) = 15 /\ NumberOf(g) = encodegrid(m.grid)
      /\ p \in Seq({0, 1}) /\ Len(p) = 7 /\ NumberOf(p) = encodepower(m.powerDbm)
  <2>1. c \in Seq({0, 1}) /\ Len(c) = 28 /\ NumberOf(c) = encodecallsign(m.callsign)
    BY CallsignIsHeard, BitRangeIs, NumberIsBits
  <2>2. g \in Seq({0, 1}) /\ Len(g) = 15 /\ NumberOf(g) = encodegrid(m.grid)
    BY GridIsHeard, BitRangeIs, NumberIsBits
  <2>3. p \in Seq({0, 1}) /\ Len(p) = 7 /\ NumberOf(p) = encodepower(m.powerDbm)
    BY PowerIsHeard, BitRangeIs, NumberIsBits
  <2> QED
    BY <2>1, <2>2, <2>3
<1>2. bits = c \o g \o p
  BY DEF MessageBits
<1> HIDE DEF c, g, p, bits
<1>3. /\ bits \in Seq({0, 1}) /\ Len(bits) = 50
      /\ \A i \in 1 .. 28 : bits[i] = c[i]
      /\ \A i \in 1 .. 15 : bits[28 + i] = g[i]
      /\ \A i \in 1 .. 7 : bits[43 + i] = p[i]
  <2>1. c \in Seq({0, 1}) /\ g \in Seq({0, 1}) /\ p \in Seq({0, 1})
    BY <1>1
  <2>2. /\ bits \in Seq({0, 1}) /\ Len(bits) = Len(c) + Len(g) + Len(p)
        /\ \A i \in 1 .. Len(c) : bits[i] = c[i]
        /\ \A i \in 1 .. Len(g) : bits[Len(c) + i] = g[i]
        /\ \A i \in 1 .. Len(p) : bits[Len(c) + Len(g) + i] = p[i]
    BY <1>2, <2>1, ConcatOfThree
  <2> QED
    BY <1>1, <2>2
<1>4. ASSUME NEW part \in Seq({0, 1}), NEW a \in {0, 28, 43}, a + Len(part) <= 50,
             \A i \in 1 .. Len(part) : bits[a + i] = part[i]
      PROVE  SubSeq(bits, a + 1, a + Len(part)) = part
  <2>1. Len(part) \in Nat
    BY LenProperties
  <2>2. \A i \in a + 1 .. a + Len(part) : i \in 1 .. Len(bits)
    <3>1. Len(bits) = 50
      BY <1>3
    <3>2. a + Len(part) <= 50
      BY <1>4
    <3>3. a \in Nat
      OBVIOUS
    <3> QED
      BY <2>1, <3>1, <3>2, <3>3
  <2>3. \A i \in a + 1 .. a + Len(part) : bits[i] \in {0, 1}
    BY <1>3, <2>2, ElementOfSeq
  <2> DEFINE sub == SubSeq(bits, a + 1, a + Len(part))
  <2>4. /\ sub \in Seq({0, 1})
        /\ Len(sub) = IF a + 1 <= a + Len(part) THEN (a + Len(part)) - (a + 1) + 1 ELSE 0
        /\ \A i \in 1 .. (a + Len(part)) - (a + 1) + 1 : sub[i] = bits[(a + 1) + i - 1]
    BY <2>1, <2>3, SubSeqProperties
  <2> HIDE DEF sub
  <2>5. Len(sub) = Len(part)
    BY <2>1, <2>4
  <2>6. ASSUME NEW i \in 1 .. Len(sub) PROVE sub[i] = part[i]
    <3>1. i \in 1 .. (a + Len(part)) - (a + 1) + 1 /\ (a + 1) + i - 1 = a + i
      BY <2>1, <2>5
    <3> QED
      BY <1>4, <2>4, <2>5, <3>1
  <2>7. sub = part
    BY <2>4, <2>5, <2>6, SeqEqual
  <2> QED
    BY <2>7 DEF sub
<1>5. SubSeq(bits, 1, 28) = c /\ SubSeq(bits, 29, 43) = g /\ SubSeq(bits, 44, 50) = p
  <2>1. SubSeq(bits, 0 + 1, 0 + Len(c)) = c
    BY <1>1, <1>3, <1>4
  <2>2. SubSeq(bits, 28 + 1, 28 + Len(g)) = g
    BY <1>1, <1>3, <1>4
  <2>3. SubSeq(bits, 43 + 1, 43 + Len(p)) = p
    BY <1>1, <1>3, <1>4
  <2> QED
    BY <1>1, <2>1, <2>2, <2>3
<1> QED
  BY <1>1, <1>3, <1>5 DEF bits

(* The other way round and back again is a byte itself.                    *)
LEMMA ReversedTwice ==
  ASSUME NEW j \in 0 .. 255
  PROVE  Reversed(j) \in 0 .. 255 /\ Reversed(Reversed(j)) = j
<1> DEFINE b0 == j % 2
           b1 == (j \div 2) % 2
           b2 == (j \div 4) % 2
           b3 == (j \div 8) % 2
           b4 == (j \div 16) % 2
           b5 == (j \div 32) % 2
           b6 == (j \div 64) % 2
           b7 == (j \div 128) % 2
           rev == 128 * b0 + 64 * b1 + 32 * b2 + 16 * b3 + 8 * b4 + 4 * b5 + 2 * b6 + b7
<1>1. /\ b0 \in 0 .. 1 /\ b1 \in 0 .. 1 /\ b2 \in 0 .. 1 /\ b3 \in 0 .. 1
      /\ b4 \in 0 .. 1 /\ b5 \in 0 .. 1 /\ b6 \in 0 .. 1 /\ b7 \in 0 .. 1
  BY SMT
<1>2. j = 128 * b7 + 64 * b6 + 32 * b5 + 16 * b4 + 8 * b3 + 4 * b2 + 2 * b1 + b0
  BY SMT
<1>3. Reversed(j) = rev
  BY SMT DEF Reversed
<1> HIDE DEF b0, b1, b2, b3, b4, b5, b6, b7
<1>4. /\ rev \in 0 .. 255
      /\ rev % 2 = b7 /\ (rev \div 2) % 2 = b6 /\ (rev \div 4) % 2 = b5 /\ (rev \div 8) % 2 = b4
      /\ (rev \div 16) % 2 = b3 /\ (rev \div 32) % 2 = b2 /\ (rev \div 64) % 2 = b1
      /\ (rev \div 128) % 2 = b0
  BY <1>1, SMT
<1> HIDE DEF rev
<1>5. Reversed(rev) = 128 * b7 + 64 * b6 + 32 * b5 + 16 * b4 + 8 * b3 + 4 * b2 + 2 * b1 + b0
  BY <1>4, SMT DEF Reversed
<1> QED
  BY <1>2, <1>3, <1>4, <1>5

(* A byte below 162, the other way round, is an index that is counted.     *)
Counting == {j \in 0 .. 254 : Reversed(j) < 162}

(* There are as many of them as there are tones.                           *)
LEMMA AsManyCounted == IsFiniteSet(Counting) /\ Cardinality(Counting) = 162
<1> DEFINE f == [i \in 0 .. 161 |-> Reversed(i)]
<1>1. Reversed(255) = 255
  BY SMT DEF Reversed
<1>2. ASSUME NEW i \in 0 .. 161 PROVE f[i] \in Counting /\ Reversed(f[i]) = i
  <2>1. i \in 0 .. 255
    OBVIOUS
  <2>2. Reversed(i) \in 0 .. 255 /\ Reversed(Reversed(i)) = i
    BY <2>1, ReversedTwice
  <2>3. Reversed(i) # 255
    BY <1>1, <2>2
  <2>4. Reversed(i) \in 0 .. 254 /\ Reversed(Reversed(i)) < 162
    BY <2>2, <2>3
  <2> QED
    BY <2>2, <2>4 DEF Counting
<1>3. ASSUME NEW j \in Counting PROVE \E i \in 0 .. 161 : f[i] = j
  <2>1. j \in 0 .. 255 /\ Reversed(j) < 162
    BY DEF Counting
  <2>2. Reversed(j) \in 0 .. 255 /\ Reversed(Reversed(j)) = j
    BY <2>1, ReversedTwice
  <2>3. Reversed(j) \in 0 .. 161
    BY <2>1, <2>2
  <2> QED
    BY <2>2, <2>3
<1> HIDE DEF f
<1>4. f \in [0 .. 161 -> Counting]
  BY <1>2 DEF f
<1>5. ExistsBijection(0 .. 161, Counting)
  <2>1. f \in Injection(0 .. 161, Counting)
    BY <1>2, <1>4 DEF Injection, IsInjective
  <2>2. f \in Surjection(0 .. 161, Counting)
    BY <1>3, <1>4 DEF Surjection
  <2> QED
    BY <2>1, <2>2 DEF ExistsBijection, Bijection
<1>6. IsFiniteSet(0 .. 161) /\ Cardinality(0 .. 161) = 162
  <2>1. \A b \in Nat : IsFiniteSet(0 .. b) /\ Cardinality(0 .. b) = b + 1
    <3>1. ASSUME NEW b \in Nat PROVE IsFiniteSet(0 .. b) /\ Cardinality(0 .. b) = b + 1
      <4>1. 0 \in Int /\ b \in Int /\ ~(0 > b)
        OBVIOUS
      <4>2. IsFiniteSet(0 .. b) /\ Cardinality(0 .. b) = b - 0 + 1
        BY <4>1, FS_Interval
      <4> QED
        BY <4>2
    <3> QED
      BY <3>1
  <2> DEFINE last == 161
  <2>2. last \in Nat /\ last + 1 = 162
    OBVIOUS
  <2> HIDE DEF last
  <2>3. IsFiniteSet(0 .. last) /\ Cardinality(0 .. last) = 162
    BY <2>1, <2>2
  <2> QED
    BY <2>3 DEF last
<1> QED
  BY <1>5, <1>6, FS_Bijection

(* From none to all, the count takes every value.                          *)
LEMMA CountedReaches ==
  ASSUME NEW n \in 1 .. 162
  PROVE  \E j \in Counting : CountedUpTo[j] = n
<1> DEFINE Before(j) == {i \in 0 .. j : Reversed(i) < 162}
           Reached == {j \in 0 .. 254 : \A k \in 1 .. CountedUpTo[j] : \E i \in Counting : CountedUpTo[i] = k}
<1>1. \A j \in 0 .. 254 : IsFiniteSet(Before(j)) /\ CountedUpTo[j] = Cardinality(Before(j))
                          /\ CountedUpTo[j] \in Nat
  <2>1. ASSUME NEW j \in 0 .. 254 PROVE IsFiniteSet(Before(j)) /\ Cardinality(Before(j)) \in Nat
    <3>1. IsFiniteSet(0 .. j) /\ Before(j) \subseteq 0 .. j
      <4>1. 0 \in Int /\ j \in Int
        OBVIOUS
      <4> QED
        BY <4>1, FS_Interval
    <3> QED
      BY <3>1, FS_Subset, FS_CardinalityType
  <2> QED
    BY <2>1 DEF CountedUpTo
<1>2. 0 \in Reached
  <2>1. Reversed(0) = 0
    BY SMT DEF Reversed
  <2>2. 0 \in Counting /\ Before(0) = {0}
    BY <2>1 DEF Counting
  <2>3. CountedUpTo[0] = 1
    <3>1. Cardinality({0}) = 1
      BY FS_Singleton
    <3>2. 0 \in 0 .. 254
      OBVIOUS
    <3> HIDE DEF Before
    <3>3. CountedUpTo[0] = Cardinality(Before(0))
      BY <1>1, <3>2
    <3> QED
      BY <2>2, <3>1, <3>3
  <2> QED
    BY <2>2, <2>3
<1>3. ASSUME NEW j \in 1 .. 254, j - 1 \in Reached PROVE j \in Reached
  <2>1. j - 1 \in 0 .. 254 /\ j \in 0 .. 254
    OBVIOUS
  <2>2. CASE Reversed(j) < 162
    <3>1. Before(j) = Before(j - 1) \cup {j} /\ j \notin Before(j - 1)
      BY <2>2
    <3>2. CountedUpTo[j] = CountedUpTo[j - 1] + 1
      <4> HIDE DEF Before
      <4>1. IsFiniteSet(Before(j - 1)) /\ CountedUpTo[j - 1] = Cardinality(Before(j - 1))
            /\ CountedUpTo[j] = Cardinality(Before(j - 1) \cup {j})
        BY <1>1, <2>1, <3>1
      <4>2. Cardinality(Before(j - 1) \cup {j}) = Cardinality(Before(j - 1)) + 1
        BY <3>1, <4>1, FS_AddElement
      <4> QED
        BY <4>1, <4>2
    <3>3. j \in Counting
      BY <2>2 DEF Counting
    <3>4. ASSUME NEW k \in 1 .. CountedUpTo[j] PROVE \E i \in Counting : CountedUpTo[i] = k
      <4>1. CASE k = CountedUpTo[j]
        BY <3>3, <4>1
      <4>2. CASE k # CountedUpTo[j]
        <5>1. CountedUpTo[j - 1] \in Nat
          BY <1>1, <2>1
        <5>2. k \in 1 .. CountedUpTo[j - 1]
          BY <3>2, <4>2, <5>1
        <5> QED
          BY <1>3, <5>2
      <4> QED
        BY <4>1, <4>2
    <3> QED
      BY <3>4
  <2>3. CASE ~(Reversed(j) < 162)
    <3>1. Before(j) = Before(j - 1)
      BY <2>3
    <3>2. CountedUpTo[j] = CountedUpTo[j - 1]
      <4> HIDE DEF Before
      <4> QED
        BY <1>1, <2>1, <3>1
    <3> QED
      BY <1>3, <3>2
  <2> QED
    BY <2>2, <2>3
<1> HIDE DEF Reached
<1>4. 254 \in Reached
  BY <1>2, <1>3, CountingUp
<1>5. CountedUpTo[254] = 162
  <2>1. Before(254) = Counting
    BY DEF Counting
  <2> HIDE DEF Before
  <2> QED
    BY <1>1, <2>1, AsManyCounted
<1> QED
  BY <1>4, <1>5 DEF Reached

(* GetRdx gives each coded bit a tone of its own.                          *)
LEMMA RdxIsOneToOne ==
  /\ \A n \in 1 .. 162 : GetRdx[n] \in 0 .. 161
  /\ \A n, k \in 1 .. 162 : GetRdx[n] = GetRdx[k] => n = k
<1> DEFINE At(n) == CHOOSE j \in 0 .. 254 : Reversed(j) < 162 /\ CountedUpTo[j] = n
<1>1. ASSUME NEW n \in 1 .. 162
      PROVE  At(n) \in 0 .. 254 /\ Reversed(At(n)) < 162 /\ CountedUpTo[At(n)] = n
  <2>1. \E j \in 0 .. 254 : Reversed(j) < 162 /\ CountedUpTo[j] = n
    BY CountedReaches DEF Counting
  <2> QED
    BY <2>1
<1>2. \A n \in 1 .. 162 : GetRdx[n] = Reversed(At(n))
  BY DEF GetRdx
<1> HIDE DEF At
<1>3. ASSUME NEW n \in 1 .. 162
      PROVE  GetRdx[n] \in 0 .. 161 /\ Reversed(GetRdx[n]) = At(n)
  <2>1. At(n) \in 0 .. 254 /\ Reversed(At(n)) < 162 /\ GetRdx[n] = Reversed(At(n))
    BY <1>1, <1>2
  <2>2. At(n) \in 0 .. 255
    BY <2>1
  <2>3. Reversed(At(n)) \in 0 .. 255 /\ Reversed(Reversed(At(n))) = At(n)
    BY <2>2, ReversedTwice
  <2> QED
    BY <2>1, <2>3
<1> QED
  BY <1>1, <1>3

(* Parities: of a number twice, and of it and the next.                    *)
LEMMA OneBitMore ==
  \A n \in Nat : /\ n % 2 \in {0, 1} /\ ((n % 2) + (n % 2)) % 2 = 0
                /\ (((n + 1) % 2) + (n % 2)) % 2 = 1 /\ (n + 1) % 2 \in {0, 1}
OBVIOUS

(* A tap of place 0 is the latest bit: the parity of the bits before it    *)
(* and the one that is sent are the bit.                                   *)
LEMMA ParityUndone ==
  ASSUME NEW tail \in Seq({0, 1}), NEW i \in 1 .. Len(tail), NEW before \in Seq({0, 1}),
         Len(before) = i - 1, \A j \in 1 .. i - 1 : before[j] = tail[j]
  PROVE  /\ parity(tail, i, Taps[1]) \in {0, 1}
         /\ (parity(tail, i, Taps[1]) + parity(before, i, Taps[1])) % 2 = tail[i]
<1> DEFINE T == Taps[1]
           A == {t \in T : i - t \in DOMAIN tail /\ tail[i - t] = 1}
           B == {t \in T : i - t \in DOMAIN before /\ before[i - t] = 1}
<1>0. Len(tail) \in Nat /\ DOMAIN tail = 1 .. Len(tail) /\ DOMAIN before = 1 .. i - 1
  <2>1. Len(tail) \in Nat /\ DOMAIN tail = 1 .. Len(tail) /\ DOMAIN before = 1 .. Len(before)
    BY LenProperties
  <2> QED
    BY <2>1
<1>1. 0 \in T /\ T \subseteq 0 .. 31
  BY DEF Taps
<1>2. IsFiniteSet(T)
  <2> DEFINE last == 31
  <2>1. 0 \in Int /\ last \in Int
    OBVIOUS
  <2> HIDE DEF last
  <2>2. IsFiniteSet(0 .. last)
    BY <2>1, FS_Interval
  <2>3. T \subseteq 0 .. last
    BY <1>1 DEF last
  <2> HIDE DEF T
  <2> QED
    BY <2>2, <2>3, FS_Subset
<1>3. parity(tail, i, T) = Cardinality(A) % 2 /\ parity(before, i, T) = Cardinality(B) % 2
  BY DEF parity
<1> HIDE DEF T
<1>4. IsFiniteSet(B) /\ Cardinality(B) \in Nat
  <2>1. B \subseteq T
    OBVIOUS
  <2> HIDE DEF B
  <2> QED
    BY <1>2, <2>1, FS_Subset, FS_CardinalityType
<1>5. tail[i] \in {0, 1}
  BY <1>0, ElementOfSeq
<1>6. \A t \in T \ {0} : t \in A <=> t \in B
  <2> SUFFICES ASSUME NEW t \in T, t # 0 PROVE t \in A <=> t \in B
    OBVIOUS
  <2>1. t \in 1 .. 31
    BY <1>1
  <2> DEFINE length == Len(tail)
  <2>2. length \in Nat /\ i \in 1 .. length
    BY <1>0
  <2> HIDE DEF length
  <2>3. i - t \in 1 .. length <=> i - t \in 1 .. i - 1
    BY <2>1, <2>2
  <2>4. i - t \in DOMAIN tail <=> i - t \in DOMAIN before
    BY <1>0, <2>3 DEF length
  <2>5. i - t \in 1 .. i - 1 => before[i - t] = tail[i - t]
    OBVIOUS
  <2> QED
    BY <1>0, <2>4, <2>5
<1>7. 0 \notin B
  BY <1>0
<1>8. CASE tail[i] = 1
  <2>1. 0 \in A
    BY <1>0, <1>1, <1>8
  <2>2. A = B \cup {0}
    BY <1>6, <2>1
  <2> HIDE DEF A, B
  <2>3. Cardinality(A) = Cardinality(B) + 1
    BY <1>4, <1>7, <2>2, FS_AddElement
  <2>4. Cardinality(A) % 2 \in {0, 1} /\ ((Cardinality(A) % 2) + (Cardinality(B) % 2)) % 2 = 1
    BY <1>4, <2>3, OneBitMore
  <2> QED
    BY <1>3, <1>8, <2>4 DEF T
<1>9. CASE tail[i] = 0
  <2>1. 0 \notin A
    BY <1>9
  <2>2. A = B
    BY <1>6, <1>7, <2>1
  <2> HIDE DEF A, B
  <2>3. Cardinality(A) % 2 \in {0, 1} /\ ((Cardinality(A) % 2) + (Cardinality(B) % 2)) % 2 = 0
    BY <1>4, <2>2, OneBitMore
  <2> QED
    BY <1>3, <1>9, <2>3 DEF T
<1> QED
  BY <1>5, <1>8, <1>9

(* What is heard of the tones is the first parity of each of the bits.     *)
CodedAsHeard(bits) ==
  /\ bits \in Seq({0, 1}) /\ Len(bits) = 81
  /\ \A i \in 1 .. 81 :
       ToneHeard(heard[GetRdx[2 * i - 1] + 1]) \div 2 = parity(bits, i, Taps[1])

(* What is heard of the first of each two parities makes the bits, one     *)
(* after the other.                                                        *)
LEMMA BitsAreHeard ==
  ASSUME NEW tail, CodedAsHeard(tail)
  PROVE  BitsHeard = tail
<1> DEFINE last == 81
           coded == [n \in 1 .. 162 |-> ToneHeard(heard[GetRdx[n] + 1]) \div 2]
           Step(f, i) == IF i = 0 THEN <<>> ELSE NextBit(f[i - 1], coded[2 * i - 1])
           Prefix(i) == [j \in 1 .. i |-> tail[j]]
           upTo == [i \in 0 .. last |-> Prefix(i)]
           bits == CHOOSE f : f = [i \in 0 .. last |-> Step(f, i)]
<1>0. BitsHeard = bits[last]
  BY DEF BitsHeard
<1> USE DEF CodedAsHeard
<1>1. \A i \in 1 .. last : coded[2 * i - 1] = parity(tail, i, Taps[1])
  <2> SUFFICES ASSUME NEW i \in 1 .. last PROVE coded[2 * i - 1] = parity(tail, i, Taps[1])
    OBVIOUS
  <2>1. 2 * i - 1 \in 1 .. 162 /\ i \in 1 .. 81
    OBVIOUS
  <2>2. coded[2 * i - 1] = ToneHeard(heard[GetRdx[2 * i - 1] + 1]) \div 2
    BY <2>1
  <2> HIDE DEF coded
  <2> QED
    BY <2>1, <2>2
<1>12. tail \in Seq({0, 1}) /\ Len(tail) = last /\ last \in Nat
  OBVIOUS
<1> HIDE DEF coded, last, CodedAsHeard
<1>2. \A i \in 1 .. last : tail[i] \in {0, 1}
  BY <1>12, ElementOfSeq
<1>3. ASSUME NEW i \in 0 .. last
      PROVE  /\ Prefix(i) \in Seq({0, 1}) /\ Len(Prefix(i)) = i
             /\ \A j \in 1 .. i : Prefix(i)[j] = tail[j]
  <2>1. \A j \in 1 .. i : tail[j] \in {0, 1}
    BY <1>2, <1>12
  <2> QED
    BY <2>1
<1>4. Prefix(0) = <<>>
  <2>1. 0 \in 0 .. last
    BY <1>12
  <2>2. Prefix(0) \in Seq({0, 1}) /\ Len(Prefix(0)) = 0
    BY <1>3, <2>1
  <2> HIDE DEF Prefix
  <2> QED
    BY <2>2, EmptySeq
<1>5. ASSUME NEW i \in 1 .. last
      PROVE  NextBit(Prefix(i - 1), coded[2 * i - 1]) = Prefix(i)
  <2> DEFINE b == Prefix(i - 1)
             next == (coded[2 * i - 1] + parity(b, i, Taps[1])) % 2
  <2>1. i - 1 \in 0 .. last /\ i \in 0 .. last /\ i \in 1 .. Len(tail) /\ i \in Nat
    BY <1>12
  <2>2. b \in Seq({0, 1}) /\ Len(b) = i - 1 /\ \A j \in 1 .. i - 1 : b[j] = tail[j]
    BY <1>3, <2>1
  <2>3. /\ Prefix(i) \in Seq({0, 1}) /\ Len(Prefix(i)) = i
        /\ \A j \in 1 .. i : Prefix(i)[j] = tail[j]
    BY <1>3, <2>1
  <2> HIDE DEF Prefix
  <2> HIDE DEF b
  <2>4. next = tail[i]
    <3>1. (parity(tail, i, Taps[1]) + parity(b, i, Taps[1])) % 2 = tail[i]
      BY <1>12, <2>1, <2>2, ParityUndone
    <3> QED
      BY <1>1, <3>1
  <2> HIDE DEF next
  <2>5. next \in {0, 1}
    BY <1>2, <2>4
  <2>6. NextBit(b, coded[2 * i - 1]) = Append(b, next)
    <3>1. Len(b) + 1 = i
      BY <2>2
    <3> QED
      BY <3>1 DEF NextBit, next
  <2>7. /\ Append(b, next) \in Seq({0, 1}) /\ Len(Append(b, next)) = Len(b) + 1
        /\ \A j \in 1 .. Len(b) : Append(b, next)[j] = b[j]
        /\ Append(b, next)[Len(b) + 1] = next
    BY <2>2, <2>5, AppendProperties
  <2> DEFINE whole == Append(b, next)
  <2> HIDE DEF whole
  <2>8. whole \in Seq({0, 1}) /\ Len(whole) = i /\ \A j \in 1 .. i : whole[j] = Prefix(i)[j]
    <3>1. /\ whole \in Seq({0, 1}) /\ Len(whole) = i
          /\ \A j \in 1 .. i - 1 : whole[j] = b[j]
          /\ whole[i] = tail[i]
      BY <2>2, <2>4, <2>7 DEF whole
    <3> QED
      BY <2>2, <2>3, <3>1
  <2>9. whole = Prefix(i)
    BY <2>3, <2>8, SeqEqual
  <2> QED
    BY <2>6, <2>9 DEF whole, b
<1>6. \A i \in 0 .. last : upTo[i] = Prefix(i)
  OBVIOUS
<1> HIDE DEF Prefix
<1>7. upTo = [i \in 0 .. last |-> Step(upTo, i)]
  <2>1. ASSUME NEW i \in 0 .. last PROVE Prefix(i) = Step(upTo, i)
    <3>1. CASE i = 0
      BY <1>4, <3>1
    <3>2. CASE i # 0
      <4>1. i \in 1 .. last /\ i - 1 \in 0 .. last
        BY <1>12, <3>2
      <4>2. upTo[i - 1] = Prefix(i - 1)
        BY <1>6, <4>1
      <4> HIDE DEF upTo
      <4> QED
        BY <1>5, <3>2, <4>1, <4>2
    <3> QED
      BY <3>1, <3>2
  <2> HIDE DEF Step
  <2> QED
    BY <2>1
<1> HIDE DEF upTo
<1>8. bits = [i \in 0 .. last |-> Step(bits, i)]
  <2> HIDE DEF Step
  <2> QED
    BY <1>7
<1> HIDE DEF bits
<1>9. \A i \in 0 .. last : bits[i] = upTo[i]
  <2> DEFINE Same == {i \in 0 .. last : bits[i] = upTo[i]}
  <2>1. \A i \in 0 .. last : bits[i] = Step(bits, i) /\ upTo[i] = Step(upTo, i)
    <3> HIDE DEF Step
    <3> QED
      BY <1>7, <1>8
  <2>2. 0 \in Same
    BY <1>12, <2>1
  <2>3. \A i \in 1 .. last : i - 1 \in Same => i \in Same
    <3> SUFFICES ASSUME NEW i \in 1 .. last, i - 1 \in Same PROVE i \in Same
      OBVIOUS
    <3>1. i # 0 /\ i \in 0 .. last /\ bits[i - 1] = upTo[i - 1]
      BY <1>12
    <3> QED
      BY <2>1, <3>1
  <2> HIDE DEF Same
  <2>4. \A i \in 0 .. last : i \in Same
    BY <1>12, <2>2, <2>3, CountingUp
  <2> QED
    BY <2>4 DEF Same
<1>10. bits[last] = Prefix(last)
  BY <1>6, <1>9, <1>12
<1>11. Prefix(last) = tail
  <2>1. last \in 0 .. last
    BY <1>12
  <2>2. /\ Prefix(last) \in Seq({0, 1}) /\ Len(Prefix(last)) = last
        /\ \A j \in 1 .. last : Prefix(last)[j] = tail[j]
    BY <1>3, <2>1
  <2> QED
    BY <1>12, <2>2, SeqEqual
<1> QED
  BY <1>0, <1>10, <1>11

(* The pattern is of bits.                                                 *)
LEMMA SyncBitIs == \A i \in 0 .. 161 : SyncBit(i) \in {0, 1}
<1> SUFFICES ASSUME NEW i \in 0 .. 161 PROVE SyncBit(i) \in {0, 1}
  OBVIOUS
<1> DEFINE n == syncBitList_[i \div 8 + 1]
           p == (i % 8) + 1
<1>1. i \div 8 + 1 \in 1 .. 21 /\ p \in 1 .. 8 /\ 8 - p \in 0 .. 27
  OBVIOUS
<1>2. \A k \in 1 .. 21 : syncBitList_[k] \in Nat
  BY DEF syncBitList_
<1>3. n \in Nat
  BY <1>1, <1>2
<1>4. SyncBit(i) = (n \div 2^(8 - p)) % 2
  <2>1. SyncBit(i) = BitRange(n, 8)[p]
    BY DEF SyncBit
  <2> HIDE DEF n, p
  <2>2. BitRange(n, 8) = [k \in 1 .. 8 |-> (n \div 2^(8 - k)) % 2]
    BY DEF BitRange
  <2> QED
    BY <1>1, <2>1, <2>2
<1> HIDE DEF n, p
<1> QED
  BY <1>1, <1>3, <1>4, HalfEach

(* A parity is a bit.                                                      *)
LEMMA ParityIs ==
  ASSUME NEW bits, NEW i, NEW t \in {1, 2}
  PROVE  parity(bits, i, Taps[t]) \in {0, 1}
<1> DEFINE T == Taps[t]
           A == {k \in T : i - k \in DOMAIN bits /\ bits[i - k] = 1}
<1>1. T \subseteq 0 .. 31
  BY DEF Taps
<1> DEFINE last == 31
<1>7. last \in Int /\ 0 \in Int /\ T \subseteq 0 .. last
  BY <1>1
<1> HIDE DEF last
<1>2. parity(bits, i, T) = Cardinality(A) % 2
  BY DEF parity
<1> HIDE DEF T
<1>3. A \subseteq 0 .. last
  BY <1>7
<1> HIDE DEF A
<1>4. IsFiniteSet(0 .. last)
  BY <1>7, FS_Interval
<1>5. Cardinality(A) \in Nat
  BY <1>3, <1>4, FS_Subset, FS_CardinalityType
<1>6. parity(bits, i, T) \in {0, 1}
  BY <1>2, <1>5, OneBitMore
<1> QED
  BY <1>6 DEF T

(* The bits that are coded: those of the message, and zeros after them.    *)
WithTail(bits) == bits \o [i \in 1 .. 31 |-> 0]

(* After the 50 bits of the message there are zeros, 81 bits in all.       *)
LEMMA TonesTail ==
  ASSUME NEW bits \in Seq({0, 1}), Len(bits) = 50
  PROVE  /\ WithTail(bits) \in Seq({0, 1}) /\ Len(WithTail(bits)) = 81
         /\ \A i \in 1 .. 50 : WithTail(bits)[i] = bits[i]
<1> DEFINE zeros == [i \in 1 .. 31 |-> 0]
<1>1. zeros \in Seq({0, 1}) /\ Len(zeros) = 31
  OBVIOUS
<1> HIDE DEF zeros
<1>2. /\ bits \o zeros \in Seq({0, 1}) /\ Len(bits \o zeros) = Len(bits) + Len(zeros)
      /\ \A i \in 1 .. Len(bits) + Len(zeros) :
           (bits \o zeros)[i] = IF i <= Len(bits) THEN bits[i] ELSE zeros[i - Len(bits)]
  BY <1>1, ConcatProperties
<1>3. WithTail(bits) = bits \o zeros
  BY DEF WithTail, zeros
<1>4. \A i \in 1 .. 50 : i <= Len(bits) /\ i \in 1 .. Len(bits) + Len(zeros)
  BY <1>1
<1>5. \A i \in 1 .. 50 : WithTail(bits)[i] = bits[i]
  BY <1>2, <1>3, <1>4
<1>6. Len(WithTail(bits)) = 81
  BY <1>1, <1>2, <1>3
<1> QED
  BY <1>2, <1>3, <1>5, <1>6

(* Each tone has the bit of the pattern in it, and the parity of its       *)
(* place.                                                                  *)
LEMMA TonesAre ==
  ASSUME NEW bits
  PROVE  /\ \A i \in 0 .. 161 : /\ EncodeTones(bits)[i] \in 0 .. 3
                                /\ EncodeTones(bits)[i] % 2 = SyncBit(i)
         /\ \A i \in 1 .. 81 :
              EncodeTones(bits)[GetRdx[2 * i - 1]] \div 2 = parity(WithTail(bits), i, Taps[1])
<1> DEFINE tail == WithTail(bits)
           coded(n) == parity(tail, (n + 1) \div 2, IF n % 2 = 1 THEN Taps[1] ELSE Taps[2])
           At(i) == CHOOSE n \in 1 .. 162 : GetRdx[n] = i
           tone(i) == SyncBit(i) + 2 * coded(At(i))
<1>1. EncodeTones(bits) = [i \in 0 .. 161 |-> tone(i)]
  BY DEF EncodeTones, WithTail
<1>2. \A n : coded(n) \in {0, 1}
  BY ParityIs
<1>3. \A i \in 1 .. 81 : coded(2 * i - 1) = parity(tail, i, Taps[1])
  <2>1. \A i \in 1 .. 81 : ((2 * i - 1) + 1) \div 2 = i /\ (2 * i - 1) % 2 = 1
    OBVIOUS
  <2> QED
    BY <2>1
<1>4. \A n \in 1 .. 162 : At(GetRdx[n]) = n
  BY RdxIsOneToOne
<1> HIDE DEF tail, coded, At
<1>5. ASSUME NEW i \in 0 .. 161
      PROVE  /\ tone(i) \in 0 .. 3 /\ tone(i) % 2 = SyncBit(i)
             /\ tone(i) \div 2 = coded(At(i))
  <2>1. SyncBit(i) \in {0, 1} /\ coded(At(i)) \in {0, 1}
    BY <1>2, SyncBitIs
  <2> DEFINE s == SyncBit(i)
             c == coded(At(i))
  <2> HIDE DEF s, c
  <2>2. \A x, y \in {0, 1} : x + 2 * y \in 0 .. 3 /\ (x + 2 * y) % 2 = x /\ (x + 2 * y) \div 2 = y
    OBVIOUS
  <2> QED
    BY <2>1, <2>2
<1> HIDE DEF tone
<1>6. \A i \in 0 .. 161 : EncodeTones(bits)[i] = tone(i)
  BY <1>1
<1>7. ASSUME NEW i \in 1 .. 81
      PROVE  EncodeTones(bits)[GetRdx[2 * i - 1]] \div 2 = parity(tail, i, Taps[1])
  <2> DEFINE n == 2 * i - 1
  <2>1. n \in 1 .. 162
    OBVIOUS
  <2>2. coded(n) = parity(tail, i, Taps[1])
    BY <1>3
  <2> HIDE DEF n
  <2>3. GetRdx[n] \in 0 .. 161
    BY <2>1, RdxIsOneToOne
  <2>4. EncodeTones(bits)[GetRdx[n]] \div 2 = coded(n)
    BY <1>4, <1>5, <1>6, <2>1, <2>3
  <2> QED
    BY <2>2, <2>4 DEF n
<1> QED
  BY <1>5, <1>6, <1>7 DEF tail

(* A frequency whose hundredths fit into 32 bits is on the air as it is.   *)
InWord(hz) == hz \in Nat /\ 3 <= hz /\ hz <= 42949000

(* The sum in 32 bits does not wrap then: q words of it are none.          *)
LEMMA HundredthsFit ==
  ASSUME NEW hz, InWord(hz), NEW tone \in 0 .. 3
  PROVE  Hundredths(hz, tone) = <<hz + (146 * (tone - 2)) \div 100, (146 * (tone - 2)) % 100>>
<1> DEFINE rest == 146 * (tone - 2)
           whole == hz + rest \div 100
           Words(q) == q * WordHz + (q * WordRest) \div 100
           q == CHOOSE n \in 0 .. 30 : Words(n) <= whole /\ whole < Words(n + 1)
           over == (rest % 100) - ((q * WordRest) % 100)
<1>1. /\ rest \div 100 \in -3 .. 1 /\ rest % 100 \in 0 .. 99 /\ rest \in Int
      /\ whole \in Nat /\ whole <= 42949001
  BY SMT DEF InWord
<1>2. Hundredths(hz, tone) =
        IF over < 0 THEN <<whole - Words(q) - 1, over + 100>> ELSE <<whole - Words(q), over>>
  BY DEF Hundredths
<1> HIDE DEF rest, whole
<1>3. Words(0) = 0 /\ Words(0 + 1) = 42949672
  BY SMT DEF WordHz, WordRest
<1>4. \A n \in 1 .. 30 : Words(n) \in Nat /\ Words(n) > whole
  BY <1>1, SMT DEF WordHz, WordRest
<1> HIDE DEF Words
<1>5. q = 0
  <2>1. Words(0) <= whole /\ whole < Words(0 + 1)
    BY <1>1, <1>3, SMT
  <2>2. \A n \in 0 .. 30 : Words(n) <= whole /\ whole < Words(n + 1) => n = 0
    BY <1>1, <1>4, SMT
  <2> QED
    BY <2>1, <2>2, SMT
<1> HIDE DEF q
<1>6. over = rest % 100
  <2>1. (q * WordRest) % 100 = 0
    BY <1>5, SMT DEF WordRest
  <2>2. rest % 100 \in Nat
    BY <1>1, SMT
  <2> QED
    BY <2>1, <2>2, SMT
<1> HIDE DEF over
<1>7. Hundredths(hz, tone) = <<whole, rest % 100>>
  BY <1>1, <1>2, <1>3, <1>5, <1>6, SMT
<1> QED
  BY <1>7, SMT DEF whole, rest

(* A tone on the air is told from the other three.                         *)
LEMMA ToneIsHeard ==
  ASSUME NEW tone \in 0 .. 3
  PROVE  ToneHeard(OnAir(tone)) = tone
<1>1. \A x, y \in 0 .. 3 : (146 * (x - 2)) % 100 = (146 * (y - 2)) % 100 => x = y
  BY SMT
<1>2. \A x \in 0 .. 3 : OnAir(tone) = OnAir(x) => x = tone
  BY <1>1 DEF OnAir
<1> HIDE DEF OnAir
<1>3. (CHOOSE x \in 0 .. 3 : OnAir(tone) = OnAir(x)) = tone
  BY <1>2
<1> QED
  BY <1>3 DEF ToneHeard

(* A channel has its place, and its frequency is in the band.              *)
LEMMA ChannelFreq ==
  ASSUME NEW band, NEW channel
  PROVE  /\ GetDialFreqFromBandStr(band) \in Nat /\ GetDialFreqFromBandStr(band) >= 136000
         /\ GetChannelDetails(band, channel).freq - GetDialFreqFromBandStr(band) \in 1420 .. 1580
         /\ GetChannelDetails(band, channel).freq \in Nat
<1> DEFINE dial == GetDialFreqFromBandStr(band)
           c == IF channel \in 0 .. 599 THEN channel ELSE 0
           All == (1 .. 4) \X (0 .. 4) \X (1 .. 3) \X (0 .. 9)
           Is(p) == ChannelOf(p[1], p[2], p[3], p[4]) = c
           place == CHOOSE p \in All : Is(p)
<1>1. dial \in Nat /\ dial >= 136000
  <2> DEFINE valid == IF \E i \in DOMAIN bandDataList_ : bandDataList_[i].band = band
                      THEN band ELSE "20m"
             first == CHOOSE i \in DOMAIN bandDataList_ : bandDataList_[i].band = valid
  <2>1. DOMAIN bandDataList_ = 1 .. 17 /\ bandDataList_[8].band = "20m"
    BY DEF bandDataList_
  <2>2. \A i \in 1 .. 17 : bandDataList_[i].freq \in Nat /\ bandDataList_[i].freq >= 136000
    BY SMT DEF bandDataList_
  <2>3. \E i \in DOMAIN bandDataList_ : bandDataList_[i].band = valid
    BY <2>1
  <2>4. dial = bandDataList_[first].freq
    BY DEF GetDialFreqFromBandStr
  <2> HIDE DEF valid, dial
  <2>5. first \in 1 .. 17
    BY <2>1, <2>3
  <2> HIDE DEF first
  <2> QED
    BY <2>2, <2>4, <2>5
<1>2. c \in 0 .. 599
  OBVIOUS
<1>3. GetChannelDetails(band, channel).freq = dial + 1500 - 100 + (freqBandList[place[1]] - 1) * 40 + 20
  BY DEF GetChannelDetails
<1> HIDE DEF dial, c
<1>4. \E p \in All : Is(p)
  <2> DEFINE a == ((c % 20) \div 5) + 1
             b == c % 5
             d == (c \div 200) + 1
             e == (c % 200) \div 20
  <2>1. a \in 1 .. 4 /\ b \in 0 .. 4 /\ d \in 1 .. 3 /\ e \in 0 .. 9
    BY <1>2, SMT
  <2>2. 200 * (d - 1) + 20 * e + 5 * (a - 1) + b = c
    BY <1>2, SMT
  <2> HIDE DEF a, b, d, e
  <2>3. <<a, b, d, e>> \in All /\ Is(<<a, b, d, e>>)
    BY <2>1, <2>2 DEF ChannelOf
  <2> QED
    BY <2>3
<1> HIDE DEF Is
<1>5. place \in All
  BY <1>4
<1> HIDE DEF place
<1>6. freqBandList[place[1]] \in 1 .. 5
  BY <1>5 DEF freqBandList
<1> QED
  BY <1>1, <1>3, <1>6, SMT DEF dial

(* Sequences that agree up to k agree in each part before it.              *)
LEMMA SameParts ==
  ASSUME NEW S, NEW s \in Seq(S), NEW t \in Seq(S), NEW k \in Nat, k <= Len(s), k <= Len(t),
         \A i \in 1 .. k : s[i] = t[i], NEW a \in 1 .. k, NEW b \in a .. k
  PROVE  SubSeq(s, a, b) = SubSeq(t, a, b)
<1> DEFINE p == SubSeq(s, a, b)
           q == SubSeq(t, a, b)
<1>1. a \in Int /\ b \in Int /\ a <= b
  OBVIOUS
<1>2. ASSUME NEW i \in a .. b PROVE s[i] = t[i] /\ s[i] \in S /\ t[i] \in S
  <2>1. i \in 1 .. k /\ i \in 1 .. Len(s) /\ i \in 1 .. Len(t)
    <3>1. Len(s) \in Nat /\ Len(t) \in Nat
      BY LenProperties
    <3> QED
      BY <3>1
  <2>2. s[i] \in S /\ t[i] \in S
    BY <2>1, ElementOfSeq
  <2> QED
    BY <2>1, <2>2
<1>3. /\ p \in Seq(S) /\ Len(p) = IF a <= b THEN b - a + 1 ELSE 0
      /\ \A i \in 1 .. b - a + 1 : p[i] = s[a + i - 1]
  BY <1>1, <1>2, SubSeqProperties
<1>4. /\ q \in Seq(S) /\ Len(q) = IF a <= b THEN b - a + 1 ELSE 0
      /\ \A i \in 1 .. b - a + 1 : q[i] = t[a + i - 1]
  BY <1>1, <1>2, SubSeqProperties
<1> HIDE DEF p, q
<1>5. ASSUME NEW i \in 1 .. Len(p) PROVE p[i] = q[i]
  <2>1. i \in 1 .. b - a + 1 /\ a + i - 1 \in a .. b
    BY <1>1, <1>3
  <2> QED
    BY <1>2, <1>3, <1>4, <2>1
<1>6. p = q
  BY <1>3, <1>4, <1>5, SeqEqual
<1> QED
  BY <1>6 DEF p, q

(* The bits of a message that are heard are the message.                   *)
LEMMA MessageIsHeard ==
  ASSUME NEW m, Standard(m), CodedAsHeard(WithTail(MessageBits(m)))
  PROVE  Decode = m
<1> DEFINE bits == MessageBits(m)
           tail == WithTail(bits)
<1>1. BitsHeard = tail
  BY BitsAreHeard
<1>2. /\ bits \in Seq({0, 1}) /\ Len(bits) = 50
      /\ NumberOf(SubSeq(bits, 1, 28)) = encodecallsign(m.callsign)
      /\ NumberOf(SubSeq(bits, 29, 43)) = encodegrid(m.grid)
      /\ NumberOf(SubSeq(bits, 44, 50)) = encodepower(m.powerDbm)
  BY MessageBitsAre
<1> HIDE DEF bits
<1>3. tail \in Seq({0, 1}) /\ Len(tail) = 81 /\ \A i \in 1 .. 50 : tail[i] = bits[i]
  BY <1>2, TonesTail
<1> HIDE DEF tail
<1>4. \A a \in 1 .. 50 : \A b \in a .. 50 : SubSeq(tail, a, b) = SubSeq(bits, a, b)
  <2> DEFINE k == 50
  <2>1. k \in Nat /\ k <= Len(tail) /\ k <= Len(bits) /\ \A i \in 1 .. k : tail[i] = bits[i]
    BY <1>2, <1>3
  <2> HIDE DEF k
  <2>2. \A a \in 1 .. k : \A b \in a .. k : SubSeq(tail, a, b) = SubSeq(bits, a, b)
    BY <1>2, <1>3, <2>1, SameParts
  <2> QED
    BY <2>2 DEF k
<1>5. /\ NumberOf(SubSeq(tail, 1, 28)) = encodecallsign(m.callsign)
      /\ NumberOf(SubSeq(tail, 29, 43)) = encodegrid(m.grid)
      /\ NumberOf(SubSeq(tail, 44, 50)) = encodepower(m.powerDbm)
  <2>1. /\ SubSeq(tail, 1, 28) = SubSeq(bits, 1, 28)
        /\ SubSeq(tail, 29, 43) = SubSeq(bits, 29, 43)
        /\ SubSeq(tail, 44, 50) = SubSeq(bits, 44, 50)
    <3>1. /\ 1 \in 1 .. 50 /\ 28 \in 1 .. 50 /\ 29 \in 1 .. 50 /\ 43 \in 29 .. 50
          /\ 44 \in 1 .. 50 /\ 50 \in 44 .. 50
      OBVIOUS
    <3> HIDE DEF tail
    <3> QED
      BY <1>4, <3>1
  <2> QED
    BY <1>2, <2>1
<1>6. /\ CallsignHeard(NumberOf(SubSeq(BitsHeard, 1, 28))) = m.callsign
      /\ GridHeard(NumberOf(SubSeq(BitsHeard, 29, 43))) = m.grid
      /\ NumberOf(SubSeq(BitsHeard, 44, 50)) - 64 = m.powerDbm
  BY <1>1, <1>5, CallsignIsHeard, GridIsHeard, PowerIsHeard
<1>7. Decode = [callsign |-> m.callsign, grid |-> m.grid, powerDbm |-> m.powerDbm]
  BY <1>6 DEF Decode
<1>8. m = [callsign |-> m.callsign, grid |-> m.grid, powerDbm |-> m.powerDbm]
  <2>1. m \in [callsign : Seq(Digits \cup Capitals), grid : Seq(Digits \cup (65 .. 82)),
               powerDbm : 0 .. 63]
    BY DEF Standard
  <2> QED
    BY <2>1
<1> QED
  BY <1>7, <1>8

-----------------------------------------------------------------------------
(* Bands whose frequencies, in hundredths, fit into 32 bits.               *)
BandsInWord == \A band \in Bands : GetDialFreqFromBandStr(band) < 42900000

(* What was heard are the tones of the message, on the one frequency, up   *)
(* to now.                                                                 *)
WsprInv ==
  /\ InWord(frequency_)
  /\ message = NoMessage => heard = <<>>
  /\ Sending => message \in Messages /\ tones = EncodeType1(message)
  /\ heard \in Seq({Hundredths(frequency_, tone) : tone \in 0 .. 3}) /\ Len(heard) <= 162
  /\ \A i \in 1 .. Len(heard) : heard[i] = Hundredths(frequency_, tones[i - 1])

(* A transmitter that was not used has sent nothing.                       *)
LEMMA WsprInvInit == WsprInit => WsprInv
<1> SUFFICES ASSUME WsprInit PROVE WsprInv
  OBVIOUS
<1>1. InWord(frequency_)
  BY SMT DEF WsprInit, InWord
<1>2. message = NoMessage /\ heard = <<>>
  BY DEF WsprInit
<1> QED
  BY <1>1, <1>2 DEF WsprInv, Sending

(* Every step keeps the invariant: a channel of the bands is in the word,  *)
(* and a symbol is the tone whose turn it is.                              *)
LEMMA WsprInvNext == BandsInWord /\ WsprInv /\ [WsprNext]_wsprVars => WsprInv'
<1> SUFFICES ASSUME BandsInWord, WsprInv, [WsprNext]_wsprVars PROVE WsprInv'
  OBVIOUS
<1>6. UNCHANGED frequency_ => InWord(frequency_)'
  BY SMT DEF WsprInv, InWord
<1>1. ASSUME NEW band \in Bands, NEW channel \in Channels, SetFrequency(band, channel)
      PROVE  WsprInv'
  <2>1. InWord(frequency_)'
    <3>1. GetDialFreqFromBandStr(band) < 42900000
      BY DEF BandsInWord
    <3>2. /\ GetDialFreqFromBandStr(band) \in Nat /\ GetDialFreqFromBandStr(band) >= 136000
          /\ GetChannelDetails(band, channel).freq - GetDialFreqFromBandStr(band) \in 1420 .. 1580
          /\ GetChannelDetails(band, channel).freq \in Nat
      BY ChannelFreq
    <3>3. frequency_' = GetChannelDetails(band, channel).freq
      BY <1>1 DEF SetFrequency
    <3> QED
      BY <3>1, <3>2, <3>3, SMT DEF InWord
  <2>2. message' = NoMessage /\ heard' = <<>>
    BY <1>1 DEF SetFrequency, WsprInv
  <2> QED
    BY <2>1, <2>2 DEF WsprInv, Sending
<1>2. ASSUME NEW m \in Messages, SendMessage(m) PROVE WsprInv'
  <2>1. /\ message' = m /\ tones' = EncodeType1(m) /\ heard' = <<>>
        /\ frequency_' = frequency_
    BY <1>2 DEF SendMessage
  <2> QED
    BY <1>6, <2>1 DEF WsprInv, Sending
<1>3. ASSUME SendSymbol PROVE WsprInv'
  <2> DEFINE n == Len(heard)
             f == Hundredths(frequency_, tones[n])
             Heard == {Hundredths(frequency_, tone) : tone \in 0 .. 3}
  <2>1. /\ Sending /\ n < 162 /\ heard' = Append(heard, f)
        /\ UNCHANGED <<frequency_, message, tones>>
    BY <1>3 DEF SendSymbol
  <2>2. heard \in Seq(Heard) /\ n \in 0 .. 161
    <3>1. heard \in Seq(Heard)
      BY DEF WsprInv
    <3>2. n \in Nat
      BY <3>1, LenProperties
    <3>3. n < 162
      BY <2>1
    <3> HIDE DEF n
    <3>4. n \in 0 .. 161
      BY <3>2, <3>3
    <3> QED
      BY <3>1, <3>4
  <2>3. f \in Heard
    <3>1. tones = EncodeTones(MessageBits(message))
      BY <2>1 DEF WsprInv, EncodeType1
    <3>2. tones[n] \in 0 .. 3
      BY <2>2, <3>1, TonesAre
    <3> QED
      BY <3>2
  <2>4. \A i \in 1 .. n : heard[i] = Hundredths(frequency_, tones[i - 1])
    BY DEF WsprInv
  <2> DEFINE longer == Append(heard, f)
  <2> HIDE DEF Heard, f
  <2>5. /\ longer \in Seq(Heard) /\ Len(longer) = n + 1 /\ longer[n + 1] = f
        /\ \A i \in 1 .. n : longer[i] = heard[i]
    BY <2>2, <2>3, AppendProperties
  <2> HIDE DEF longer, n
  <2>6. \A i \in 1 .. Len(longer) : longer[i] = Hundredths(frequency_, tones[i - 1])
    <3> SUFFICES ASSUME NEW i \in 1 .. n + 1
                 PROVE  longer[i] = Hundredths(frequency_, tones[i - 1])
      BY <2>5
    <3>1. CASE i = n + 1
      <4>1. i - 1 = n
        BY <2>2, <3>1
      <4> QED
        BY <2>5, <3>1, <4>1 DEF f
    <3>2. CASE i # n + 1
      <4>1. i \in 1 .. n
        BY <2>2, <3>2
      <4> QED
        BY <2>4, <2>5, <4>1
    <3> QED
      BY <3>1, <3>2
  <2>7. Len(longer) <= 162
    <3>1. Len(longer) = n + 1
      BY <2>5
    <3>2. n \in 0 .. 161
      BY <2>2
    <3> QED
      BY <3>1, <3>2
  <2>9. heard' = longer /\ message # NoMessage
    BY <2>1 DEF longer, Sending
  <2>10. (heard \in Seq({Hundredths(frequency_, tone) : tone \in 0 .. 3}))'
    BY <2>1, <2>5, <2>9 DEF Heard
  <2>11. (\A i \in 1 .. Len(heard) : heard[i] = Hundredths(frequency_, tones[i - 1]))'
    BY <2>1, <2>6, <2>9
  <2>12. (Sending => message \in Messages /\ tones = EncodeType1(message))'
    BY <2>1 DEF WsprInv, Sending
  <2>13. InWord(frequency_)'
    BY <1>6, <2>1
  <2> QED
    BY <2>1, <2>7, <2>9, <2>10, <2>11, <2>12, <2>13 DEF WsprInv
<1>4. CASE SendReturns
  <2>1. /\ message' = NoMessage /\ heard' = <<>>
        /\ frequency_' = frequency_
    BY <1>4 DEF SendReturns
  <2> QED
    BY <1>6, <2>1 DEF WsprInv, Sending
<1>5. CASE UNCHANGED wsprVars
  BY <1>5, <1>6 DEF wsprVars, WsprInv, Sending
<1> QED
  BY <1>1, <1>2, <1>3, <1>4, <1>5 DEF WsprNext

(* A message that was sent to its end is what is heard.                    *)
LEMMA HeardFromInv == WsprInv => HeardAsSent
<1> SUFFICES ASSUME WsprInv PROVE HeardAsSent
  OBVIOUS
<1>2. ASSUME Len(heard) = 162
      PROVE  /\ Decode = message
             /\ \A i \in 1 .. 162 : ToneHeard(heard[i]) % 2 = SyncBit(i - 1)
  <2> DEFINE bits == MessageBits(message)
  <2>1. message \in Messages /\ tones = EncodeTones(bits)
    <3>1. message # NoMessage
      <4>1. message = NoMessage => heard = <<>>
        BY DEF WsprInv
      <4>2. heard # <<>>
        BY <1>2
      <4> QED
        BY <4>1, <4>2
    <3> QED
      BY <3>1 DEF WsprInv, Sending, EncodeType1
  <2>2. Standard(message)
    BY <2>1, MessagesAssumption
  <2> HIDE DEF bits
  <2>3. ASSUME NEW i \in 0 .. 161
        PROVE  ToneHeard(heard[i + 1]) = tones[i] /\ tones[i] % 2 = SyncBit(i)
    <3>1. tones[i] \in 0 .. 3 /\ tones[i] % 2 = SyncBit(i)
      BY <2>1, TonesAre
    <3>2. heard[i + 1] = Hundredths(frequency_, tones[i])
      <4>1. i + 1 \in 1 .. Len(heard) /\ (i + 1) - 1 = i
        BY <1>2
      <4> QED
        BY <4>1 DEF WsprInv
    <3>3. Hundredths(frequency_, tones[i]) = OnAir(tones[i])
      BY <3>1, HundredthsFit DEF WsprInv, OnAir
    <3> QED
      BY <3>1, <3>2, <3>3, ToneIsHeard
  <2>4. ASSUME NEW i \in 1 .. 162 PROVE ToneHeard(heard[i]) % 2 = SyncBit(i - 1)
    <3>1. i - 1 \in 0 .. 161 /\ (i - 1) + 1 = i
      OBVIOUS
    <3> QED
      BY <2>3, <3>1
  <2>5. CodedAsHeard(WithTail(bits))
    <3>1. WithTail(bits) \in Seq({0, 1}) /\ Len(WithTail(bits)) = 81
      <4>1. bits \in Seq({0, 1}) /\ Len(bits) = 50
        BY <2>2, MessageBitsAre DEF bits
      <4> QED
        BY <4>1, TonesTail
    <3>2. ASSUME NEW i \in 1 .. 81
          PROVE  ToneHeard(heard[GetRdx[2 * i - 1] + 1]) \div 2 = parity(WithTail(bits), i, Taps[1])
      <4> DEFINE n == 2 * i - 1
      <4>1. n \in 1 .. 162
        OBVIOUS
      <4>2. tones[GetRdx[n]] \div 2 = parity(WithTail(bits), i, Taps[1])
        BY <2>1, TonesAre
      <4> HIDE DEF n
      <4>3. GetRdx[n] \in 0 .. 161
        BY <4>1, RdxIsOneToOne
      <4>4. ToneHeard(heard[GetRdx[n] + 1]) = tones[GetRdx[n]]
        BY <2>3, <4>3
      <4>5. ToneHeard(heard[GetRdx[n] + 1]) \div 2 = parity(WithTail(bits), i, Taps[1])
        BY <4>2, <4>4
      <4> QED
        BY <4>5 DEF n
    <3> QED
      BY <3>1, <3>2 DEF CodedAsHeard
  <2>6. Decode = message
    BY <2>2, <2>5, MessageIsHeard DEF bits
  <2> QED
    BY <2>4, <2>6
<1> QED
  BY <1>2 DEF HeardAsSent

(* Whatever is sent: what was on the air are the tones of the message, in  *)
(* their turn.                                                             *)
THEOREM WsprInvariant == ASSUME BandsInWord PROVE WsprSpec => []WsprInv
<1>1. WsprInit => WsprInv
  BY WsprInvInit
<1>2. WsprInv /\ [WsprNext]_wsprVars => WsprInv'
  BY WsprInvNext
<1> QED
  BY <1>1, <1>2, PTL DEF WsprSpec

(* Every message of a standard callsign, in every band up to 10 m, is      *)
(* decoded by a receiver as it was sent, once the last symbol was sent.    *)
THEOREM MessagesAreHeard == ASSUME BandsInWord PROVE WsprSpec => []HeardAsSent
<1>1. WsprSpec => []WsprInv
  BY WsprInvariant
<1>2. WsprInv => HeardAsSent
  BY HeardFromInv
<1> QED
  BY <1>1, <1>2, PTL
=============================================================================
