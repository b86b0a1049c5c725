-------------------------------- MODULE Work --------------------------------
(***************************************************************************)
(* The work thread (src/src/App/Service/Work.cpp): jobs that Work::Queue() *)
(* puts into a list with interrupts locked, and that a thread of the       *)
(* lowest priority takes out and runs, one for each time it takes the      *)
(* semaphore.  The nodes of the list come from a pool, HeapAllocators.     *)
(*                                                                         *)
(* A job is known by the label it was queued with, which names who queued  *)
(* it: an interrupt handler or thread that preempts the work thread        *)
(* anywhere, or a job that runs in it (Timeline::Report).                  *)
(***************************************************************************)
EXTENDS Integers, Sequences, SequencesExt, FiniteSets

CONSTANTS
  Callers,      \* who queues jobs while the work thread may be anywhere
  ThreadLabel,  \* the label of what a job queues itself
  COUNT_LIMIT,  \* the limit of the semaphore, and the size of the pool
  NoJob         \* no job

ASSUME WorkAssumption ==
  /\ COUNT_LIMIT \in Nat \ {0}
  /\ ThreadLabel \notin Callers
  /\ NoJob \notin Callers \cup {ThreadLabel}

VARIABLES
  workList,      \* the nodes of workList_, each with its label and its slot
  memUsageList,  \* the pool's slots in use
  sem,           \* the count of sem_
  at,            \* where ThreadFnWork is
  wd,            \* its local copy of the job
  fatal          \* PAL.Fatal() was called: the board is on its way to a reset

workVars == <<workList, memUsageList, sem, at, wd, fatal>>

Pool == INSTANCE HeapAllocators WITH POOL_SIZE <- COUNT_LIMIT, Sizes <- {1}

Labels == Callers \cup {ThreadLabel}
Node == [label : Labels, slot : Pool!Slots]

WorkInit ==
  /\ Pool!Init
  /\ workList = <<>>
  /\ sem = 0
  /\ at = "take"
  /\ wd = NoJob
  /\ fatal = FALSE

(* xSemaphoreGive: at the limit it fails, and nobody looks at the result.  *)
Give(count) == IF count < COUNT_LIMIT THEN count + 1 ELSE count

(* With interrupts locked: one step.  Without a slot left the allocator's  *)
(* Validate() ends in PAL.Fatal(), which does not return.                  *)
Queue(label) ==
  /\ ~fatal
  /\ IF Pool!Place(1) = Pool!nullptr
     THEN /\ fatal' = TRUE
          /\ UNCHANGED <<workList, memUsageList, sem>>
     ELSE /\ Pool!Allocate(1)
          /\ workList' = Append(workList, [label |-> label, slot |-> Pool!Place(1)])
          /\ sem' = Give(sem)
          /\ UNCHANGED fatal
  /\ UNCHANGED <<at, wd>>

-----------------------------------------------------------------------------
(* ThreadFnWork.                                                           *)

Take ==
  /\ ~fatal
  /\ at = "take"
  /\ sem > 0
  /\ sem' = sem - 1
  /\ at' = "extract"
  /\ UNCHANGED <<workList, memUsageList, wd, fatal>>

(* Mutant: the node is not given back to the pool.                         *)
ExtractLeaks ==
  /\ ~fatal
  /\ at = "extract"
  /\ wd' = Head(workList).label
  /\ workList' = Tail(workList)
  /\ at' = "run"
  /\ UNCHANGED <<memUsageList, sem, fatal>>

(* front() and pop_front(), with interrupts locked.                        *)
Extract ==
  /\ ~fatal
  /\ at = "extract"
  /\ wd' = Head(workList).label
  /\ workList' = Tail(workList)
  /\ Pool!Deallocate(Head(workList).slot)
  /\ at' = "run"
  /\ UNCHANGED <<sem, fatal>>

JobQueues ==
  /\ at = "run"
  /\ Queue(ThreadLabel)

(* The local copy of the job goes with the turn of the loop.               *)
JobReturns ==
  /\ ~fatal
  /\ at = "run"
  /\ at' = "take"
  /\ wd' = NoJob
  /\ UNCHANGED <<workList, memUsageList, sem, fatal>>

WorkNext ==
  \/ \E label \in Callers : Queue(label)
  \/ Take
  \/ Extract
  \/ JobQueues
  \/ JobReturns

WorkSpec == WorkInit /\ [][WorkNext]_workVars

(* Jobs come to an end, and whoever preempts the work thread lets it run   *)
(* again.                                                                  *)
WorkFairness == WF_workVars(Take) /\ WF_workVars(Extract) /\ WF_workVars(JobReturns)

-----------------------------------------------------------------------------
(* Types of the state.                                                     *)
WorkTypeOK ==
  /\ workList \in Seq(Node) /\ Len(workList) <= COUNT_LIMIT
  /\ memUsageList \in [Pool!Slots -> {0, 1}]
  /\ sem \in 0 .. COUNT_LIMIT
  /\ at \in {"take", "extract", "run"}
  /\ wd \in Labels \cup {NoJob} /\ (wd # NoJob <=> at = "run")
  /\ fatal \in BOOLEAN

(* Every job that is queued runs, unless the board resets first; it does   *)
(* only when COUNT_LIMIT jobs wait.                                        *)
JobsRun ==
  \A l \in Labels :
    (\E i \in DOMAIN workList : workList[i].label = l) ~>
      (wd = l \/ (fatal /\ Len(workList) = COUNT_LIMIT))
=============================================================================
