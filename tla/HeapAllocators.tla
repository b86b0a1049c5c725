--------------------------- MODULE HeapAllocators ---------------------------
(***************************************************************************)
(* IsrPoolHeapAllocator (src/src/App/Kernel/HeapAllocators.h): a pool of   *)
(* POOL_SIZE slots, given out in blocks of n adjacent ones.  Of the slots  *)
(* of a block, only the first is marked, with the size of the block.       *)
(***************************************************************************)
EXTENDS Integers, FiniteSetsExt

CONSTANTS
  POOL_SIZE,  \* the number of slots, one at least
  Sizes       \* the sizes of block that are asked for, one slot at least

VARIABLE memUsageList  \* n_ of a slot whose addr_ is set, and 0 of any other

Slots == 0 .. POOL_SIZE - 1
nullptr == -1

Init == memUsageList = [i \in Slots |-> 0]

(* The slot that allocate(n) finds.  The scan passes over a marked slot by *)
(* the size of its block.  Over an unmarked one that lacks room it passes  *)
(* by the size of the block in the way, from that unmarked slot and not    *)
(* from where the block begins.                                            *)
Place(n) ==
  LET scan[i \in Nat] ==
        IF i >= POOL_SIZE THEN nullptr
        ELSE IF memUsageList[i] # 0 THEN scan[i + memUsageList[i]]
        ELSE IF i + n > POOL_SIZE THEN nullptr
        ELSE LET inTheWay == {j \in i + 1 .. i + n - 1 : memUsageList[j] # 0}
             IN  IF inTheWay = {} THEN i ELSE scan[i + memUsageList[Min(inTheWay)]]
  IN  scan[0]

(* When there is no place, allocate() calls PAL.Fatal: see Work.           *)
Allocate(n) ==
  /\ Place(n) # nullptr
  /\ memUsageList' = [memUsageList EXCEPT ![Place(n)] = n]

Deallocate(p) ==
  /\ memUsageList[p] # 0
  /\ memUsageList' = [memUsageList EXCEPT ![p] = 0]

Next ==
  \/ \E n \in Sizes : Allocate(n)
  \/ \E p \in Slots : Deallocate(p)

Spec == Init /\ [][Next]_memUsageList

-----------------------------------------------------------------------------
(* "the following n-1 are not allocated explicity as they are supposed to  *)
(* be blank" (Validate): no block begins inside another or sticks out of   *)
(* the pool.                                                               *)
BlocksApart ==
  \A i \in Slots :
    memUsageList[i] # 0 =>
      /\ i + memUsageList[i] <= POOL_SIZE
      /\ \A j \in i + 1 .. i + memUsageList[i] - 1 : memUsageList[j] = 0
=============================================================================
