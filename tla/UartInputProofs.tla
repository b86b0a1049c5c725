---------------------------- MODULE UartInputProofs ----------------------------
(***************************************************************************)
(* Proofs about UartInput, for any listeners, ids and sizes: who owns an   *)
(* id, what the lines are made of, and which of them the shell gets.       *)
(***************************************************************************)
EXTENDS UartInput, SequenceTheorems, WellFoundedInduction, TLAPS

-----------------------------------------------------------------------------
(* Ids.                                                                    *)

LineMembers == LineListeners \cup {Shell}
RawMembers == RawListeners \cup {LineDistributor}

(* A distributor whose members hold the ids that `ids` says: the callback  *)
(* of an id is that of its owner, and the reserved id is for `special`.    *)
Owned(dist, ids, members, special) ==
  /\ \E i, c : dist = [ids |-> i, cb |-> c]
  /\ dist.ids \subseteq 0 .. CAPACITY - 1 /\ Reserved \in dist.ids
  /\ DOMAIN dist.cb \subseteq dist.ids
  /\ \A id \in DOMAIN dist.cb : IF id = Reserved THEN dist.cb[id] \in special
                                ELSE dist.cb[id] \in members /\ ids[dist.cb[id]] = id
  /\ \A l \in members : ids[l] # 0 => ids[l] \in DOMAIN dist.cb /\ dist.cb[ids[l]] = l

IdsInv ==
  /\ idOf \in [Listeners -> Nat]
  /\ Owned(lineDist, idOf, LineMembers, {Application})
  /\ Owned(dataDist, idOf, RawMembers, {})

(* What every listener holds, when l holds id.                             *)
Own(ids, l, id) == [ids EXCEPT ![l] = id]

LEMMA OwnIs ==
  ASSUME NEW ids \in [Listeners -> Nat], NEW l \in Listeners, NEW id \in Nat
  PROVE  /\ Own(ids, l, id) \in [Listeners -> Nat] /\ Own(ids, l, id)[l] = id
         /\ \A k \in Listeners : k # l => Own(ids, l, id)[k] = ids[k]
BY DEF Own

LEMMA Members ==
  /\ LineMembers \subseteq Listeners /\ RawMembers \subseteq Listeners
  /\ LineMembers \cap RawMembers = {} /\ LineMembers \cup {Application} = LineClients
BY UartInputAssumption DEF LineMembers, RawMembers, Listeners, LineClients

(* The least of some ids is one of them.                                   *)
LEMMA LeastIs ==
  ASSUME NEW S \in SUBSET Nat, S # {}
  PROVE  Min(S) \in S /\ \A x \in S : Min(S) <= x
<1> DEFINE R == OpToRel(<, Nat)
<1>1. \A x, y \in Nat : x < y => <<x, y>> \in R
  BY DEF OpToRel
<1>2. IsWellFoundedOn(R, Nat)
  BY NatLessThanWellFounded
<1> HIDE DEF R
<1>3. PICK x \in S : \A y \in S : ~(<<y, x>> \in R)
  BY <1>2, WFMin
<1>4. ASSUME NEW y \in S PROVE x <= y
  <2>1. x \in Nat /\ y \in Nat /\ ~(<<y, x>> \in R)
    BY <1>3
  <2>2. ~(y < x)
    BY <2>1, <1>1
  <2> QED
    BY <2>1, <2>2
<1> QED
  BY <1>3, <1>4 DEF Min

LEMMA NextIdIs ==
  ASSUME NEW dist, FreeIds(dist) # {}
  PROVE  GetNextId(dist) \in (0 .. CAPACITY - 1) \ dist.ids
<1>1. FreeIds(dist) \in SUBSET Nat
  BY UartInputAssumption DEF FreeIds
<1>2. Min(FreeIds(dist)) \in FreeIds(dist)
  BY <1>1, LeastIs
<1> QED
  BY <1>2 DEF GetNextId, FreeIds

(* To give an id back, or to take one, leaves every id with its owner.     *)
LEMMA RemoveKeepsOwners ==
  ASSUME NEW dist, NEW ids \in [Listeners -> Nat], NEW M \in SUBSET Listeners, NEW special,
         Owned(dist, ids, M, special), NEW l \in M, ids[l] # 0
  PROVE  Owned(RemoveCallback(dist, ids[l]), Own(ids, l, 0), M, special)
<1> DEFINE id == ids[l]
           d == RemoveCallback(dist, id)
           own == Own(ids, l, 0)
<1>1. id \in DOMAIN dist.cb /\ dist.cb[id] = l /\ id # 0
  BY DEF Owned
<1>2. d.ids = dist.ids \ {id} /\ DOMAIN d.cb = DOMAIN dist.cb \ {id}
      /\ \A k \in DOMAIN d.cb : d.cb[k] = dist.cb[k]
  BY DEF RemoveCallback, Restrict
<1>3. \E i, c : d = [ids |-> i, cb |-> c]
  BY DEF RemoveCallback
<1>4. l \in Listeners /\ own[l] = 0 /\ \A k \in Listeners : k # l => own[k] = ids[k]
  BY OwnIs
<1> HIDE DEF d, own, id
<1>5. d.ids \subseteq 0 .. CAPACITY - 1 /\ Reserved \in d.ids /\ DOMAIN d.cb \subseteq d.ids
  BY <1>1, <1>2 DEF Owned, Reserved
<1>6. ASSUME NEW k \in DOMAIN d.cb
      PROVE  IF k = Reserved THEN d.cb[k] \in special
             ELSE d.cb[k] \in M /\ own[d.cb[k]] = k
  <2>1. k \in DOMAIN dist.cb /\ k # id /\ d.cb[k] = dist.cb[k]
    BY <1>2
  <2>2. CASE k # Reserved
    <3>1. dist.cb[k] \in M /\ ids[dist.cb[k]] = k
      BY <2>1, <2>2 DEF Owned
    <3>2. dist.cb[k] # l
      BY <2>1, <3>1 DEF id
    <3> QED
      BY <2>1, <2>2, <3>1, <3>2, <1>4
  <2>3. CASE k = Reserved
    BY <2>1, <2>3 DEF Owned
  <2> QED
    BY <2>2, <2>3
<1>7. ASSUME NEW m \in M, own[m] # 0
      PROVE  own[m] \in DOMAIN d.cb /\ d.cb[own[m]] = m
  <2>1. m # l /\ own[m] = ids[m]
    BY <1>4, <1>7
  <2>2. ids[m] \in DOMAIN dist.cb /\ dist.cb[ids[m]] = m
    BY <1>7, <2>1 DEF Owned
  <2>3. ids[m] # id
    BY <1>1, <2>1, <2>2
  <2> QED
    BY <1>2, <2>1, <2>2, <2>3
<1> QED
  BY <1>3, <1>5, <1>6, <1>7 DEF Owned, d, own, id

LEMMA AddKeepsOwners ==
  ASSUME NEW dist, NEW ids \in [Listeners -> Nat], NEW M \in SUBSET Listeners, NEW special,
         Owned(dist, ids, M, special), NEW l \in M, ids[l] = 0
  PROVE  /\ Owned(AddCallback(dist, l), Own(ids, l, GetNextId(dist)), M, special)
         /\ GetNextId(dist) \in Nat
<1>1. CASE FreeIds(dist) = {}
  <2>1. AddCallback(dist, l) = dist /\ GetNextId(dist) = 0
    BY <1>1 DEF AddCallback, GetNextId
  <2>2. Own(ids, l, 0) = ids
    BY DEF Own
  <2> QED
    BY <2>1, <2>2
<1>2. CASE FreeIds(dist) # {}
  <2> DEFINE id == GetNextId(dist)
             d == AddCallback(dist, l)
             own == Own(ids, l, id)
  <2>1. id \in (0 .. CAPACITY - 1) \ dist.ids
    BY <1>2, NextIdIs
  <2>2. d = [ids |-> dist.ids \cup {id}, cb |-> With(dist.cb, id, l)]
    BY <1>2 DEF AddCallback
  <2> HIDE DEF id, d
  <2>3. d.ids = dist.ids \cup {id} /\ DOMAIN d.cb = DOMAIN dist.cb \cup {id} /\ d.cb[id] = l
        /\ \A k \in DOMAIN dist.cb : k # id => d.cb[k] = dist.cb[k]
    BY <2>2 DEF With
  <2>4. id \in Nat /\ id # 0 /\ id \notin DOMAIN dist.cb
    BY <2>1, UartInputAssumption DEF Owned, Reserved
  <2>5. own[l] = id /\ \A k \in Listeners : k # l => own[k] = ids[k]
    BY <2>4, OwnIs
  <2> HIDE DEF own
  <2>6. ASSUME NEW k \in DOMAIN d.cb
        PROVE  IF k = Reserved THEN d.cb[k] \in special
               ELSE d.cb[k] \in M /\ own[d.cb[k]] = k
    <3>1. CASE k = id
      BY <3>1, <2>3, <2>4, <2>5 DEF Reserved
    <3>2. CASE k # id
      <4>1. k \in DOMAIN dist.cb /\ d.cb[k] = dist.cb[k]
        BY <3>2, <2>3
      <4>2. CASE k = Reserved
        BY <4>1, <4>2 DEF Owned
      <4>3. CASE k # Reserved
        <5>1. dist.cb[k] \in M /\ ids[dist.cb[k]] = k
          BY <4>1, <4>3 DEF Owned
        <5>2. dist.cb[k] # l
          BY <5>1, <4>3 DEF Reserved
        <5> QED
          BY <4>1, <4>3, <5>1, <5>2, <2>5
      <4> QED
        BY <4>2, <4>3
    <3> QED
      BY <3>1, <3>2
  <2>7. ASSUME NEW m \in M, own[m] # 0
        PROVE  own[m] \in DOMAIN d.cb /\ d.cb[own[m]] = m
    <3>1. CASE m = l
      BY <3>1, <2>3, <2>5
    <3>2. CASE m # l
      <4>1. own[m] = ids[m]
        BY <3>2, <2>5
      <4>2. ids[m] \in DOMAIN dist.cb /\ dist.cb[ids[m]] = m
        BY <2>7, <4>1 DEF Owned
      <4> QED
        BY <4>1, <4>2, <2>3, <2>4
    <3> QED
      BY <3>1, <3>2
  <2>8. Owned(d, own, M, special)
    <3>1. \E i, c : d = [ids |-> i, cb |-> c]
      BY <2>2
    <3>2. d.ids \subseteq 0 .. CAPACITY - 1 /\ Reserved \in d.ids /\ DOMAIN d.cb \subseteq d.ids
      BY <2>1, <2>3 DEF Owned
    <3> QED
      BY <3>1, <3>2, <2>6, <2>7 DEF Owned
  <2> QED
    BY <2>4, <2>8 DEF own, id, d
<1> QED
  BY <1>1, <1>2

(* Another distributor has no part in it.                                  *)
LEMMA OthersKeepOwners ==
  ASSUME NEW dist, NEW ids \in [Listeners -> Nat], NEW M \in SUBSET Listeners, NEW special,
         Owned(dist, ids, M, special), NEW l \in Listeners, l \notin M, NEW id \in Nat
  PROVE  Owned(dist, Own(ids, l, id), M, special)
<1>1. \A k \in M : Own(ids, l, id)[k] = ids[k]
  <2>1. \A k \in M : k \in Listeners /\ k # l
    OBVIOUS
  <2> QED
    BY <2>1, OwnIs
<1>2. ASSUME NEW k \in DOMAIN dist.cb
      PROVE  IF k = Reserved THEN dist.cb[k] \in special
             ELSE dist.cb[k] \in M /\ Own(ids, l, id)[dist.cb[k]] = k
  BY <1>1 DEF Owned
<1> QED
  BY <1>1, <1>2 DEF Owned

(* Starting and stopping to listen.                                        *)
LEMMA WithoutKeepsOwners ==
  ASSUME NEW dist, idOf \in [Listeners -> Nat], NEW M \in SUBSET Listeners, NEW special,
         Owned(dist, idOf, M, special), NEW l \in M
  PROVE  /\ Owned(Without(dist, l), Own(idOf, l, 0), M, special)
         /\ Own(idOf, l, 0) \in [Listeners -> Nat] /\ Own(idOf, l, 0)[l] = 0
<1>1. Own(idOf, l, 0) \in [Listeners -> Nat] /\ Own(idOf, l, 0)[l] = 0
  BY OwnIs
<1>2. CASE idOf[l] = 0
  <2>1. Own(idOf, l, 0) = idOf
    BY <1>2 DEF Own
  <2> QED
    BY <1>1, <1>2, <2>1 DEF Without
<1>3. CASE idOf[l] # 0
  BY <1>1, <1>3, RemoveKeepsOwners DEF Without
<1> QED
  BY <1>2, <1>3

LEMMA StartKeepsOwners ==
  ASSUME NEW dist, idOf \in [Listeners -> Nat], NEW M \in SUBSET Listeners, NEW special,
         Owned(dist, idOf, M, special), NEW l \in M
  PROVE  LET without == Without(dist, l)
         IN  /\ Owned(AddCallback(without, l), Own(idOf, l, GetNextId(without)), M, special)
             /\ GetNextId(without) \in Nat
<1> DEFINE without == Without(dist, l)
           own == Own(idOf, l, 0)
<1>1. Owned(without, own, M, special) /\ own \in [Listeners -> Nat] /\ own[l] = 0
  BY WithoutKeepsOwners
<1> HIDE DEF without, own
<1>2. /\ Owned(AddCallback(without, l), Own(own, l, GetNextId(without)), M, special)
      /\ GetNextId(without) \in Nat
  BY <1>1, AddKeepsOwners
<1>3. Own(own, l, GetNextId(without)) = Own(idOf, l, GetNextId(without))
  BY DEF Own, own
<1> QED
  BY <1>2, <1>3 DEF without

LEMMA SetKeepsOwners ==
  ASSUME NEW dist, NEW ids, Owned(dist, ids, LineMembers, {Application})
  PROVE  Owned(SetCallback(dist, Reserved, Application), ids, LineMembers, {Application})
<1> DEFINE d == SetCallback(dist, Reserved, Application)
<1>1. PICK i, c : dist = [ids |-> i, cb |-> c]
  BY DEF Owned
<1>2. d = [ids |-> i, cb |-> With(c, Reserved, Application)]
  BY <1>1 DEF SetCallback
<1> HIDE DEF d
<1>3. d.ids = dist.ids /\ DOMAIN d.cb = DOMAIN dist.cb \cup {Reserved}
      /\ d.cb[Reserved] = Application
      /\ \A k \in DOMAIN dist.cb : k # Reserved => d.cb[k] = dist.cb[k]
  BY <1>1, <1>2 DEF With
<1>4. \E j, e : d = [ids |-> j, cb |-> e]
  BY <1>2
<1>5. d.ids \subseteq 0 .. CAPACITY - 1 /\ Reserved \in d.ids /\ DOMAIN d.cb \subseteq d.ids
  BY <1>3 DEF Owned
<1>6. ASSUME NEW k \in DOMAIN d.cb
      PROVE  IF k = Reserved THEN d.cb[k] \in {Application}
             ELSE d.cb[k] \in LineMembers /\ ids[d.cb[k]] = k
  BY <1>3 DEF Owned
<1>7. ASSUME NEW m \in LineMembers, ids[m] # 0
      PROVE  ids[m] \in DOMAIN d.cb /\ d.cb[ids[m]] = m
  BY <1>3, <1>7 DEF Owned, Reserved
<1>8. Owned(d, ids, LineMembers, {Application})
  BY <1>4, <1>5, <1>6, <1>7 DEF Owned
<1> QED
  BY <1>8 DEF d

(* The two distributors, their listeners, and the rest.                    *)
LEMMA IdsKept ==
  ASSUME IdsInv, [Next]_vars
  PROVE  IdsInv'
<1> USE DEF IdsInv
<1>1. ASSUME UNCHANGED listenVars PROVE IdsInv'
  BY <1>1 DEF listenVars
<1>2. ASSUME NEW l \in LineListeners, StartMonitoring(l) \/ StopMonitoring(l)
      PROVE  IdsInv'
  <2>1. l \in LineMembers /\ l \in Listeners /\ l \notin RawMembers
        /\ LineMembers \in SUBSET Listeners /\ RawMembers \in SUBSET Listeners
    BY Members DEF LineMembers
  <2> DEFINE without == Without(lineDist, l)
             id == IF StopMonitoring(l) THEN 0 ELSE GetNextId(without)
  <2>2. idOf' = Own(idOf, l, id) /\ dataDist' = dataDist
        /\ lineDist' = IF StopMonitoring(l) THEN without ELSE AddCallback(without, l)
    BY <1>2 DEF StartMonitoring, StopMonitoring, Own
  <2>3. Owned(lineDist', idOf', LineMembers, {Application}) /\ id \in Nat
    BY <2>1, <2>2, WithoutKeepsOwners, StartKeepsOwners
  <2> HIDE DEF id, without
  <2>4. idOf' \in [Listeners -> Nat]
    BY <2>1, <2>2, <2>3, OwnIs
  <2>5. Owned(dataDist', idOf', RawMembers, {})
    BY <2>1, <2>2, <2>3, OthersKeepOwners
  <2> QED
    BY <2>3, <2>4, <2>5
<1>3. ASSUME NEW l \in RawListeners, StartMonitorForUbx(l) \/ StopMonitorForUbx(l)
      PROVE  IdsInv'
  <2>1. l \in RawMembers /\ l \in Listeners /\ l \notin LineMembers
        /\ LineMembers \in SUBSET Listeners /\ RawMembers \in SUBSET Listeners
    BY Members DEF RawMembers
  <2> DEFINE without == Without(dataDist, l)
             id == IF StopMonitorForUbx(l) THEN 0 ELSE GetNextId(without)
  <2>2. idOf' = Own(idOf, l, id) /\ lineDist' = lineDist
        /\ dataDist' = IF StopMonitorForUbx(l) THEN without ELSE AddCallback(without, l)
    BY <1>3 DEF StartMonitorForUbx, StopMonitorForUbx, Own
  <2>3. Owned(dataDist', idOf', RawMembers, {}) /\ id \in Nat
    BY <2>1, <2>2, WithoutKeepsOwners, StartKeepsOwners
  <2> HIDE DEF id, without
  <2>4. idOf' \in [Listeners -> Nat]
    BY <2>1, <2>2, <2>3, OwnIs
  <2>5. Owned(lineDist', idOf', LineMembers, {Application})
    BY <2>1, <2>2, <2>3, OthersKeepOwners
  <2> QED
    BY <2>3, <2>4, <2>5
<1>4. CASE UartSetLineStreamCallback
  BY <1>4, SetKeepsOwners DEF UartSetLineStreamCallback
<1>5. CASE EvmStep \/ UartClearRxBuffer \/ QueueOtherWork
           \/ \E kind \in Kinds : UartInterruptHandler(kind)
  BY <1>1, <1>5 DEF EvmStep, ServiceWork, AddByte, EndLine, CallLineCallback, CallbackReturns,
     LineDone, UartClearRxBuffer, QueueOtherWork, UartInterruptHandler
<1>6. CASE UNCHANGED vars
  BY <1>1, <1>6 DEF vars
<1> QED
  BY <1>2, <1>3, <1>4, <1>5, <1>6 DEF Next, Client

LEMMA IdsStart == Init => IdsInv
<1> SUFFICES ASSUME Init PROVE IdsInv
  OBVIOUS
<1>1. ASSUME NEW l, NEW dist, NEW M, NEW special,
             dist = [ids |-> {Reserved, 1}, cb |-> [id \in {1} |-> l]], l \in M,
             \A m \in M : idOf[m] = IF m = l THEN 1 ELSE 0
      PROVE  Owned(dist, idOf, M, special)
  <2>1. dist.ids = {0, 1} /\ DOMAIN dist.cb = {1} /\ dist.cb[1] = l
    BY <1>1 DEF Reserved
  <2>2. dist.ids \subseteq 0 .. CAPACITY - 1
    BY <2>1, UartInputAssumption
  <2>3. idOf[l] = 1
    BY <1>1
  <2>4. \E i, c : dist = [ids |-> i, cb |-> c]
    BY <1>1
  <2>5. \A id \in DOMAIN dist.cb : id = 1 /\ id # Reserved /\ dist.cb[id] \in M
                                   /\ idOf[dist.cb[id]] = id
    BY <1>1, <2>1, <2>3 DEF Reserved
  <2>6. \A m \in M : idOf[m] # 0 => idOf[m] \in DOMAIN dist.cb /\ dist.cb[idOf[m]] = m
    BY <1>1, <2>1
  <2> QED
    BY <2>1, <2>2, <2>4, <2>5, <2>6 DEF Owned, Reserved
<1>2. idOf \in [Listeners -> Nat]
  BY DEF Init
<1>3. \A m \in LineMembers : idOf[m] = IF m = Shell THEN 1 ELSE 0
  BY Members, UartInputAssumption DEF Init, LineMembers, RawMembers, Listeners
<1>4. \A m \in RawMembers : idOf[m] = IF m = LineDistributor THEN 1 ELSE 0
  BY Members, UartInputAssumption DEF Init, LineMembers, RawMembers, Listeners
<1> QED
  BY <1>1, <1>2, <1>3, <1>4 DEF Init, IdsInv, LineMembers, RawMembers

(* An id is held by one listener at a time, which is called as long as it  *)
(* holds it and no longer, and the reserved one is nobody's but the        *)
(* application's, for any listeners and any number of ids.                 *)
THEOREM IdsAreOwned == Spec => []IdsHaveOwners
<1>1. IdsInv => IdsHaveOwners
  BY DEF IdsInv, IdsHaveOwners, Owned, LineMembers, RawMembers
<1> QED
  BY <1>1, IdsStart, IdsKept, PTL DEF Spec

-----------------------------------------------------------------------------
(* Bytes.                                                                  *)

(* What has begun of the line, what AddData has yet to look at and what is *)
(* in the pipe, as sets of bytes of which n came, c of them before the     *)
(* buffers were cleared: one comes before the next, and none is missing    *)
(* after the first of them but those that are no part of a line, or lost.  *)
InOrder(line, data, pipe, gone, c, n, kinds) ==
  /\ line \cup data \cup pipe \subseteq c + 1 .. n
  /\ \A x \in line, y \in data \cup pipe : x < y
  /\ \A x \in data, y \in pipe : x < y
  /\ \A x \in line \cup data \cup pipe, ch \in 1 .. n :
       x < ch => ch \in line \cup data \cup pipe \cup gone \/ kinds[ch] = "other"

Rising(s) == \A i, j \in DOMAIN s : i < j => s[i] < s[j]
Whole(s) == s \in Seq(Nat) /\ Rising(s)

(* The bytes of a line, and what is between them.                          *)
Unspliced(line) ==
  /\ line \in Seq(Nat) /\ \A i \in DOMAIN line : line[i] \in 1 .. Len(received)
  /\ \A j \in 1 .. Len(line) - 1 :
       \A ch \in line[j] + 1 .. line[j + 1] - 1 : received[ch] = "other" \/ ch \in lost

StreamTypes ==
  /\ received \in Seq(Kinds) /\ Len(received) <= MaxReceived
  /\ cleared \in 0 .. Len(received)
  /\ workList \in Seq({"uart", "other"}) /\ Len(workList) <= MAX_WORK_ITEMS
  /\ Whole(inputPipe) /\ Len(inputPipe) <= PipeSize
  /\ Whole(inputStream) /\ Len(inputStream) <= MaxLineLen
  /\ Whole(rest)
  /\ at \in {"bytes", "callbacks", "inside"} /\ wasMaxLine \in BOOLEAN
  /\ \A id \in DOMAIN tmp : tmp[id] \in LineClients

BytesInOrder ==
  InOrder(ToSet(inputStream), ToSet(rest), ToSet(inputPipe), lost, cleared, Len(received), received)

LinesUnspliced ==
  /\ delivered \in [LineClients -> Seq(Seq(Nat))]
  /\ \A l \in LineClients : \A i \in DOMAIN delivered[l] : Unspliced(delivered[l][i])

BytesInv == StreamTypes /\ BytesInOrder /\ LinesUnspliced

(* Sequences as sets.                                                      *)
LEMMA SetOfNone == ToSet(<<>>) = {} /\ Whole(<<>>)
BY DEF ToSet, Whole, Rising

LEMMA SetOfAppend ==
  ASSUME NEW s, Whole(s), NEW x \in Nat, \A y \in ToSet(s) : y < x
  PROVE  Whole(Append(s, x)) /\ ToSet(Append(s, x)) = ToSet(s) \cup {x}
         /\ Len(Append(s, x)) = Len(s) + 1
<1>1. s \in Seq(Nat) /\ Append(s, x) \in Seq(Nat) /\ Len(Append(s, x)) = Len(s) + 1
      /\ DOMAIN s = 1 .. Len(s) /\ DOMAIN Append(s, x) = 1 .. Len(s) + 1
      /\ Append(s, x)[Len(s) + 1] = x /\ \A i \in 1 .. Len(s) : Append(s, x)[i] = s[i]
  BY DEF Whole
<1>2. Rising(Append(s, x))
  BY <1>1 DEF Rising, Whole, ToSet
<1>3. ToSet(Append(s, x)) = ToSet(s) \cup {x}
  BY <1>1 DEF ToSet
<1> QED
  BY <1>1, <1>2, <1>3 DEF Whole

(* What is left of a sequence from the k-th on comes after what is not.    *)
LEMMA SetOfRest ==
  ASSUME NEW s, Whole(s), NEW k \in 1 .. Len(s) + 1
  PROVE  LET t == SubSeq(s, k, Len(s))
         IN  /\ Whole(t) /\ ToSet(t) \subseteq ToSet(s)
             /\ \A x \in ToSet(s) \ ToSet(t), y \in ToSet(t) : x < y
<1> DEFINE t == SubSeq(s, k, Len(s))
           n == Len(s) - k + 1
<1>1. s \in Seq(Nat) /\ t \in Seq(Nat) /\ Len(t) = n /\ n \in Nat
      /\ \A i \in 1 .. n : t[i] = s[i + k - 1]
  BY DEF Whole
<1> HIDE DEF t, n
<1>2. DOMAIN t = 1 .. n /\ DOMAIN s = 1 .. Len(s) /\ \A i \in 1 .. n : i + k - 1 \in 1 .. Len(s)
  BY <1>1 DEF n
<1>3. Rising(t)
  <2> SUFFICES ASSUME NEW i \in 1 .. n, NEW j \in 1 .. n, i < j PROVE t[i] < t[j]
    BY <1>2 DEF Rising
  <2> DEFINE a == i + k - 1
             b == j + k - 1
  <2>0. a \in 1 .. Len(s) /\ b \in 1 .. Len(s) /\ a < b
    BY <1>1, <1>2
  <2>1. a \in DOMAIN s /\ b \in DOMAIN s /\ t[i] = s[a] /\ t[j] = s[b] /\ a < b
    BY <1>1, <1>2, <2>0
  <2> HIDE DEF a, b
  <2> QED
    BY <2>1 DEF Whole, Rising
<1>4. ToSet(t) \subseteq ToSet(s)
  BY <1>1, <1>2 DEF ToSet
<1>5. ASSUME NEW x \in ToSet(s) \ ToSet(t), NEW y \in ToSet(t) PROVE x < y
  <2>1. PICK i \in 1 .. Len(s) : x = s[i]
    BY <1>2 DEF ToSet
  <2>2. PICK j \in 1 .. n : y = s[j + k - 1]
    BY <1>1, <1>2 DEF ToSet
  <2>3. i < k
    <3> SUFFICES ASSUME i >= k PROVE FALSE
      OBVIOUS
    <3>1. i - k + 1 \in 1 .. n /\ (i - k + 1) + k - 1 = i
      BY DEF n
    <3>2. t[i - k + 1] = x
      BY <1>1, <2>1, <3>1
    <3> QED
      BY <1>2, <3>1, <3>2 DEF ToSet
  <2>4. i < j + k - 1 /\ j + k - 1 \in 1 .. Len(s)
    BY <1>2, <2>3
  <2> QED
    BY <1>2, <2>1, <2>2, <2>4 DEF Whole, Rising
<1> QED
  BY <1>1, <1>3, <1>4, <1>5 DEF Whole, t

LEMMA SetOfTail ==
  ASSUME NEW s, Whole(s), s # <<>>
  PROVE  /\ Whole(Tail(s)) /\ Head(s) \in Nat
         /\ ToSet(s) = {Head(s)} \cup ToSet(Tail(s))
         /\ \A y \in ToSet(Tail(s)) : Head(s) < y
<1> DEFINE t == Tail(s)
           h == Head(s)
<1>1. s \in Seq(Nat) /\ Len(s) >= 1 /\ t \in Seq(Nat) /\ Len(t) = Len(s) - 1
      /\ (\A i \in 1 .. Len(s) - 1 : t[i] = s[i + 1]) /\ h = s[1] /\ h \in Nat
  BY DEF Whole
<1> HIDE DEF t, h
<1>2. DOMAIN s = 1 .. Len(s) /\ DOMAIN t = 1 .. Len(s) - 1 /\ Len(s) \in Nat
      /\ \A i \in 1 .. Len(s) - 1 : i + 1 \in 1 .. Len(s)
  BY <1>1
<1>3. Rising(t)
  <2> SUFFICES ASSUME NEW i \in 1 .. Len(s) - 1, NEW j \in 1 .. Len(s) - 1, i < j
               PROVE  t[i] < t[j]
    BY <1>2 DEF Rising
  <2> DEFINE a == i + 1
             b == j + 1
  <2>1. a \in DOMAIN s /\ b \in DOMAIN s /\ t[i] = s[a] /\ t[j] = s[b] /\ a < b
    BY <1>1, <1>2
  <2> HIDE DEF a, b
  <2> QED
    BY <2>1 DEF Whole, Rising
<1>4. ASSUME NEW y \in ToSet(t) PROVE h < y /\ y \in ToSet(s)
  <2>1. PICK i \in 1 .. Len(s) - 1 : y = t[i]
    BY <1>2 DEF ToSet
  <2> DEFINE a == i + 1
  <2>2. a \in DOMAIN s /\ 1 \in DOMAIN s /\ y = s[a] /\ 1 < a
    BY <1>1, <1>2, <2>1
  <2> HIDE DEF a
  <2>3. s[1] < s[a]
    BY <2>2 DEF Whole, Rising
  <2> QED
    BY <1>1, <2>2, <2>3 DEF ToSet
<1>5. ASSUME NEW y \in ToSet(s) PROVE y = h \/ y \in ToSet(t)
  <2>1. PICK i \in 1 .. Len(s) : y = s[i]
    BY <1>2 DEF ToSet
  <2>2. CASE i = 1
    BY <1>1, <2>1, <2>2
  <2>3. CASE i # 1
    <3>1. i - 1 \in 1 .. Len(s) - 1 /\ (i - 1) + 1 = i
      BY <1>2, <2>3
    <3>2. t[i - 1] = y
      BY <1>1, <2>1, <3>1
    <3> QED
      BY <1>2, <3>1, <3>2 DEF ToSet
  <2> QED
    BY <2>2, <2>3
<1>6. h \in ToSet(s)
  BY <1>1, <1>2 DEF ToSet
<1> QED
  BY <1>1, <1>3, <1>4, <1>5, <1>6 DEF Whole, t, h

(* How the bytes move on.                                                  *)
LEMMA OrderMoves ==
  ASSUME NEW line, NEW data, NEW pipe, NEW gone, NEW n \in Nat, NEW c \in 0 .. n, NEW kinds,
         InOrder(line, data, pipe, gone, c, n, kinds)
  PROVE  /\ data = {} => InOrder(line, pipe, {}, gone, c, n, kinds)
         /\ InOrder(line, data, {}, gone \cup pipe, c, n, kinds)
         /\ InOrder({}, data, {}, gone \cup pipe \cup line, c, n, kinds)
         /\ InOrder({}, {}, {}, gone \cup pipe \cup line, n, n, kinds)
BY DEF InOrder

LEMMA OrderOfByte ==
  ASSUME NEW line, NEW data, NEW pipe, NEW gone, NEW n \in Nat, NEW c \in 0 .. n, NEW kinds,
         NEW h, NEW after, data = {h} \cup after, \A y \in after : h < y,
         InOrder(line, data, pipe, gone, c, n, kinds)
  PROVE  /\ InOrder(line \cup {h}, after, pipe, gone, c, n, kinds)
         /\ kinds[h] = "other" => InOrder(line, after, pipe, gone, c, n, kinds)
BY DEF InOrder

LEMMA OrderOfLine ==
  ASSUME NEW line, NEW data, NEW pipe, NEW gone, NEW n \in Nat, NEW c \in 0 .. n, NEW kinds,
         NEW after, after \subseteq data, \A x \in data \ after, y \in after : x < y,
         InOrder(line, data, pipe, gone, c, n, kinds)
  PROVE  InOrder({}, after, pipe, gone, c, n, kinds)
<1> DEFINE all == line \cup data \cup pipe
           kept == {} \cup after \cup pipe
<1>1. kept \subseteq c + 1 .. n /\ \A x \in after, y \in pipe : x < y
  BY DEF InOrder
<1>2. ASSUME NEW x \in kept, NEW ch \in 1 .. n, x < ch
      PROVE  ch \in kept \cup gone \/ kinds[ch] = "other"
  <2>1. ch \in all \cup gone \/ kinds[ch] = "other"
    BY <1>2 DEF InOrder
  <2>2. ch \notin line
    <3>1. \A z \in line : z < x /\ z \in Int
      BY DEF InOrder
    <3> QED
      BY <1>2, <1>1, <3>1
  <2>3. ch \notin data \ after
    <3>1. \A z \in data \ after : z < x /\ z \in Int
      BY DEF InOrder
    <3> QED
      BY <1>2, <1>1, <3>1
  <2> QED
    BY <2>1, <2>2, <2>3
<1> QED
  BY <1>1, <1>2 DEF InOrder

LEMMA OrderOfArrival ==
  ASSUME NEW line, NEW data, NEW pipe, NEW gone, NEW n \in Nat, NEW c \in 0 .. n,
         NEW kinds \in Seq(Kinds), n = Len(kinds), NEW kind \in Kinds,
         InOrder(line, data, pipe, gone, c, n, kinds)
  PROVE  /\ InOrder(line, data, pipe \cup {n + 1}, gone, c, n + 1, Append(kinds, kind))
         /\ InOrder(line, data, pipe, gone \cup {n + 1}, c, n + 1, Append(kinds, kind))
         /\ InOrder(line, data, {}, gone \cup pipe \cup {n + 1}, c, n + 1, Append(kinds, kind))
<1> DEFINE more == Append(kinds, kind)
<1>1. \A ch \in 1 .. n : more[ch] = kinds[ch]
  OBVIOUS
<1> HIDE DEF more
<1>2. \A ch \in 1 .. n + 1 : ch \in 1 .. n \/ ch = n + 1
  OBVIOUS
<1>3. InOrder(line, data, pipe \cup {n + 1}, gone, c, n + 1, more)
  BY <1>1, <1>2 DEF InOrder
<1>4. InOrder(line, data, pipe, gone \cup {n + 1}, c, n + 1, more)
  BY <1>1, <1>2 DEF InOrder
<1>5. InOrder(line, data, {}, gone \cup pipe \cup {n + 1}, c, n + 1, more)
  BY <1>1, <1>2 DEF InOrder
<1> QED
  BY <1>3, <1>4, <1>5 DEF more

-----------------------------------------------------------------------------
(* What each step does to bytes.                                           *)

LEMMA BytesStart == Init => BytesInv
<1> SUFFICES ASSUME Init PROVE BytesInv
  OBVIOUS
<1>1. received = <<>> /\ Len(received) = 0 /\ inputPipe = <<>> /\ inputStream = <<>>
      /\ rest = <<>> /\ workList = <<>> /\ lost = {} /\ cleared = 0 /\ DOMAIN tmp = {}
  BY DEF Init
<1>2. StreamTypes
  <2>1. received \in Seq(Kinds) /\ workList \in Seq({"uart", "other"}) /\ Len(workList) = 0
    BY <1>1
  <2>2. Whole(inputPipe) /\ Len(inputPipe) = 0 /\ Whole(inputStream) /\ Len(inputStream) = 0
        /\ Whole(rest)
    BY <1>1, SetOfNone
  <2>3. at = "bytes" /\ wasMaxLine = FALSE
    BY DEF Init
  <2>4. 0 <= MaxReceived /\ 0 <= MAX_WORK_ITEMS /\ 0 <= PipeSize /\ 0 <= MaxLineLen
    BY UartInputAssumption
  <2>5. cleared \in 0 .. Len(received)
    BY <1>1
  <2>6. \A id \in DOMAIN tmp : tmp[id] \in LineClients
    BY <1>1
  <2> QED
    BY <1>1, <2>1, <2>2, <2>3, <2>4, <2>5, <2>6 DEF StreamTypes
<1>3. BytesInOrder
  BY <1>1, SetOfNone DEF BytesInOrder, InOrder
<1>4. LinesUnspliced
  BY DEF Init, LinesUnspliced
<1> QED
  BY <1>2, <1>3, <1>4 DEF BytesInv

(* Lines that were delivered stay as they are.                             *)
LEMMA LinesStay ==
  ASSUME StreamTypes, LinesUnspliced, UNCHANGED delivered, lost \subseteq lost',
         \/ UNCHANGED received
         \/ \E kind \in Kinds : received' = Append(received, kind)
  PROVE  LinesUnspliced'
<1>1. received \in Seq(Kinds) /\ Len(received) \in Nat
  BY DEF StreamTypes
<1>2. Len(received) <= Len(received') /\ Len(received') \in Nat
      /\ \A ch \in 1 .. Len(received) : received'[ch] = received[ch]
  BY <1>1
<1>3. ASSUME NEW line, Unspliced(line) PROVE Unspliced(line)'
  <2>1. line \in Seq(Nat) /\ \A i \in DOMAIN line : line[i] \in 1 .. Len(received)
    BY <1>3 DEF Unspliced
  <2>2. \A i \in DOMAIN line : line[i] \in 1 .. Len(received')
    BY <1>1, <1>2, <2>1
  <2>3. ASSUME NEW j \in 1 .. Len(line) - 1, NEW ch \in line[j] + 1 .. line[j + 1] - 1
        PROVE  received'[ch] = "other" \/ ch \in lost'
    <3>1. received[ch] = "other" \/ ch \in lost
      BY <1>3, <2>3 DEF Unspliced
    <3>2. j \in DOMAIN line /\ j + 1 \in DOMAIN line
      BY <2>1
    <3>3. ch \in 1 .. Len(received)
      BY <1>1, <2>1, <3>2
    <3> QED
      BY <1>2, <3>1, <3>3
  <2> QED
    BY <2>1, <2>2, <2>3 DEF Unspliced
<1> QED
  BY <1>3 DEF LinesUnspliced

LEMMA QueueKeeps ==
  ASSUME StreamTypes, NEW label \in {"uart", "other"}, QueueLowPriorityWork(label)
  PROVE  workList' \in Seq({"uart", "other"}) /\ Len(workList') <= MAX_WORK_ITEMS
<1> DEFINE kept == IF Len(workList) = MAX_WORK_ITEMS THEN Tail(workList) ELSE workList
<1>1. workList \in Seq({"uart", "other"}) /\ Len(workList) <= MAX_WORK_ITEMS
      /\ MAX_WORK_ITEMS \in Nat /\ MAX_WORK_ITEMS > 0 /\ Len(workList) \in Nat
  BY UartInputAssumption DEF StreamTypes
<1>2. kept \in Seq({"uart", "other"}) /\ Len(kept) + 1 <= MAX_WORK_ITEMS
  <2>1. CASE Len(workList) = MAX_WORK_ITEMS
    <3>1. workList # <<>>
      BY <1>1, <2>1
    <3> QED
      BY <1>1, <2>1, <3>1
  <2>2. CASE Len(workList) # MAX_WORK_ITEMS
    BY <1>1, <2>2
  <2> QED
    BY <2>1, <2>2
<1>3. workList' = Append(kept, label)
  BY DEF QueueLowPriorityWork
<1> HIDE DEF kept
<1> QED
  BY <1>2, <1>3

LEMMA InterruptKeepsBytes ==
  ASSUME BytesInv, NEW kind \in Kinds, UartInterruptHandler(kind)
  PROVE  BytesInv'
<1> DEFINE n == Len(received)
<1>1. received \in Seq(Kinds) /\ n \in Nat /\ Whole(inputPipe) /\ cleared \in 0 .. n
      /\ Len(inputPipe) <= PipeSize /\ workList \in Seq({"uart", "other"})
      /\ Len(workList) <= MAX_WORK_ITEMS
  BY DEF BytesInv, StreamTypes
<1>2. received' = Append(received, kind) /\ Len(received') = n + 1 /\ n + 1 <= MaxReceived
      /\ received' \in Seq(Kinds)
  BY <1>1, UartInputAssumption DEF UartInterruptHandler
<1>3. UNCHANGED <<inputStream, rest, tmp, wasMaxLine, at, delivered, cleared>>
  BY DEF UartInterruptHandler, addDataVars
<1>4. \A y \in ToSet(inputPipe) : y < n + 1
  BY <1>1 DEF BytesInv, BytesInOrder, InOrder
<1>5. workList' \in Seq({"uart", "other"}) /\ Len(workList') <= MAX_WORK_ITEMS
  <2>1. CASE UNCHANGED workList
    BY <1>1, <2>1
  <2>2. CASE QueueLowPriorityWork("uart")
    BY <2>2, QueueKeeps DEF BytesInv
  <2> QED
    BY <2>1, <2>2 DEF UartInterruptHandler
<1>6. Whole(inputPipe') /\ Len(inputPipe') <= PipeSize /\ lost \subseteq lost'
      /\ \/ ToSet(inputPipe') = {} /\ lost' = lost \cup ToSet(inputPipe) \cup {n + 1}
         \/ ToSet(inputPipe') = ToSet(inputPipe) \cup {n + 1} /\ lost' = lost
         \/ ToSet(inputPipe') = ToSet(inputPipe) /\ lost' = lost \cup {n + 1}
  <2>1. CASE DOMAIN dataDist.cb = {}
    BY <2>1, SetOfNone, UartInputAssumption DEF UartInterruptHandler
  <2>2. CASE DOMAIN dataDist.cb # {} /\ Len(inputPipe) < PipeSize
    <3>1. inputPipe' = Append(inputPipe, n + 1) /\ lost' = lost
      BY <2>2 DEF UartInterruptHandler, Put
    <3>2. Len(inputPipe) \in Nat /\ n + 1 \in Nat
      BY <1>1 DEF Whole
    <3> HIDE DEF n
    <3> QED
      BY <1>1, <1>4, <2>2, <3>1, <3>2, SetOfAppend, UartInputAssumption
  <2>3. CASE DOMAIN dataDist.cb # {} /\ ~(Len(inputPipe) < PipeSize)
    BY <1>1, <2>3 DEF UartInterruptHandler, Put
  <2> QED
    BY <2>1, <2>2, <2>3
<1>7. StreamTypes'
  <2>1. cleared' \in 0 .. Len(received')
    BY <1>1, <1>2, <1>3
  <2> QED
    BY <1>2, <1>3, <1>5, <1>6, <2>1 DEF BytesInv, StreamTypes
<1>8. BytesInOrder'
  <2>1. /\ InOrder(ToSet(inputStream), ToSet(rest), ToSet(inputPipe) \cup {n + 1}, lost,
                   cleared, n + 1, received')
        /\ InOrder(ToSet(inputStream), ToSet(rest), ToSet(inputPipe), lost \cup {n + 1},
                   cleared, n + 1, received')
        /\ InOrder(ToSet(inputStream), ToSet(rest), {}, lost \cup ToSet(inputPipe) \cup {n + 1},
                   cleared, n + 1, received')
    <3>1. InOrder(ToSet(inputStream), ToSet(rest), ToSet(inputPipe), lost, cleared, n, received)
      BY DEF BytesInv, BytesInOrder
    <3> HIDE DEF n
    <3>2. n = Len(received)
      BY DEF n
    <3> QED
      BY <1>1, <1>2, <3>1, <3>2, OrderOfArrival
  <2> QED
    BY <1>2, <1>3, <1>6, <2>1 DEF BytesInOrder
<1>9. LinesUnspliced'
  BY <1>2, <1>3, <1>6, LinesStay DEF BytesInv
<1> QED
  BY <1>7, <1>8, <1>9 DEF BytesInv

LEMMA WorkKeepsBytes ==
  ASSUME BytesInv, ServiceWork
  PROVE  BytesInv'
<1>1. /\ rest = <<>> /\ workList # <<>> /\ workList' = Tail(workList)
      /\ UNCHANGED <<received, inputStream, tmp, wasMaxLine, at, delivered, cleared>>
  BY DEF ServiceWork, Distributing
<1>2. /\ Whole(inputPipe) /\ Len(inputPipe) <= PipeSize /\ Whole(rest)
      /\ Len(received) \in Nat /\ cleared \in 0 .. Len(received)
      /\ InOrder(ToSet(inputStream), ToSet(rest), ToSet(inputPipe), lost, cleared,
                 Len(received), received)
  BY DEF BytesInv, StreamTypes, BytesInOrder
<1>3. ToSet(rest) = {}
  BY <1>1, SetOfNone
<1>4. workList' \in Seq({"uart", "other"}) /\ Len(workList') <= MAX_WORK_ITEMS
  <2>1. workList \in Seq({"uart", "other"}) /\ Len(workList) <= MAX_WORK_ITEMS
    BY DEF BytesInv, StreamTypes
  <2> QED
    BY <1>1, <2>1, UartInputAssumption
<1>5. \/ UNCHANGED <<inputPipe, rest, lost>>
      \/ inputPipe' = <<>> /\ rest' = inputPipe /\ lost' = lost
      \/ inputPipe' = <<>> /\ rest' = rest /\ lost' = lost \cup ToSet(inputPipe)
  BY DEF ServiceWork
<1>6. Whole(inputPipe') /\ Len(inputPipe') <= PipeSize /\ Whole(rest') /\ lost \subseteq lost'
  BY <1>2, <1>5, SetOfNone, UartInputAssumption
<1>7. StreamTypes'
  BY <1>1, <1>4, <1>6 DEF BytesInv, StreamTypes
<1>8. BytesInOrder'
  <2>1. /\ InOrder(ToSet(inputStream), ToSet(inputPipe), {}, lost, cleared,
                   Len(received), received)
        /\ InOrder(ToSet(inputStream), ToSet(rest), {}, lost \cup ToSet(inputPipe), cleared,
                   Len(received), received)
    BY <1>2, <1>3, OrderMoves
  <2> QED
    BY <1>1, <1>2, <1>5, <2>1, SetOfNone DEF BytesInOrder
<1>9. LinesUnspliced'
  BY <1>1, <1>6, LinesStay DEF BytesInv
<1> QED
  BY <1>7, <1>8, <1>9 DEF BytesInv

LEMMA AddByteKeepsBytes ==
  ASSUME BytesInv, AddByte
  PROVE  BytesInv'
<1> DEFINE h == Head(rest)
<1>1. /\ rest # <<>> /\ rest' = Tail(rest) /\ ~EndsLine(h)
      /\ inputStream' = IF received[h] = "print" THEN Append(inputStream, h) ELSE inputStream
      /\ UNCHANGED <<received, inputPipe, workList, tmp, wasMaxLine, at, delivered, lost, cleared>>
  BY DEF AddByte, wireVars
<1>2. /\ Whole(inputStream) /\ Len(inputStream) <= MaxLineLen /\ Whole(rest)
      /\ received \in Seq(Kinds) /\ Len(received) \in Nat /\ cleared \in 0 .. Len(received)
      /\ InOrder(ToSet(inputStream), ToSet(rest), ToSet(inputPipe), lost, cleared,
                 Len(received), received)
  BY DEF BytesInv, StreamTypes, BytesInOrder
<1>3. /\ Whole(rest') /\ h \in Nat /\ ToSet(rest) = {h} \cup ToSet(rest')
      /\ \A y \in ToSet(rest') : h < y
  BY <1>1, <1>2, SetOfTail
<1>4. received[h] \in {"print", "other"} /\ Len(inputStream) # MaxLineLen
  <2>1. h \in 1 .. Len(received)
    BY <1>2, <1>3 DEF InOrder
  <2> HIDE DEF h
  <2>2. received[h] \in Kinds
    BY <1>2, <2>1
  <2> QED
    BY <1>1, <2>2 DEF EndsLine, Kinds
<1>5. \A y \in ToSet(inputStream) : y < h
  BY <1>2, <1>3 DEF InOrder
<1> HIDE DEF h
<1>6. /\ Whole(inputStream') /\ Len(inputStream') <= MaxLineLen
      /\ \/ ToSet(inputStream') = ToSet(inputStream) \cup {h}
         \/ ToSet(inputStream') = ToSet(inputStream) /\ received[h] = "other"
  <2>1. CASE received[h] = "print"
    <3>1. Len(inputStream) \in Nat
      BY <1>2 DEF Whole
    <3> QED
      BY <1>1, <1>2, <1>3, <1>4, <1>5, <2>1, <3>1, SetOfAppend, UartInputAssumption
  <2>2. CASE received[h] # "print"
    BY <1>1, <1>2, <1>4, <2>2
  <2> QED
    BY <2>1, <2>2
<1>7. StreamTypes'
  BY <1>1, <1>3, <1>6 DEF BytesInv, StreamTypes
<1>8. BytesInOrder'
  <2>1. /\ InOrder(ToSet(inputStream) \cup {h}, ToSet(rest'), ToSet(inputPipe), lost, cleared,
                   Len(received), received)
        /\ received[h] = "other" =>
             InOrder(ToSet(inputStream), ToSet(rest'), ToSet(inputPipe), lost, cleared,
                     Len(received), received)
    BY <1>2, <1>3, OrderOfByte
  <2> QED
    BY <1>1, <1>6, <2>1 DEF BytesInOrder
<1>9. LinesUnspliced'
  BY <1>1, LinesStay DEF BytesInv
<1> QED
  BY <1>7, <1>8, <1>9 DEF BytesInv

(* Bytes between two of the line are no part of it, or lost.               *)
LEMMA LineIsUnspliced ==
  ASSUME StreamTypes, BytesInOrder
  PROVE  Unspliced(inputStream)
<1> DEFINE S == ToSet(inputStream)
           n == Len(received)
<1>1. inputStream \in Seq(Nat) /\ Rising(inputStream) /\ n \in Nat /\ cleared \in 0 .. n
  BY DEF StreamTypes, Whole
<1>2. InOrder(S, ToSet(rest), ToSet(inputPipe), lost, cleared, n, received)
  BY DEF BytesInOrder
<1>3. \A i \in DOMAIN inputStream : inputStream[i] \in S
  BY DEF ToSet
<1> HIDE DEF n
<1>4. \A i \in DOMAIN inputStream : inputStream[i] \in 1 .. n
  BY <1>1, <1>2, <1>3 DEF InOrder
<1>5. ASSUME NEW j \in 1 .. Len(inputStream) - 1,
             NEW ch \in inputStream[j] + 1 .. inputStream[j + 1] - 1
      PROVE  received[ch] = "other" \/ ch \in lost
  <2> DEFINE x == inputStream[j]
             y == inputStream[j + 1]
  <2>1. j \in DOMAIN inputStream /\ j + 1 \in DOMAIN inputStream
    BY <1>1
  <2>2. x \in S /\ y \in S /\ x \in 1 .. n /\ y \in 1 .. n
    BY <1>3, <1>4, <2>1
  <2>3. x < ch /\ ch < y /\ ch \in 1 .. n
    BY <1>1, <2>2
  <2>4. ch \notin S
    <3> SUFFICES ASSUME ch \in S PROVE FALSE
      OBVIOUS
    <3>1. PICK i \in DOMAIN inputStream : ch = inputStream[i]
      BY DEF ToSet
    <3>2. i <= j \/ i >= j + 1
      BY <1>1, <2>1, <3>1
    <3>3. CASE i <= j
      <4>1. ch <= x
        BY <1>1, <2>1, <2>2, <3>1, <3>3 DEF Rising
      <4> QED
        BY <2>2, <2>3, <4>1
    <3>4. CASE i >= j + 1
      <4>1. i = j + 1 \/ i > j + 1
        BY <1>1, <2>1, <3>1, <3>4
      <4>2. CASE i = j + 1
        BY <2>2, <2>3, <3>1, <4>2
      <4>3. CASE i > j + 1
        <5>1. y < ch
          BY <1>1, <2>1, <3>1, <4>3 DEF Rising
        <5> QED
          BY <2>2, <2>3, <5>1
      <4> QED
        BY <4>1, <4>2, <4>3
    <3> QED
      BY <3>2, <3>3, <3>4
  <2>5. ch \notin ToSet(rest) \cup ToSet(inputPipe)
    <3>1. \A z \in ToSet(rest) \cup ToSet(inputPipe) : y < z
      BY <1>2, <2>2 DEF InOrder
    <3> HIDE DEF y
    <3> QED
      BY <2>2, <2>3, <3>1
  <2>6. ch \in S \cup ToSet(rest) \cup ToSet(inputPipe) \cup lost \/ received[ch] = "other"
    <3> HIDE DEF x, S
    <3> QED
      BY <1>2, <2>2, <2>3 DEF InOrder
  <2> QED
    BY <2>4, <2>5, <2>6
<1> QED
  BY <1>1, <1>4, <1>5 DEF Unspliced, n

LEMMA CallsKeepBytes ==
  ASSUME BytesInv, IdsInv,
         EndLine \/ CallbackReturns \/ \E id \in DOMAIN tmp : CallLineCallback(id)
  PROVE  BytesInv'
<1> USE DEF BytesInv
<1>1. CASE EndLine
  <2>1. \A id \in DOMAIN lineDist.cb : lineDist.cb[id] \in LineClients
    BY Members DEF IdsInv, Owned
  <2>2. StreamTypes'
    BY <1>1, <2>1 DEF EndLine, StreamTypes, wireVars
  <2>3. BytesInOrder'
    BY <1>1 DEF EndLine, BytesInOrder, wireVars
  <2> QED
    BY <1>1, <2>2, <2>3, LinesStay DEF EndLine, wireVars
<1>2. CASE CallbackReturns
  <2>1. StreamTypes'
    BY <1>2 DEF CallbackReturns, StreamTypes, wireVars
  <2>2. BytesInOrder'
    BY <1>2 DEF CallbackReturns, BytesInOrder, wireVars
  <2> QED
    BY <1>2, <2>1, <2>2, LinesStay DEF CallbackReturns, wireVars
<1>3. ASSUME NEW id \in DOMAIN tmp, CallLineCallback(id) PROVE BytesInv'
  <2> DEFINE listener == tmp[id]
  <2>1. listener \in LineClients
    BY DEF StreamTypes
  <2>2. UNCHANGED <<received, inputPipe, workList, inputStream, rest, wasMaxLine, lost, cleared>>
    BY <1>3 DEF CallLineCallback, wireVars
  <2>3. \A k \in DOMAIN tmp' : tmp'[k] \in LineClients
    BY <1>3 DEF CallLineCallback, Restrict, StreamTypes
  <2>4. at' \in {"bytes", "callbacks", "inside"}
    BY <1>3 DEF CallLineCallback, StreamTypes
  <2>5. StreamTypes' /\ BytesInOrder'
    BY <2>2, <2>3, <2>4 DEF StreamTypes, BytesInOrder
  <2>6. \/ UNCHANGED delivered
        \/ delivered' = [delivered EXCEPT ![listener] = Append(@, inputStream)]
    BY <1>3 DEF CallLineCallback
  <2>7. CASE UNCHANGED delivered
    BY <2>2, <2>5, <2>7, LinesStay
  <2>8. CASE delivered' = [delivered EXCEPT ![listener] = Append(@, inputStream)]
    <3> HIDE DEF listener
    <3>1. Unspliced(inputStream) /\ inputStream \in Seq(Nat)
      BY LineIsUnspliced DEF Unspliced
    <3>2. delivered[listener] \in Seq(Seq(Nat))
      BY <2>1 DEF LinesUnspliced
    <3>3. delivered' \in [LineClients -> Seq(Seq(Nat))]
      <4> DEFINE lines == Append(delivered[listener], inputStream)
      <4>1. lines \in Seq(Seq(Nat)) /\ delivered' = [delivered EXCEPT ![listener] = lines]
        BY <2>8, <3>1, <3>2
      <4> HIDE DEF lines
      <4> QED
        BY <4>1 DEF LinesUnspliced
    <3>4. ASSUME NEW l \in LineClients, NEW i \in DOMAIN delivered'[l]
          PROVE  Unspliced(delivered'[l][i])
      <4>1. CASE l # listener
        BY <2>8, <3>4, <4>1 DEF LinesUnspliced
      <4>2. CASE l = listener
        <5>1. delivered'[l] = Append(delivered[l], inputStream)
          BY <2>8, <4>2 DEF LinesUnspliced
        <5>2. i = Len(delivered[l]) + 1 \/ i \in DOMAIN delivered[l]
          BY <3>2, <3>4, <4>2, <5>1
        <5>3. CASE i = Len(delivered[l]) + 1
          BY <3>1, <3>2, <4>2, <5>1, <5>3
        <5>4. CASE i \in DOMAIN delivered[l]
          <6>1. delivered'[l][i] = delivered[l][i]
            BY <3>2, <4>2, <5>1, <5>4
          <6> QED
            BY <5>4, <6>1 DEF LinesUnspliced
        <5> QED
          BY <5>2, <5>3, <5>4
      <4> QED
        BY <4>1, <4>2
    <3>5. \A line : Unspliced(line)' <=> Unspliced(line)
      BY <2>2 DEF Unspliced
    <3>6. LinesUnspliced'
      BY <3>3, <3>4, <3>5 DEF LinesUnspliced
    <3> QED
      BY <2>5, <3>6
  <2> QED
    BY <2>6, <2>7, <2>8
<1> QED
  BY <1>1, <1>2, <1>3

(* AddData goes on after the line, or where the next may begin.            *)
LEMMA NextByteIs ==
  ASSUME rest \in Seq(Nat), rest # <<>>
  PROVE  NextByte \in 1 .. Len(rest) + 1
<1> DEFINE lineFeeds == {i \in DOMAIN rest : received[rest[i]] = "lf"}
<1>1. Len(rest) \in Nat /\ Len(rest) >= 1 /\ DOMAIN rest = 1 .. Len(rest)
  OBVIOUS
<1>2. CASE ~wasMaxLine \/ lineFeeds = {}
  BY <1>1, <1>2 DEF NextByte
<1>3. CASE wasMaxLine /\ lineFeeds # {}
  <2>1. lineFeeds \in SUBSET Nat
    BY <1>1
  <2>2. Min(lineFeeds) \in lineFeeds
    BY <1>3, <2>1, LeastIs
  <2>3. NextByte = Min(lineFeeds) + 1
    BY <1>3 DEF NextByte
  <2> QED
    BY <1>1, <2>2, <2>3
<1> QED
  BY <1>2, <1>3

LEMMA LineDoneKeepsBytes ==
  ASSUME BytesInv, LineDone
  PROVE  BytesInv'
<1>1. /\ inputStream' = <<>> /\ rest' = SubSeq(rest, NextByte, Len(rest)) /\ at' = "bytes"
      /\ wasMaxLine' = FALSE
      /\ UNCHANGED <<received, inputPipe, workList, tmp, delivered, lost, cleared>>
  BY DEF LineDone, wireVars
<1>2. /\ Whole(rest) /\ Len(received) \in Nat /\ cleared \in 0 .. Len(received)
      /\ InOrder(ToSet(inputStream), ToSet(rest), ToSet(inputPipe), lost, cleared,
                 Len(received), received)
  BY DEF BytesInv, StreamTypes, BytesInOrder
<1>3. Whole(inputStream') /\ Len(inputStream') <= MaxLineLen
  <2>1. Len(inputStream') = 0
    BY <1>1
  <2> QED
    BY <1>1, <2>1, SetOfNone, UartInputAssumption
<1>4. CASE rest = <<>>
  <2>1. NextByte \in Int /\ NextByte > 0
    <3>1. {i \in DOMAIN rest : received[rest[i]] = "lf"} = {}
      BY <1>4
    <3> QED
      BY <1>4, <3>1 DEF NextByte
  <2>2. rest' = <<>>
    BY <1>1, <1>4, <2>1
  <2>3. Whole(rest') /\ ToSet(rest') = {}
    BY <2>2, SetOfNone
  <2>4. StreamTypes'
    BY <1>1, <1>3, <2>3 DEF BytesInv, StreamTypes
  <2>5. InOrder({}, {}, ToSet(inputPipe), lost, cleared, Len(received), received)
    BY <1>2, OrderOfLine
  <2>6. BytesInOrder'
    BY <1>1, <2>3, <2>5, SetOfNone DEF BytesInOrder
  <2> QED
    BY <1>1, <2>4, <2>6, LinesStay DEF BytesInv
<1>5. CASE rest # <<>>
  <2>1. NextByte \in 1 .. Len(rest) + 1
    BY <1>2, <1>5, NextByteIs DEF Whole
  <2>2. /\ Whole(rest') /\ ToSet(rest') \subseteq ToSet(rest)
        /\ \A x \in ToSet(rest) \ ToSet(rest'), y \in ToSet(rest') : x < y
    BY <1>1, <1>2, <2>1, SetOfRest
  <2>3. StreamTypes'
    BY <1>1, <1>3, <2>2 DEF BytesInv, StreamTypes
  <2>4. InOrder({}, ToSet(rest'), ToSet(inputPipe), lost, cleared, Len(received), received)
    BY <1>2, <2>2, OrderOfLine
  <2>5. BytesInOrder'
    BY <1>1, <2>4, SetOfNone DEF BytesInOrder
  <2> QED
    BY <1>1, <2>3, <2>5, LinesStay DEF BytesInv
<1> QED
  BY <1>4, <1>5

LEMMA ClearKeepsBytes ==
  ASSUME BytesInv, UartClearRxBuffer
  PROVE  BytesInv'
<1>1. /\ inputPipe' = <<>> /\ inputStream' = <<>>
      /\ lost' = lost \cup ToSet(inputPipe) \cup ToSet(inputStream)
      /\ cleared' = IF Distributing THEN cleared ELSE Len(received)
      /\ UNCHANGED <<received, workList, rest, tmp, wasMaxLine, at, delivered>>
  BY DEF UartClearRxBuffer
<1>2. /\ Len(received) \in Nat /\ cleared \in 0 .. Len(received)
      /\ InOrder(ToSet(inputStream), ToSet(rest), ToSet(inputPipe), lost, cleared,
                 Len(received), received)
  BY DEF BytesInv, StreamTypes, BytesInOrder
<1>3. cleared' \in 0 .. Len(received)
  BY <1>1, <1>2
<1>4. Len(<<>>) = 0
  OBVIOUS
<1>5. StreamTypes'
  BY <1>1, <1>3, <1>4, SetOfNone, UartInputAssumption DEF BytesInv, StreamTypes
<1>6. /\ InOrder({}, ToSet(rest), {}, lost', cleared, Len(received), received)
      /\ InOrder({}, {}, {}, lost', Len(received), Len(received), received)
  BY <1>1, <1>2, OrderMoves
<1>7. BytesInOrder'
  <2>1. CASE Distributing
    BY <1>1, <1>6, <2>1, SetOfNone DEF BytesInOrder
  <2>2. CASE ~Distributing
    <3>1. rest = <<>>
      BY <2>2 DEF Distributing
    <3> QED
      BY <1>1, <1>6, <2>2, <3>1, SetOfNone DEF BytesInOrder
  <2> QED
    BY <2>1, <2>2
<1> QED
  BY <1>1, <1>5, <1>7, LinesStay DEF BytesInv

(* Whoever comes and goes changes nothing of the bytes.                    *)
LEMMA ListeningKeepsBytes ==
  ASSUME BytesInv, UNCHANGED <<received, inputPipe, addDataVars, lost, cleared>>,
         UNCHANGED workList \/ QueueLowPriorityWork("other")
  PROVE  BytesInv'
<1>1. UNCHANGED <<inputStream, rest, tmp, wasMaxLine, at, delivered>>
  BY DEF addDataVars
<1>2. workList' \in Seq({"uart", "other"}) /\ Len(workList') <= MAX_WORK_ITEMS
  BY QueueKeeps DEF BytesInv, StreamTypes
<1>3. StreamTypes' /\ BytesInOrder'
  BY <1>1, <1>2 DEF BytesInv, StreamTypes, BytesInOrder
<1> QED
  BY <1>1, <1>3, LinesStay DEF BytesInv

LEMMA BytesKept ==
  ASSUME IdsInv, BytesInv, [Next]_vars
  PROVE  BytesInv'
<1>1. CASE EvmStep
  BY <1>1, WorkKeepsBytes, AddByteKeepsBytes, CallsKeepBytes, LineDoneKeepsBytes DEF EvmStep
<1>2. CASE UartClearRxBuffer
  BY <1>2, ClearKeepsBytes
<1>3. CASE \/ \E l \in LineListeners : StartMonitoring(l) \/ StopMonitoring(l)
           \/ \E l \in RawListeners : StartMonitorForUbx(l) \/ StopMonitorForUbx(l)
           \/ UartSetLineStreamCallback
  <2>1. UNCHANGED <<received, inputPipe, workList, addDataVars, lost, cleared>>
    BY <1>3 DEF StartMonitoring, StopMonitoring, StartMonitorForUbx, StopMonitorForUbx,
       UartSetLineStreamCallback, wireVars
  <2> QED
    BY <2>1, ListeningKeepsBytes
<1>4. CASE QueueOtherWork
  BY <1>4, ListeningKeepsBytes DEF QueueOtherWork
<1>5. CASE \E kind \in Kinds : UartInterruptHandler(kind)
  BY <1>5, InterruptKeepsBytes
<1>6. CASE UNCHANGED vars
  BY <1>6, ListeningKeepsBytes DEF vars, wireVars
<1> QED
  BY <1>1, <1>2, <1>3, <1>4, <1>5, <1>6 DEF Next, Client

(* The state of the input keeps its types, and pipe, queue and line their  *)
(* bounds, for any sizes of these.                                         *)
THEOREM InputTypes == Spec => []TypeOK
<1>1. IdsInv /\ BytesInv => TypeOK
  <2> SUFFICES ASSUME IdsInv, BytesInv PROVE TypeOK
    OBVIOUS
  <2>1. ASSUME NEW s, Whole(s), ToSet(s) \subseteq 1 .. Len(received) PROVE s \in Seq(Bytes)
    <3>1. Len(received) \in Nat /\ Len(received) <= MaxReceived
      BY DEF BytesInv, StreamTypes
    <3>2. \A i \in 1 .. Len(s) : s[i] \in Bytes
      BY <2>1, <3>1, UartInputAssumption DEF Whole, ToSet, Bytes
    <3> QED
      BY <2>1, <3>2 DEF Whole
  <2>2. /\ ToSet(inputStream) \subseteq 1 .. Len(received)
        /\ ToSet(rest) \subseteq 1 .. Len(received)
        /\ ToSet(inputPipe) \subseteq 1 .. Len(received)
    BY DEF BytesInv, StreamTypes, BytesInOrder, InOrder
  <2>3. Range(dataDist.cb) \subseteq RawListeners \cup {LineDistributor}
    BY DEF IdsInv, Owned, Range, RawMembers
  <2>4. Range(lineDist.cb) \subseteq LineClients
    BY Members DEF IdsInv, Owned, Range
  <2>5. dataDist.ids \subseteq 0 .. CAPACITY - 1 /\ lineDist.ids \subseteq 0 .. CAPACITY - 1
    BY DEF IdsInv, Owned
  <2> QED
    BY <2>1, <2>2, <2>3, <2>4, <2>5 DEF TypeOK, BytesInv, StreamTypes
<1> QED
  BY <1>1, IdsStart, BytesStart, IdsKept, BytesKept, PTL DEF Spec

(* No line is made of two: between two bytes of a line nothing is missing  *)
(* but what is no part of one or was lost, for any sizes of pipe, queue    *)
(* and line, and wherever interrupts, callbacks and clearing come.         *)
THEOREM LinesAreNotSpliced == Spec => []LinesNotSpliced
<1>1. BytesInv => LinesNotSpliced
  BY DEF BytesInv, LinesUnspliced, Unspliced, LinesNotSpliced
<1> QED
  BY <1>1, IdsStart, BytesStart, IdsKept, BytesKept, PTL DEF Spec

(* What came before the buffers were cleared is never part of a line that  *)
(* is delivered after, unless a line callback did the clearing.            *)
THEOREM ClearedStaysGone == Spec => ClearedIsGone
<1> DEFINE Gone == \A l \in LineClients :
                     Len(delivered'[l]) > Len(delivered[l])
                       => \A ch \in ToSet(Last(delivered'[l])) : ch > cleared
<1>1. ASSUME BytesInv, [Next]_vars PROVE [Gone]_vars
  <2> SUFFICES ASSUME NEW l \in LineClients, Len(delivered'[l]) > Len(delivered[l])
               PROVE  \A ch \in ToSet(Last(delivered'[l])) : ch > cleared
    OBVIOUS
  <2>1. delivered[l] \in Seq(Seq(Nat)) /\ Len(delivered[l]) \in Nat
    BY <1>1 DEF BytesInv, LinesUnspliced
  <2>2. delivered' # delivered
    BY <2>1
  <2>3. PICK id \in DOMAIN tmp : CallLineCallback(id)
    BY <1>1, <2>2 DEF Next, EvmStep, Client, vars, addDataVars, ServiceWork, AddByte, EndLine,
       CallbackReturns, LineDone, UartClearRxBuffer, QueueOtherWork, UartInterruptHandler,
       StartMonitoring, StopMonitoring, StartMonitorForUbx, StopMonitorForUbx,
       UartSetLineStreamCallback
  <2>4. delivered' = [delivered EXCEPT ![tmp[id]] = Append(@, inputStream)]
    BY <2>2, <2>3 DEF CallLineCallback
  <2>5. l = tmp[id] /\ delivered'[l] = Append(delivered[l], inputStream)
    BY <1>1, <2>1, <2>4 DEF BytesInv, LinesUnspliced
  <2>6. inputStream \in Seq(Nat)
    BY <1>1 DEF BytesInv, StreamTypes, Whole
  <2>7. Last(delivered'[l]) = inputStream
    BY <2>1, <2>5, <2>6 DEF Last
  <2>8. \A ch \in ToSet(inputStream) : ch > cleared
    BY <1>1 DEF BytesInv, BytesInOrder, InOrder, StreamTypes
  <2> QED
    BY <2>7, <2>8
<1>2. IdsInv /\ BytesInv /\ [Next]_vars => [Gone]_vars
  BY <1>1
<1> HIDE DEF Gone
<1>3. Spec => [][Gone]_vars
  BY <1>2, IdsStart, BytesStart, IdsKept, BytesKept, PTL DEF Spec
<1> QED
  BY <1>3 DEF ClearedIsGone, Gone

-----------------------------------------------------------------------------
(* The lines of a stream.                                                  *)

NoLines == [lines |-> <<>>, line |-> <<>>]

(* What Split computes, of the first n bytes.                              *)
Splits(f, kinds, n) ==
  f = [k \in 0 .. n |-> IF k = 0 THEN NoLines ELSE SplitByte(f[k - 1], kinds[k], k)]

LEMMA SplitsUpTo ==
  ASSUME NEW kinds, NEW n \in Nat
  PROVE  \E f : Splits(f, kinds, n)
<1> DEFINE P(m) == \E f : Splits(f, kinds, m)
           Bad == {m \in Nat : ~P(m)}
<1>1. SUFFICES ASSUME Bad # {} PROVE FALSE
  <2>1. P(n)
    BY <1>1
  <2> QED
    BY <2>1
<1>2. PICK m \in Bad : \A x \in Bad : m <= x
  <2>1. Bad \subseteq Nat
    OBVIOUS
  <2> HIDE DEF Bad
  <2> QED
    BY <1>1, <2>1, LeastIs
<1>3. m \in Nat /\ ~P(m)
  BY <1>2
<1>4. m # 0
  <2> DEFINE f == [k \in 0 .. 0 |-> NoLines]
  <2>1. f = [k \in 0 .. 0 |-> IF k = 0 THEN NoLines ELSE SplitByte(f[k - 1], kinds[k], k)]
    OBVIOUS
  <2>2. P(0)
    BY <2>1 DEF Splits
  <2> QED
    BY <1>3, <2>2
<1>5. PICK f : Splits(f, kinds, m - 1)
  <2>1. m - 1 \in Nat /\ ~(m <= m - 1)
    BY <1>3, <1>4
  <2>2. P(m - 1)
    BY <1>2, <2>1
  <2> QED
    BY <2>2
<1> DEFINE g == [k \in 0 .. m |-> IF k < m THEN f[k] ELSE SplitByte(f[m - 1], kinds[m], m)]
<1>6. ASSUME NEW k \in 0 .. m
      PROVE  g[k] = IF k = 0 THEN NoLines ELSE SplitByte(g[k - 1], kinds[k], k)
  <2>1. k # 0 => k - 1 \in 0 .. m /\ k - 1 < m
    BY <1>3
  <2>2. CASE k < m
    <3>1. k \in 0 .. m - 1
      BY <1>3, <2>2
    <3>2. f[k] = IF k = 0 THEN NoLines ELSE SplitByte(f[k - 1], kinds[k], k)
      BY <1>5, <3>1 DEF Splits
    <3> QED
      BY <2>1, <2>2, <3>2
  <2>3. CASE k = m
    BY <1>3, <1>4, <2>1, <2>3
  <2> QED
    BY <2>2, <2>3, <1>3
<1>7. g = [k \in 0 .. m |-> g[k]]
  OBVIOUS
<1> HIDE DEF g
<1>8. Splits(g, kinds, m)
  BY <1>6, <1>7 DEF Splits
<1>9. P(m)
  BY <1>8
<1> QED
  BY <1>3, <1>9

LEMMA SplitIs ==
  ASSUME NEW kinds \in Seq(Kinds)
  PROVE  /\ Split(kinds)[0] = NoLines
         /\ \A n \in 1 .. Len(kinds) :
              Split(kinds)[n] = SplitByte(Split(kinds)[n - 1], kinds[n], n)
<1> DEFINE N == Len(kinds)
<1>1. N \in Nat
  OBVIOUS
<1> HIDE DEF N
<1>2. PICK f : Splits(f, kinds, N)
  BY <1>1, SplitsUpTo
<1>3. f = [k \in 0 .. N |-> IF k = 0 THEN NoLines ELSE SplitByte(f[k - 1], kinds[k], k)]
  BY <1>2 DEF Splits
<1> DEFINE s == CHOOSE g : g = [n \in 0 .. N |-> IF n = 0 THEN NoLines
                                                 ELSE SplitByte(g[n - 1], kinds[n], n)]
<1>4. s = [n \in 0 .. N |-> IF n = 0 THEN NoLines ELSE SplitByte(s[n - 1], kinds[n], n)]
  BY <1>3
<1>5. Split(kinds) = s
  BY DEF Split, N, NoLines
<1> HIDE DEF s
<1>6. s[0] = NoLines
  BY <1>1, <1>4
<1>7. ASSUME NEW n \in 1 .. N PROVE s[n] = SplitByte(s[n - 1], kinds[n], n)
  BY <1>1, <1>4
<1> QED
  BY <1>5, <1>6, <1>7 DEF N

(* A number of bytes is split the same whatever comes after them.          *)
LEMMA SplitStays ==
  ASSUME NEW kinds \in Seq(Kinds), NEW kind \in Kinds, NEW n \in 0 .. Len(kinds)
  PROVE  Split(Append(kinds, kind))[n] = Split(kinds)[n]
<1> DEFINE more == Append(kinds, kind)
           Bad == {k \in Nat : k <= Len(kinds) /\ Split(more)[k] # Split(kinds)[k]}
<1>1. more \in Seq(Kinds) /\ Len(more) = Len(kinds) + 1 /\ Len(kinds) \in Nat
      /\ \A k \in 1 .. Len(kinds) : more[k] = kinds[k]
  OBVIOUS
<1> HIDE DEF more
<1>2. SUFFICES ASSUME Bad # {} PROVE FALSE
  <2>1. n \in Nat /\ n <= Len(kinds)
    BY <1>1
  <2>2. Split(more)[n] = Split(kinds)[n]
    BY <1>2, <2>1
  <2> QED
    BY <2>2 DEF more
<1>3. PICK m \in Bad : \A x \in Bad : m <= x
  <2>1. Bad \subseteq Nat
    OBVIOUS
  <2> HIDE DEF Bad
  <2> QED
    BY <1>2, <2>1, LeastIs
<1>4. m \in Nat /\ m <= Len(kinds) /\ Split(more)[m] # Split(kinds)[m]
  BY <1>3
<1>5. m # 0
  BY <1>1, <1>4, SplitIs
<1>6. m \in 1 .. Len(kinds) /\ m \in 1 .. Len(more) /\ m - 1 \in Nat /\ m - 1 <= Len(kinds)
      /\ ~(m <= m - 1)
  BY <1>1, <1>4, <1>5
<1>7. Split(more)[m - 1] = Split(kinds)[m - 1]
  BY <1>3, <1>6
<1>8. /\ Split(more)[m] = SplitByte(Split(more)[m - 1], more[m], m)
      /\ Split(kinds)[m] = SplitByte(Split(kinds)[m - 1], kinds[m], m)
  BY <1>1, <1>6, SplitIs
<1> QED
  BY <1>1, <1>4, <1>6, <1>7, <1>8

SplitType == [lines : Seq(Seq(Nat)), line : Seq(Nat)]

LEMMA SplitTypes ==
  ASSUME NEW kinds \in Seq(Kinds), NEW n \in 0 .. Len(kinds)
  PROVE  Split(kinds)[n] \in SplitType
<1> DEFINE Bad == {k \in Nat : k <= Len(kinds) /\ Split(kinds)[k] \notin SplitType}
<1>1. SUFFICES ASSUME Bad # {} PROVE FALSE
  <2>1. n \in Nat /\ n <= Len(kinds)
    OBVIOUS
  <2> QED
    BY <1>1, <2>1
<1>2. PICK m \in Bad : \A x \in Bad : m <= x
  <2>1. Bad \subseteq Nat
    OBVIOUS
  <2> HIDE DEF Bad
  <2> QED
    BY <1>1, <2>1, LeastIs
<1>3. m \in Nat /\ m <= Len(kinds) /\ Split(kinds)[m] \notin SplitType
  BY <1>2
<1>4. m # 0
  <2>1. <<>> \in Seq(Seq(Nat)) /\ <<>> \in Seq(Nat)
    OBVIOUS
  <2>2. NoLines \in SplitType
    BY <2>1 DEF SplitType, NoLines
  <2> QED
    BY <1>3, <2>2, SplitIs
<1>5. m \in 1 .. Len(kinds) /\ m - 1 \in Nat /\ m - 1 <= Len(kinds) /\ ~(m <= m - 1)
  BY <1>3, <1>4
<1> DEFINE before == Split(kinds)[m - 1]
<1>6. before \in SplitType
  BY <1>2, <1>5
<1>7. Split(kinds)[m] = SplitByte(before, kinds[m], m) /\ kinds[m] \in Kinds
  BY <1>5, SplitIs
<1> HIDE DEF before
<1>8. SplitByte(before, kinds[m], m) \in SplitType
  <2>1. CASE kinds[m] \in {"lf", "cr"}
    BY <1>6, <2>1 DEF SplitByte, SplitType
  <2>2. CASE kinds[m] = "print"
    <3>1. SplitByte(before, kinds[m], m) = [before EXCEPT !.line = Append(@, m)]
      BY <2>2 DEF SplitByte
    <3>2. Append(before.line, m) \in Seq(Nat)
      BY <1>3, <1>6 DEF SplitType
    <3> QED
      BY <1>6, <3>1, <3>2 DEF SplitType
  <2>3. CASE kinds[m] = "other"
    BY <1>6, <2>3 DEF SplitByte
  <2> QED
    BY <1>7, <2>1, <2>2, <2>3 DEF Kinds
<1> QED
  BY <1>3, <1>7, <1>8

-----------------------------------------------------------------------------
(* What the shell gets.                                                    *)

(* How many bytes AddData has taken, when none was lost.                   *)
Taken == Len(received) - Len(inputPipe) - Len(rest)

(* Is no line as long as lines get?                                        *)
IsShort(split) ==
  /\ \A i \in DOMAIN split.lines : Len(split.lines[i]) < MaxLineLen
  /\ Len(split.line) < MaxLineLen

(* The shell listens by one id, and is called by it.                       *)
ShellListens ==
  /\ idOf[Shell] # 0
  /\ at # "bytes" => /\ rest # <<>>
                     /\ \A id \in DOMAIN tmp : tmp[id] = Shell <=> id = idOf[Shell]

(* AddData, and then the pipe, have the last bytes that came.              *)
NoneMissing ==
  /\ Taken >= 0
  /\ \A i \in DOMAIN rest : rest[i] = Taken + i
  /\ \A i \in DOMAIN inputPipe : inputPipe[i] = Taken + Len(rest) + i

(* The shell has been called with the lines that ended, and with the one   *)
(* that is ending if it is not among those still to be called.             *)
ShellFollows(split) ==
  /\ inputStream = split.line
  /\ IF at = "bytes" THEN delivered[Shell] = split.lines
     ELSE /\ received[Taken + 1] \in {"lf", "cr"} /\ ~wasMaxLine
          /\ delivered[Shell] = IF idOf[Shell] \in DOMAIN tmp THEN split.lines
                                ELSE Append(split.lines, split.line)

ShellUpToDate == IsShort(Split(received)[Taken]) => ShellFollows(Split(received)[Taken])

ShellInv == ShellListens /\ (lost = {} => NoneMissing /\ ShellUpToDate)

(* A line that gets too long has been short before.                        *)
LEMMA ShortBefore ==
  ASSUME NEW kinds \in Seq(Kinds), NEW m \in 0 .. Len(kinds), NEW n \in 0 .. m,
         IsShort(Split(kinds)[m])
  PROVE  IsShort(Split(kinds)[n])
<1>1. ASSUME NEW k \in 1 .. Len(kinds), IsShort(Split(kinds)[k])
      PROVE  IsShort(Split(kinds)[k - 1])
  <2> DEFINE s == Split(kinds)[k - 1]
             t == Split(kinds)[k]
  <2>1. k - 1 \in 0 .. Len(kinds) /\ k \in Nat /\ kinds[k] \in Kinds
    OBVIOUS
  <2>2. s \in SplitType
    BY <2>1, SplitTypes
  <2>3. t = SplitByte(s, kinds[k], k)
    BY SplitIs
  <2>4. s.lines \in Seq(Seq(Nat)) /\ s.line \in Seq(Nat) /\ Len(s.line) \in Nat
    BY <2>2 DEF SplitType
  <2>5. MaxLineLen \in Nat
    BY UartInputAssumption
  <2>6. (\A i \in DOMAIN t.lines : Len(t.lines[i]) < MaxLineLen) /\ Len(t.line) < MaxLineLen
    BY <1>1 DEF IsShort
  <2> HIDE DEF s, t
  <2>7. CASE kinds[k] \in {"lf", "cr"}
    <3>1. t.lines = Append(s.lines, s.line)
      BY <2>3, <2>7 DEF SplitByte
    <3>2. /\ Append(s.lines, s.line)[Len(s.lines) + 1] = s.line
          /\ Len(s.lines) + 1 \in DOMAIN Append(s.lines, s.line)
          /\ \A i \in DOMAIN s.lines : /\ i \in DOMAIN Append(s.lines, s.line)
                                       /\ Append(s.lines, s.line)[i] = s.lines[i]
      BY <2>4
    <3>3. IsShort(s)
      BY <2>6, <3>1, <3>2 DEF IsShort
    <3> QED
      BY <3>3 DEF s
  <2>8. CASE kinds[k] = "print"
    <3>1. t = [s EXCEPT !.line = Append(@, k)]
      BY <2>3, <2>8 DEF SplitByte
    <3>2. t.lines = s.lines /\ t.line = Append(s.line, k)
      BY <2>2, <3>1 DEF SplitType
    <3>3. Len(s.line) < MaxLineLen
      BY <2>1, <2>4, <2>5, <2>6, <3>2
    <3>4. IsShort(s)
      BY <2>6, <3>2, <3>3 DEF IsShort
    <3> QED
      BY <3>4 DEF s
  <2>9. CASE kinds[k] = "other"
    <3>1. t = s
      BY <2>3, <2>9 DEF SplitByte
    <3> QED
      BY <1>1, <3>1 DEF s, t
  <2> QED
    BY <2>1, <2>7, <2>8, <2>9 DEF Kinds
<1> DEFINE Bad == {d \in Nat : d <= m /\ ~IsShort(Split(kinds)[m - d])}
<1>2. SUFFICES ASSUME Bad # {} PROVE FALSE
  <2>1. m - n \in Nat /\ m - n <= m /\ m - (m - n) = n
    OBVIOUS
  <2> QED
    BY <1>2, <2>1
<1>3. PICK d \in Bad : \A x \in Bad : d <= x
  <2>1. Bad \subseteq Nat
    OBVIOUS
  <2> HIDE DEF Bad
  <2> QED
    BY <1>2, <2>1, LeastIs
<1>4. d \in Nat /\ d <= m /\ ~IsShort(Split(kinds)[m - d])
  BY <1>3
<1>5. d # 0
  BY <1>4
<1>6. d - 1 \in Nat /\ d - 1 <= m /\ ~(d <= d - 1)
  BY <1>4, <1>5
<1>7. IsShort(Split(kinds)[m - (d - 1)])
  BY <1>3, <1>6
<1>8. m - (d - 1) \in 1 .. Len(kinds) /\ (m - (d - 1)) - 1 = m - d
  BY <1>4, <1>6
<1> HIDE DEF Bad
<1> QED
  BY <1>1, <1>4, <1>7, <1>8

LEMMA ShellStart == Init => ShellInv
<1> SUFFICES ASSUME Init PROVE ShellInv
  OBVIOUS
<1>1. received = <<>> /\ inputPipe = <<>> /\ rest = <<>> /\ inputStream = <<>> /\ at = "bytes"
      /\ lost = {}
  BY DEF Init
<1>2. Shell \in Listeners /\ Shell \in LineClients
  BY DEF Listeners, LineClients
<1>3. idOf[Shell] = 1 /\ delivered[Shell] = <<>>
  BY <1>2 DEF Init
<1>4. Taken = 0 /\ received \in Seq(Kinds)
  <2>1. Len(<<>>) = 0 /\ <<>> \in Seq(Kinds)
    OBVIOUS
  <2>2. Len(received) = 0 /\ Len(inputPipe) = 0 /\ Len(rest) = 0 /\ received \in Seq(Kinds)
    BY <1>1, <2>1
  <2>3. Taken = 0 - 0 - 0
    BY <2>2 DEF Taken
  <2> QED
    BY <2>2, <2>3
<1>5. Split(received)[Taken] = NoLines
  BY <1>4, SplitIs
<1>6. ShellUpToDate
  BY <1>1, <1>3, <1>5 DEF ShellUpToDate, ShellFollows, NoLines
<1>7. NoneMissing
  BY <1>1, <1>4 DEF NoneMissing
<1> QED
  BY <1>1, <1>3, <1>6, <1>7 DEF ShellInv, ShellListens

(* What is not lost after a step was not lost before.                      *)
LEMMA LostStays ==
  ASSUME [Next]_vars
  PROVE  lost \subseteq lost'
BY DEF Next, EvmStep, Client, vars, ServiceWork, AddByte, EndLine, CallLineCallback,
   CallbackReturns, LineDone, UartClearRxBuffer, QueueOtherWork, UartInterruptHandler,
   StartMonitoring, StopMonitoring, StartMonitorForUbx, StopMonitorForUbx,
   UartSetLineStreamCallback

(* The shell never gives its id back, and all who listen are called.       *)
LEMMA ListeningKept ==
  ASSUME IdsInv, ShellListens, [Next]_vars
  PROVE  ShellListens' /\ idOf'[Shell] = idOf[Shell]
<1>1. Shell \in LineMembers /\ Shell \in Listeners /\ Application # Shell
      /\ Shell \notin LineListeners /\ Shell \notin RawListeners
  BY UartInputAssumption DEF LineMembers, Listeners
<1>2. idOf'[Shell] = idOf[Shell]
  <2>1. \/ UNCHANGED idOf
        \/ \E l \in LineListeners \cup RawListeners : \E id : idOf' = [idOf EXCEPT ![l] = id]
    BY DEF Next, EvmStep, Client, vars, listenVars, ServiceWork, AddByte, EndLine,
       CallLineCallback, CallbackReturns, LineDone, UartClearRxBuffer, QueueOtherWork,
       UartInterruptHandler, StartMonitoring, StopMonitoring, StartMonitorForUbx,
       StopMonitorForUbx, UartSetLineStreamCallback
  <2> QED
    BY <1>1, <2>1 DEF IdsInv
<1>3. CASE UNCHANGED <<at, tmp, rest>>
  BY <1>2, <1>3 DEF ShellListens
<1>4. CASE EndLine
  <2>1. tmp' = lineDist.cb /\ rest' # <<>>
    BY <1>4 DEF EndLine
  <2>2. \A id \in DOMAIN lineDist.cb : lineDist.cb[id] = Shell <=> id = idOf[Shell]
    BY <1>1 DEF IdsInv, Owned, ShellListens
  <2> QED
    BY <1>2, <2>1, <2>2 DEF ShellListens
<1>5. ASSUME NEW id \in DOMAIN tmp, CallLineCallback(id) PROVE ShellListens'
  <2>1. tmp' = Restrict(tmp, DOMAIN tmp \ {id}) /\ UNCHANGED rest /\ at # "bytes"
    BY <1>5 DEF CallLineCallback
  <2>2. DOMAIN tmp' = DOMAIN tmp \ {id} /\ \A i \in DOMAIN tmp' : tmp'[i] = tmp[i]
    BY <2>1 DEF Restrict
  <2> QED
    BY <1>2, <2>1, <2>2 DEF ShellListens
<1>6. CASE CallbackReturns
  BY <1>2, <1>6 DEF CallbackReturns, ShellListens
<1>7. CASE at' = "bytes"
  BY <1>2, <1>7 DEF ShellListens
<1>8. \/ UNCHANGED <<at, tmp, rest>> \/ EndLine \/ CallbackReturns \/ at' = "bytes"
      \/ \E id \in DOMAIN tmp : CallLineCallback(id)
  BY DEF Next, EvmStep, Client, vars, addDataVars, ServiceWork, AddByte, LineDone, Distributing,
     UartClearRxBuffer, QueueOtherWork, UartInterruptHandler, StartMonitoring,
     StopMonitoring, StartMonitorForUbx, StopMonitorForUbx, UartSetLineStreamCallback
<1> QED
  BY <1>2, <1>3, <1>4, <1>5, <1>6, <1>7, <1>8

(* Where the bytes are, as numbers.                                        *)
LEMMA Places ==
  ASSUME BytesInv
  PROVE  /\ received \in Seq(Kinds) /\ inputPipe \in Seq(Nat) /\ rest \in Seq(Nat)
         /\ inputStream \in Seq(Nat) /\ Len(inputStream) <= MaxLineLen
         /\ Len(received) \in Nat /\ Len(inputPipe) \in Nat /\ Len(rest) \in Nat
         /\ Taken \in Int /\ Taken <= Len(received) - Len(rest)
         /\ (NoneMissing => Taken \in 0 .. Len(received))
         /\ (NoneMissing /\ rest # <<>> => Taken + 1 \in 1 .. Len(received)
                                            /\ Head(rest) = Taken + 1)
<1>1. /\ received \in Seq(Kinds) /\ inputPipe \in Seq(Nat) /\ rest \in Seq(Nat)
      /\ inputStream \in Seq(Nat) /\ Len(inputStream) <= MaxLineLen
      /\ Len(received) \in Nat /\ Len(inputPipe) \in Nat /\ Len(rest) \in Nat
  BY DEF BytesInv, StreamTypes, Whole
<1>2. Taken \in Int /\ Taken <= Len(received) - Len(rest)
      /\ (NoneMissing => Taken \in 0 .. Len(received))
  BY <1>1 DEF Taken, NoneMissing
<1>3. ASSUME NoneMissing, rest # <<>>
      PROVE  Taken + 1 \in 1 .. Len(received) /\ Head(rest) = Taken + 1
  <2>1. Len(rest) >= 1 /\ 1 \in DOMAIN rest /\ Head(rest) = rest[1]
    BY <1>1, <1>3
  <2>2. rest[1] = Taken + 1
    BY <1>3, <2>1 DEF NoneMissing
  <2> QED
    BY <1>1, <1>2, <1>3, <2>1, <2>2
<1> QED
  BY <1>1, <1>2, <1>3

(* Steps that have nothing to do with the shell's bytes.                   *)
LEMMA OthersKeepShell ==
  ASSUME NoneMissing, ShellUpToDate, UNCHANGED <<received, inputPipe, rest, inputStream>>,
         UNCHANGED <<tmp, wasMaxLine, at, delivered>>, idOf'[Shell] = idOf[Shell]
  PROVE  NoneMissing' /\ ShellUpToDate'
<1>1. Taken' = Taken
  BY DEF Taken
<1>2. NoneMissing'
  BY <1>1 DEF NoneMissing
<1>3. ShellUpToDate'
  BY <1>1 DEF ShellUpToDate, IsShort, ShellFollows
<1> QED
  BY <1>2, <1>3

(* A byte comes: it is the next, for whoever takes it.                     *)
LEMMA ArrivalKeepsShell ==
  ASSUME BytesInv, ShellListens, NoneMissing, ShellUpToDate, idOf'[Shell] = idOf[Shell],
         lost' = {}, NEW kind \in Kinds, UartInterruptHandler(kind)
  PROVE  NoneMissing' /\ ShellUpToDate'
<1> DEFINE n == Len(received)
<1>1. /\ received \in Seq(Kinds) /\ n \in Nat /\ inputPipe \in Seq(Nat)
      /\ Len(inputPipe) \in Nat /\ Len(rest) \in Nat /\ Taken \in 0 .. n
      /\ (rest # <<>> => Taken + 1 \in 1 .. n)
  BY Places
<1>2. received' = Append(received, kind) /\ inputPipe' = Append(inputPipe, n + 1)
      /\ UNCHANGED <<rest, inputStream, tmp, wasMaxLine, at, delivered>>
  <2>1. DOMAIN dataDist.cb # {} /\ Len(inputPipe) < PipeSize
    BY DEF UartInterruptHandler
  <2> QED
    BY <2>1 DEF UartInterruptHandler, Put, addDataVars
<1>3. /\ Len(received') = n + 1 /\ Len(inputPipe') = Len(inputPipe) + 1
      /\ \A i \in 1 .. n : received'[i] = received[i]
      /\ \A i \in DOMAIN inputPipe' : i \in DOMAIN inputPipe \/ i = Len(inputPipe) + 1
      /\ inputPipe'[Len(inputPipe) + 1] = n + 1
      /\ \A i \in DOMAIN inputPipe : inputPipe'[i] = inputPipe[i]
  BY <1>1, <1>2
<1>4. Taken' = Taken
  BY <1>1, <1>2, <1>3 DEF Taken
<1>5. n + 1 = Taken + Len(rest) + (Len(inputPipe) + 1)
  BY <1>1 DEF Taken
<1>6. NoneMissing'
  <2> HIDE DEF n
  <2>1. \A i \in DOMAIN inputPipe' : inputPipe'[i] = Taken + Len(rest) + i
    <3> TAKE i \in DOMAIN inputPipe'
    <3>1. CASE i \in DOMAIN inputPipe
      <4>1. inputPipe'[i] = inputPipe[i]
        BY <1>3, <3>1
      <4> QED
        BY <3>1, <4>1 DEF NoneMissing
    <3>2. CASE i = Len(inputPipe) + 1
      <4>1. inputPipe'[i] = n + 1
        BY <1>3, <3>2
      <4> QED
        BY <1>5, <3>2, <4>1
    <3> QED
      BY <1>3, <3>1, <3>2
  <2> QED
    BY <1>2, <1>4, <2>1 DEF NoneMissing
<1>7. Split(received')[Taken'] = Split(received)[Taken]
  BY <1>1, <1>2, <1>4, SplitStays
<1>8. at # "bytes" => received'[Taken' + 1] = received[Taken + 1]
  BY <1>1, <1>3, <1>4 DEF ShellListens
<1>9. ShellUpToDate'
  BY <1>2, <1>7, <1>8 DEF ShellUpToDate, IsShort, ShellFollows
<1> QED
  BY <1>6, <1>9

(* The work hands all of the pipe to AddData, or finds it empty.           *)
LEMMA WorkKeepsShell ==
  ASSUME BytesInv, NoneMissing, ShellUpToDate, idOf'[Shell] = idOf[Shell], lost' = {},
         ServiceWork
  PROVE  NoneMissing' /\ ShellUpToDate'
<1>1. rest = <<>> /\ UNCHANGED <<received, inputStream, tmp, wasMaxLine, at, delivered>>
      /\ at = "bytes"
  BY DEF ServiceWork, Distributing
<1>2. \/ UNCHANGED <<inputPipe, rest>>
      \/ rest' = inputPipe /\ inputPipe' = <<>>
  <2>1. inputPipe # <<>> => ToSet(inputPipe) # {}
    <3>1. inputPipe # <<>> => 1 \in DOMAIN inputPipe
      BY Places
    <3> QED
      BY <3>1 DEF ToSet
  <2> QED
    BY <2>1 DEF ServiceWork
<1>3. CASE UNCHANGED <<inputPipe, rest>>
  BY <1>1, <1>3, OthersKeepShell
<1>4. CASE rest' = inputPipe /\ inputPipe' = <<>>
  <2>1. Len(rest) = 0 /\ Len(inputPipe') = 0
    BY <1>1, <1>4
  <2>2. Taken' = Taken
    BY <1>1, <1>4, <2>1, Places DEF Taken
  <2>3. \A i \in DOMAIN inputPipe : inputPipe[i] = Taken + i
    BY <2>1, Places DEF NoneMissing
  <2>4. NoneMissing'
    BY <1>4, <2>2, <2>3 DEF NoneMissing
  <2>5. ShellUpToDate'
    BY <1>1, <2>2 DEF ShellUpToDate, IsShort, ShellFollows
  <2> QED
    BY <2>4, <2>5
<1> QED
  BY <1>2, <1>3, <1>4

(* What AddData is done with is the first of what it had.                  *)
LEMMA TakenMoves ==
  ASSUME BytesInv, NoneMissing, NEW k \in 1 .. Len(rest) + 1,
         rest' = SubSeq(rest, k, Len(rest)), UNCHANGED <<received, inputPipe>>
  PROVE  NoneMissing' /\ Taken' = Taken + k - 1 /\ Taken' \in 0 .. Len(received)
<1>1. /\ rest \in Seq(Nat) /\ Len(rest) \in Nat /\ Len(received) \in Nat
      /\ Len(inputPipe) \in Nat /\ Taken \in Int /\ Taken <= Len(received) - Len(rest)
      /\ Taken >= 0
  BY Places DEF NoneMissing
<1>2. Len(rest') = Len(rest) - k + 1 /\ DOMAIN rest' = 1 .. Len(rest) - k + 1
      /\ \A i \in 1 .. Len(rest) - k + 1 : rest'[i] = rest[i + k - 1]
  BY <1>1
<1>3. Taken' = Taken + k - 1 /\ Taken' \in 0 .. Len(received)
  BY <1>1, <1>2 DEF Taken
<1>4. Taken' + Len(rest') = Taken + Len(rest)
  BY <1>1, <1>2, <1>3
<1>5. \A i \in DOMAIN rest' : rest'[i] = Taken' + i
  <2> TAKE i \in DOMAIN rest'
  <2> DEFINE j == i + k - 1
  <2>1. i \in Int /\ i >= 1 /\ i <= Len(rest) - k + 1 /\ k \in Int /\ k >= 1 /\ rest'[i] = rest[j]
    BY <1>1, <1>2
  <2>2. j \in 1 .. Len(rest)
    BY <1>1, <2>1
  <2>3. Taken + j = Taken' + i
    BY <1>1, <1>3, <2>1
  <2>4. DOMAIN rest = 1 .. Len(rest)
    BY <1>1
  <2> HIDE DEF j
  <2> QED
    BY <2>1, <2>2, <2>3, <2>4 DEF NoneMissing
<1>6. \A i \in DOMAIN inputPipe' : inputPipe'[i] = Taken' + Len(rest') + i
  BY <1>4 DEF NoneMissing
<1> QED
  BY <1>3, <1>5, <1>6 DEF NoneMissing

(* Any part of a line has been taken in, as the text says.                 *)
LEMMA AddByteKeepsShell ==
  ASSUME BytesInv, NoneMissing, ShellUpToDate, AddByte
  PROVE  NoneMissing' /\ ShellUpToDate'
<1> DEFINE h == Taken + 1
           s == Split(received)[Taken]
<1>1. /\ at = "bytes" /\ rest # <<>> /\ rest' = Tail(rest) /\ ~EndsLine(Head(rest))
      /\ inputStream' = IF received[Head(rest)] = "print" THEN Append(inputStream, Head(rest))
                        ELSE inputStream
      /\ UNCHANGED <<received, inputPipe, tmp, wasMaxLine, at, delivered>>
  BY DEF AddByte, wireVars
<1>2. /\ received \in Seq(Kinds) /\ Len(received) \in Nat /\ rest \in Seq(Nat)
      /\ Head(rest) = h /\ h \in 1 .. Len(received) /\ Taken \in 0 .. Len(received)
  BY <1>1, Places
<1>3. NoneMissing' /\ Taken' = h
  <2>1. 2 \in 1 .. Len(rest) + 1 /\ rest' = SubSeq(rest, 2, Len(rest))
    BY <1>1, <1>2
  <2> QED
    BY <1>1, <1>2, <2>1, TakenMoves
<1>4. Split(received)[h] = SplitByte(s, received[h], h)
  BY <1>2, SplitIs
<1>5. s \in SplitType
  BY <1>2, SplitTypes
<1>6. received[h] \in {"print", "other"}
  <2>1. received[h] \in Kinds
    BY <1>2
  <2> QED
    BY <1>1, <1>2, <2>1 DEF EndsLine, Kinds
<1> HIDE DEF s
<1>7. ASSUME IsShort(Split(received)[h])
      PROVE  ShellFollows(s)
  <2>1. IsShort(Split(received)[Taken])
    BY <1>2, <1>7, ShortBefore
  <2> QED
    BY <2>1 DEF ShellUpToDate, s
<1>8. SplitByte(s, received[h], h).lines = s.lines
      /\ SplitByte(s, received[h], h).line = IF received[h] = "print" THEN Append(s.line, h)
                                              ELSE s.line
  BY <1>5, <1>6 DEF SplitByte, SplitType
<1>9. ASSUME IsShort(Split(received)[h])
      PROVE  /\ inputStream' = Split(received)[h].line
             /\ delivered'[Shell] = Split(received)[h].lines
  BY <1>1, <1>2, <1>4, <1>7, <1>8, <1>9 DEF ShellFollows
<1> HIDE DEF h
<1>10. ShellUpToDate'
  BY <1>1, <1>3, <1>9 DEF ShellUpToDate, ShellFollows, IsShort
<1> QED
  BY <1>3, <1>10

(* A line ends, and all who listen are to be called with it.               *)
LEMMA EndLineKeepsShell ==
  ASSUME IdsInv, BytesInv, ShellListens, NoneMissing, ShellUpToDate, EndLine
  PROVE  NoneMissing' /\ ShellUpToDate'
<1> DEFINE s == Split(received)[Taken]
<1>1. /\ at = "bytes" /\ rest # <<>> /\ EndsLine(Head(rest)) /\ tmp' = lineDist.cb
      /\ wasMaxLine' = (Len(inputStream) = MaxLineLen) /\ at' = "callbacks"
      /\ UNCHANGED <<received, inputPipe, idOf, inputStream, rest, delivered>>
  BY DEF EndLine, wireVars, listenVars
<1>2. Taken' = Taken /\ NoneMissing'
  BY <1>1 DEF Taken, NoneMissing
<1>3. Head(rest) = Taken + 1 /\ Taken \in 0 .. Len(received) /\ received \in Seq(Kinds)
  BY <1>1, Places
<1>4. idOf[Shell] \in DOMAIN tmp'
  BY <1>1 DEF IdsInv, Owned, ShellListens, LineMembers
<1>5. s \in SplitType
  BY <1>3, SplitTypes
<1> HIDE DEF s
<1>6. ASSUME IsShort(s) PROVE ShellFollows(s)'
  <2>1. inputStream = s.line /\ delivered[Shell] = s.lines
    BY <1>1, <1>6 DEF ShellUpToDate, ShellFollows, s
  <2>2. Len(inputStream) # MaxLineLen
    BY <1>5, <1>6, <2>1, UartInputAssumption DEF IsShort, SplitType
  <2>3. received[Taken + 1] \in {"lf", "cr"} /\ ~wasMaxLine'
    BY <1>1, <1>3, <2>2 DEF EndsLine
  <2> QED
    BY <1>1, <1>2, <1>4, <2>1, <2>3 DEF ShellFollows, s
<1>7. s' = s
  BY <1>1, <1>2 DEF s
<1> QED
  BY <1>2, <1>6, <1>7 DEF ShellUpToDate, IsShort, s

(* One is called with it, the shell too when it is blank.                  *)
LEMMA CallKeepsShell ==
  ASSUME BytesInv, ShellListens, NoneMissing, ShellUpToDate, idOf'[Shell] = idOf[Shell],
         NEW id \in DOMAIN tmp, CallLineCallback(id)
  PROVE  NoneMissing' /\ ShellUpToDate'
<1> DEFINE s == Split(received)[Taken]
           listener == tmp[id]
           wanted == inputStream # <<>> \/ listener \notin HidesBlanks
<1>1. /\ at # "bytes" /\ at' # "bytes" /\ tmp' = Restrict(tmp, DOMAIN tmp \ {id})
      /\ delivered' = IF wanted THEN [delivered EXCEPT ![listener] = Append(@, inputStream)]
                      ELSE delivered
      /\ UNCHANGED <<received, inputPipe, inputStream, rest, wasMaxLine>>
  BY DEF CallLineCallback, wireVars
<1>2. DOMAIN tmp' = DOMAIN tmp \ {id}
  BY <1>1 DEF Restrict
<1>3. Taken' = Taken /\ NoneMissing'
  BY <1>1 DEF Taken, NoneMissing
<1>4. listener = Shell <=> id = idOf[Shell]
  BY <1>1 DEF ShellListens
<1>5. Shell \in LineClients /\ delivered \in [LineClients -> Seq(Seq(Nat))]
  BY DEF LineClients, BytesInv, LinesUnspliced
<1>6. Shell \notin HidesBlanks
  BY UartInputAssumption
<1> HIDE DEF s
<1>7. ASSUME IsShort(s) PROVE ShellFollows(s)'
  <2>1. /\ inputStream = s.line /\ received[Taken + 1] \in {"lf", "cr"} /\ ~wasMaxLine
        /\ delivered[Shell] = IF idOf[Shell] \in DOMAIN tmp THEN s.lines
                              ELSE Append(s.lines, s.line)
    BY <1>1, <1>7 DEF ShellUpToDate, ShellFollows, s
  <2>2. CASE id = idOf[Shell]
    <3>1. delivered'[Shell] = Append(s.lines, s.line)
      BY <1>1, <1>4, <1>5, <1>6, <2>1, <2>2
    <3>2. idOf'[Shell] \notin DOMAIN tmp'
      BY <1>2, <2>2
    <3> QED
      BY <1>1, <1>3, <2>1, <3>1, <3>2 DEF ShellFollows, s
  <2>3. CASE id # idOf[Shell]
    <3>1. delivered'[Shell] = delivered[Shell]
      BY <1>1, <1>4, <1>5, <2>3
    <3>2. idOf'[Shell] \in DOMAIN tmp' <=> idOf[Shell] \in DOMAIN tmp
      BY <1>2, <2>3
    <3> QED
      BY <1>1, <1>3, <2>1, <3>1, <3>2 DEF ShellFollows, s
  <2> QED
    BY <2>2, <2>3
<1>8. s' = s
  BY <1>1, <1>3 DEF s
<1> QED
  BY <1>3, <1>7, <1>8 DEF ShellUpToDate, IsShort, s

LEMMA ReturnKeepsShell ==
  ASSUME NoneMissing, ShellUpToDate, CallbackReturns
  PROVE  NoneMissing' /\ ShellUpToDate'
<1>1. /\ at = "inside" /\ at' = "callbacks"
      /\ UNCHANGED <<received, inputPipe, rest, inputStream, tmp, wasMaxLine, delivered, idOf>>
  BY DEF CallbackReturns, wireVars, listenVars
<1>2. Taken' = Taken
  BY <1>1 DEF Taken
<1>3. NoneMissing'
  BY <1>1, <1>2 DEF NoneMissing
<1>4. ShellUpToDate'
  BY <1>1, <1>2 DEF ShellUpToDate, IsShort, ShellFollows
<1> QED
  BY <1>3, <1>4

(* All have been called with the line.                                     *)
LEMMA LineDoneKeepsShell ==
  ASSUME BytesInv, ShellListens, NoneMissing, ShellUpToDate, LineDone
  PROVE  NoneMissing' /\ ShellUpToDate'
<1> DEFINE h == Taken + 1
           s == Split(received)[Taken]
<1>1. /\ at = "callbacks" /\ DOMAIN tmp = {} /\ inputStream' = <<>> /\ at' = "bytes"
      /\ rest' = SubSeq(rest, NextByte, Len(rest)) /\ rest # <<>>
      /\ UNCHANGED <<received, inputPipe, delivered>>
  BY DEF LineDone, wireVars, ShellListens
<1>2. /\ received \in Seq(Kinds) /\ Len(received) \in Nat /\ rest \in Seq(Nat)
      /\ h \in 1 .. Len(received) /\ Taken \in 0 .. Len(received)
  BY <1>1, Places
<1>3. NextByte \in 1 .. Len(rest) + 1
  BY <1>1, <1>2, NextByteIs
<1>4. NoneMissing' /\ Taken' = Taken + NextByte - 1 /\ Taken' \in 0 .. Len(received)
  BY <1>1, <1>3, TakenMoves
<1>5. s \in SplitType /\ Split(received)[h] = SplitByte(s, received[h], h)
  BY <1>2, SplitIs, SplitTypes
<1>6. ASSUME IsShort(Split(received)[Taken'])
      PROVE  /\ <<>> = Split(received)[Taken'].line
             /\ delivered[Shell] = Split(received)[Taken'].lines
  <2>1. Taken \in 0 .. Taken'
    BY <1>2, <1>3, <1>4
  <2>2. IsShort(s)
    BY <1>2, <1>4, <1>6, <2>1, ShortBefore
  <2> HIDE DEF s
  <2>3. received[h] \in {"lf", "cr"} /\ ~wasMaxLine
        /\ delivered[Shell] = Append(s.lines, s.line)
    BY <1>1, <2>2 DEF ShellUpToDate, ShellFollows, s
  <2>4. Taken' = h
    BY <1>2, <1>4, <2>3 DEF NextByte
  <2>5. Split(received)[h] = [lines |-> Append(s.lines, s.line), line |-> <<>>]
    BY <1>5, <2>3 DEF SplitByte
  <2> HIDE DEF h
  <2> QED
    BY <2>3, <2>4, <2>5
<1>7. ShellUpToDate'
  BY <1>1, <1>6 DEF ShellUpToDate, ShellFollows, IsShort
<1> QED
  BY <1>4, <1>7

(* Where there was nothing to clear, nothing has changed.                  *)
LEMMA ClearKeepsShell ==
  ASSUME BytesInv, NoneMissing, ShellUpToDate, lost' = {}, UartClearRxBuffer
  PROVE  NoneMissing' /\ ShellUpToDate'
<1>1. ASSUME NEW q \in Seq(Nat), ToSet(q) = {} PROVE q = <<>>
  <2>1. q # <<>> => 1 \in DOMAIN q
    OBVIOUS
  <2> QED
    BY <1>1, <2>1 DEF ToSet
<1>2. ToSet(inputPipe) = {} /\ ToSet(inputStream) = {} /\ inputPipe' = <<>> /\ inputStream' = <<>>
  BY DEF UartClearRxBuffer
<1>3. UNCHANGED <<inputPipe, inputStream>>
  BY <1>1, <1>2, Places
<1> QED
  BY <1>3, OthersKeepShell DEF UartClearRxBuffer, listenVars

LEMMA ShellKept ==
  ASSUME IdsInv, BytesInv, ShellInv, [Next]_vars
  PROVE  ShellInv'
<1>1. ShellListens' /\ idOf'[Shell] = idOf[Shell]
  BY ListeningKept DEF ShellInv
<1>2. ASSUME lost' = {} PROVE NoneMissing' /\ ShellUpToDate'
  <2>1. ShellListens /\ NoneMissing /\ ShellUpToDate
    BY <1>2, LostStays DEF ShellInv
  <2>2. CASE EvmStep
    BY <1>1, <1>2, <2>1, <2>2, WorkKeepsShell, AddByteKeepsShell, EndLineKeepsShell,
       CallKeepsShell, ReturnKeepsShell, LineDoneKeepsShell DEF EvmStep
  <2>3. CASE UartClearRxBuffer
    BY <1>2, <2>1, <2>3, ClearKeepsShell
  <2>4. CASE \E kind \in Kinds : UartInterruptHandler(kind)
    BY <1>1, <1>2, <2>1, <2>4, ArrivalKeepsShell
  <2>5. CASE UNCHANGED <<received, inputPipe, addDataVars>>
    BY <1>1, <2>1, <2>5, OthersKeepShell DEF addDataVars
  <2> QED
    BY <2>2, <2>3, <2>4, <2>5 DEF Next, Client, vars, wireVars, QueueOtherWork,
       StartMonitoring, StopMonitoring, StartMonitorForUbx, StopMonitorForUbx,
       UartSetLineStreamCallback
<1> QED
  BY <1>1, <1>2 DEF ShellInv

(* The shell is called with the lines of the stream, one after the other   *)
(* and blank ones included, however interrupts and work cut the bytes up   *)
(* and whoever else starts and stops listening; unless bytes were lost, or *)
(* a line was too long.  For any sizes, listeners and number of ids.       *)
THEOREM ShellIsCalledWithLines == Spec => []ShellGetsLines
<1>1. ShellInv => ShellGetsLines
  BY DEF ShellInv, ShellUpToDate, ShellFollows, IsShort, Taken, ShellGetsLines
<1> QED
  BY <1>1, IdsStart, BytesStart, ShellStart, IdsKept, BytesKept, ShellKept, PTL DEF Spec
=============================================================================
