----------------------------- MODULE TimerProofs -----------------------------
(***************************************************************************)
(* Proofs about Timer, for every set of timers and every value of its      *)
(* bounds.  TimerListInOrder is not inductive: that a search finds its     *)
(* timer, and that a new registration has one place in the list, also      *)
(* needs the keys of different timers to differ (SeqNosDistinct), and that *)
(* OnTimeout registers a timer that is not registered already needs an     *)
(* interval timer to be in one callback at most (IntervalRunsOnce).        *)
(***************************************************************************)
EXTENDS Timer, SequenceTheorems, FiniteSetTheorems, TLAPS

(* What GetTimeoutAtUs() and GetSeqNo() may be for each timer.            *)
Keys == [Timers -> Nat]

(* The list is strictly in the order of the comparator under these keys.  *)
InOrder(list, at, sn) ==
  \A i, j \in 1 .. Len(list) : i < j => CmpTimer(at, sn, list[i], list[j])

(* Two timers the comparator cannot find equivalent.                      *)
DifferentKeys(at, sn, t, u) == at[t] # at[u] \/ sn[t] # sn[u]

(* What is left after the entries in lo .. hi - 1 are erased.             *)
LEMMA CutElements ==
  ASSUME NEW list \in Seq(Timers),
         NEW lo \in 1 .. Len(list) + 1, NEW hi \in lo .. Len(list) + 1
  PROVE  /\ Cut(list, lo, hi) \in Seq(Timers)
         /\ Len(Cut(list, lo, hi)) = Len(list) - (hi - lo)
         /\ \A i \in 1 .. Len(list) - (hi - lo) :
              Cut(list, lo, hi)[i] = IF i < lo THEN list[i] ELSE list[i + (hi - lo)]
<1> DEFINE front == SubSeq(list, 1, lo - 1)
           back  == SubSeq(list, hi, Len(list))
<1>1. \A i \in 1 .. Len(list) : list[i] \in Timers
  BY ElementOfSeq
<1>2. /\ front \in Seq(Timers)
      /\ Len(front) = lo - 1
      /\ \A i \in 1 .. lo - 1 : front[i] = list[i]
  BY <1>1, SubSeqProperties
<1>3. /\ back \in Seq(Timers)
      /\ Len(back) = Len(list) - hi + 1
      /\ \A i \in 1 .. Len(list) - hi + 1 : back[i] = list[hi + i - 1]
  BY <1>1, SubSeqProperties
<1>4. /\ front \o back \in Seq(Timers)
      /\ Len(front \o back) = Len(front) + Len(back)
      /\ \A i \in 1 .. Len(front) + Len(back) :
           (front \o back)[i] = IF i <= Len(front) THEN front[i] ELSE back[i - Len(front)]
  BY <1>2, <1>3, ConcatProperties
<1> HIDE DEF front, back
<1>5. \A i \in 1 .. Len(list) - (hi - lo) :
        (front \o back)[i] = IF i < lo THEN list[i] ELSE list[i + (hi - lo)]
  <2> TAKE i \in 1 .. Len(list) - (hi - lo)
  <2>0. /\ Len(list) \in Nat /\ lo \in Nat /\ hi \in Nat /\ i \in Nat
        /\ i \in 1 .. Len(front) + Len(back)
        /\ Len(front) = lo - 1
    BY <1>2, <1>3
  <2>1. (front \o back)[i] = IF i <= Len(front) THEN front[i] ELSE back[i - Len(front)]
    BY <2>0, <1>4
  <2>2. CASE i < lo
    <3>1. i \in 1 .. lo - 1 /\ i <= Len(front)
      BY <2>0, <2>2
    <3>2. (front \o back)[i] = front[i]
      BY <2>1, <3>1
    <3> QED
      BY <1>2, <2>2, <3>1, <3>2
  <2>3. CASE ~(i < lo)
    <3> DEFINE k == i - (lo - 1)
    <3>1. /\ k \in 1 .. Len(list) - hi + 1 /\ ~(i <= Len(front))
          /\ i - Len(front) = k /\ hi + k - 1 = i + (hi - lo)
      BY <2>0, <2>3
    <3>2. (front \o back)[i] = back[k]
      BY <2>1, <3>1
    <3>3. back[k] = list[hi + k - 1]
      BY <1>3, <3>1
    <3> QED
      BY <2>3, <3>1, <3>2, <3>3
  <2> QED
    BY <2>2, <2>3
<1>6. Cut(list, lo, hi) = front \o back
  BY DEF Cut, front, back
<1>7. Len(front \o back) = Len(list) - (hi - lo)
  BY <1>2, <1>3, <1>4
<1> QED
  BY <1>4, <1>5, <1>6, <1>7

(* What a list holds after an insertion in gap g.                         *)
LEMMA InsertElements ==
  ASSUME NEW list \in Seq(Timers), NEW g \in 1 .. Len(list) + 1, NEW t \in Timers
  PROVE  /\ InsertAt(list, g, t) \in Seq(Timers)
         /\ Len(InsertAt(list, g, t)) = Len(list) + 1
         /\ \A i \in 1 .. Len(list) + 1 :
              InsertAt(list, g, t)[i] =
                IF i < g THEN list[i] ELSE IF i = g THEN t ELSE list[i - 1]
<1> DEFINE front == SubSeq(list, 1, g - 1)
           back  == SubSeq(list, g, Len(list))
<1>1. \A i \in 1 .. Len(list) : list[i] \in Timers
  BY ElementOfSeq
<1>2. /\ front \in Seq(Timers)
      /\ Len(front) = g - 1
      /\ \A i \in 1 .. g - 1 : front[i] = list[i]
  BY <1>1, SubSeqProperties
<1>3. /\ back \in Seq(Timers)
      /\ Len(back) = Len(list) - g + 1
      /\ \A i \in 1 .. Len(list) - g + 1 : back[i] = list[g + i - 1]
  BY <1>1, SubSeqProperties
<1>4. <<t>> \in Seq(Timers) /\ Len(<<t>>) = 1 /\ <<t>>[1] = t
  OBVIOUS
<1> HIDE DEF front, back
<1>5. /\ front \o <<t>> \in Seq(Timers)
      /\ Len(front \o <<t>>) = g
      /\ \A i \in 1 .. g : (front \o <<t>>)[i] = IF i < g THEN list[i] ELSE t
  BY <1>2, <1>4, ConcatProperties
<1>6. /\ (front \o <<t>>) \o back \in Seq(Timers)
      /\ Len((front \o <<t>>) \o back) = Len(list) + 1
      /\ \A i \in 1 .. Len(list) + 1 :
           ((front \o <<t>>) \o back)[i] =
              IF i <= g THEN (front \o <<t>>)[i] ELSE back[i - g]
  <2> DEFINE ahead == front \o <<t>>
  <2>1. ahead \in Seq(Timers) /\ Len(ahead) = g
    BY <1>5
  <2> HIDE DEF ahead
  <2>2. /\ ahead \o back \in Seq(Timers)
        /\ Len(ahead \o back) = Len(ahead) + Len(back)
        /\ \A i \in 1 .. Len(ahead) + Len(back) :
             (ahead \o back)[i] = IF i <= Len(ahead) THEN ahead[i] ELSE back[i - Len(ahead)]
    BY <1>3, <2>1, ConcatProperties
  <2>3. Len(ahead) + Len(back) = Len(list) + 1
    BY <1>3, <2>1
  <2> QED
    BY <2>1, <2>2, <2>3 DEF ahead
<1>7. \A i \in 1 .. Len(list) + 1 :
        ((front \o <<t>>) \o back)[i] =
          IF i < g THEN list[i] ELSE IF i = g THEN t ELSE list[i - 1]
  BY <1>3, <1>5, <1>6
<1> QED
  BY <1>6, <1>7 DEF InsertAt, front, back

(* Evm::CmpTimer is transitive.                                           *)
LEMMA CmpTransitive ==
  ASSUME NEW at \in Keys, NEW sn \in Keys,
         NEW t \in Timers, NEW u \in Timers, NEW v \in Timers,
         CmpTimer(at, sn, t, u), CmpTimer(at, sn, u, v)
  PROVE  CmpTimer(at, sn, t, v)
  BY DEF CmpTimer, Keys

(* Evm::CmpTimer orders any two timers whose keys differ.                 *)
LEMMA CmpTotal ==
  ASSUME NEW at \in Keys, NEW sn \in Keys,
         NEW t \in Timers, NEW u \in Timers,
         t # u, DifferentKeys(at, sn, t, u)
  PROVE  CmpTimer(at, sn, t, u) \/ CmpTimer(at, sn, u, t)
  BY DEF CmpTimer, Keys, DifferentKeys

(* Evm::DeRegisterTimer on a list in order: exactly the entry of t goes,  *)
(* if there is one, and the rest stays in order.  The searches for t end  *)
(* in one place, because no other timer's key equals the key of t.        *)
LEMMA Deregistered ==
  ASSUME NEW list \in Seq(Timers), NEW at \in Keys, NEW sn \in Keys, NEW t \in Timers,
         InOrder(list, at, sn),
         \A u \in ToSet(list) : u # t => DifferentKeys(at, sn, t, u),
         NEW r \in DeRegisterTimer(list, at, sn, t)
  PROVE  /\ r \in Seq(Timers)
         /\ InOrder(r, at, sn)
         /\ ToSet(r) = ToSet(list) \ {t}
         /\ r = Service!Without(list, t)
<1> DEFINE n == Len(list)
<1>1. n \in Nat /\ DOMAIN list = 1 .. n /\ \A i \in 1 .. n : list[i] \in Timers
  BY LenProperties, ElementOfSeq
<1>2. PICK lo \in LowerBounds(list, at, sn, t), hi \in UpperBounds(list, at, sn, t) :
        lo <= hi /\ r = Cut(list, lo, hi)
  BY DEF DeRegisterTimer
<1>3. /\ lo \in 1 .. n + 1
      /\ lo > 1 => CmpTimer(at, sn, list[lo - 1], t)
      /\ lo <= n => ~CmpTimer(at, sn, list[lo], t)
  BY DEF LowerBounds
<1>4. /\ hi \in lo .. n + 1
      /\ hi > 1 => ~CmpTimer(at, sn, t, list[hi - 1])
      /\ hi <= n => CmpTimer(at, sn, t, list[hi])
  BY <1>1, <1>2, <1>3 DEF UpperBounds
<1> HIDE DEF n
<1>5. \A i, j \in 1 .. n : i < j => CmpTimer(at, sn, list[i], list[j])
  BY DEF InOrder, n
<1>6. ASSUME NEW i \in 1 .. lo - 1 PROVE CmpTimer(at, sn, list[i], t)
  <2>1. lo > 1 /\ lo - 1 \in 1 .. n /\ i \in 1 .. n
    BY <1>1, <1>3
  <2>2. CASE i = lo - 1
    BY <1>3, <2>1, <2>2
  <2>3. CASE i < lo - 1
    <3>1. CmpTimer(at, sn, list[i], list[lo - 1])
      BY <1>5, <2>1, <2>3
    <3> QED
      BY <1>1, <1>3, <2>1, <3>1, CmpTransitive
  <2> QED
    BY <1>3, <2>2, <2>3
<1>7. ASSUME NEW i \in hi .. n PROVE CmpTimer(at, sn, t, list[i])
  <2>1. hi <= n /\ hi \in 1 .. n /\ i \in 1 .. n
    BY <1>1, <1>3, <1>4
  <2>2. CASE i = hi
    BY <1>4, <2>1, <2>2
  <2>3. CASE i > hi
    <3>1. CmpTimer(at, sn, list[hi], list[i])
      BY <1>5, <2>1, <2>3
    <3> QED
      BY <1>1, <1>4, <2>1, <3>1, CmpTransitive
  <2> QED
    BY <1>4, <2>1, <2>2, <2>3
<1>8. ASSUME NEW i \in 1 .. n, lo <= i, i < hi PROVE list[i] = t
  <2>1. ~CmpTimer(at, sn, list[i], t)
    <3>1. lo \in 1 .. n /\ list[lo] \in Timers
      BY <1>1, <1>3, <1>8
    <3>2. CASE i = lo
      BY <1>3, <3>1, <3>2
    <3>3. CASE lo < i
      BY <1>1, <1>3, <1>5, <3>1, <3>3, CmpTransitive
    <3> QED
      BY <1>3, <1>8, <3>2, <3>3
  <2>2. ~CmpTimer(at, sn, t, list[i])
    <3>1. hi - 1 \in 1 .. n /\ list[hi - 1] \in Timers /\ hi > 1
      BY <1>1, <1>3, <1>4, <1>8
    <3>2. CASE i = hi - 1
      BY <1>4, <3>1, <3>2
    <3>3. CASE i < hi - 1
      BY <1>1, <1>4, <1>5, <3>1, <3>3, CmpTransitive
    <3> QED
      BY <1>3, <1>4, <1>8, <3>2, <3>3
  <2>3. list[i] \in ToSet(list) /\ list[i] \in Timers
    BY <1>1 DEF ToSet
  <2>4. list[i] # t => DifferentKeys(at, sn, t, list[i])
    BY <2>3
  <2> QED
    BY <2>1, <2>2, <2>3, <2>4, CmpTotal
<1>9. /\ r \in Seq(Timers)
      /\ Len(r) = n - (hi - lo)
      /\ \A i \in 1 .. n - (hi - lo) : r[i] = IF i < lo THEN list[i] ELSE list[i + (hi - lo)]
  BY <1>2, <1>3, <1>4, CutElements DEF n
<1>10. InOrder(r, at, sn)
  <2> SUFFICES ASSUME NEW i \in 1 .. Len(r), NEW j \in 1 .. Len(r), i < j
               PROVE  CmpTimer(at, sn, r[i], r[j])
    BY DEF InOrder
  <2> DEFINE from(k) == IF k < lo THEN k ELSE k + (hi - lo)
  <2>1. from(i) \in 1 .. n /\ from(j) \in 1 .. n /\ from(i) < from(j)
    BY <1>1, <1>3, <1>4, <1>9
  <2>2. r[i] = list[from(i)] /\ r[j] = list[from(j)]
    BY <1>9
  <2> QED
    BY <1>5, <2>1, <2>2
<1>11. ASSUME NEW u \in ToSet(r) PROVE u \in ToSet(list) \ {t}
  <2>1. PICK i \in 1 .. Len(r) : u = r[i]
    BY <1>9, LenProperties DEF ToSet
  <2>2. CASE i < lo
    <3>1. i \in 1 .. lo - 1 /\ i \in 1 .. n /\ u = list[i]
      BY <1>1, <1>3, <1>4, <1>9, <2>1, <2>2
    <3> QED
      BY <1>1, <1>6, <3>1 DEF CmpTimer, ToSet
  <2>3. CASE ~(i < lo)
    <3>1. i + (hi - lo) \in hi .. n /\ i + (hi - lo) \in 1 .. n /\ u = list[i + (hi - lo)]
      BY <1>1, <1>3, <1>4, <1>9, <2>1, <2>3
    <3> QED
      BY <1>1, <1>7, <3>1 DEF CmpTimer, ToSet
  <2> QED
    BY <2>2, <2>3
<1>12. ASSUME NEW u \in ToSet(list), u # t PROVE u \in ToSet(r)
  <2>1. PICK i \in 1 .. n : u = list[i]
    BY <1>1 DEF ToSet
  <2>2. i < lo \/ hi <= i
    BY <1>3, <1>4, <1>8, <1>12, <2>1
  <2>3. \E k \in 1 .. Len(r) : r[k] = u
    <3>1. CASE i < lo
      <4>1. i \in 1 .. Len(r)
        BY <1>1, <1>3, <1>4, <1>9, <3>1
      <4> QED
        BY <1>9, <2>1, <3>1, <4>1
    <3>2. CASE hi <= i
      <4>1. /\ i - (hi - lo) \in 1 .. Len(r)
            /\ ~(i - (hi - lo) < lo)
            /\ (i - (hi - lo)) + (hi - lo) = i
        BY <1>1, <1>3, <1>4, <1>9, <3>2
      <4> QED
        BY <1>9, <2>1, <4>1
    <3> QED
      BY <2>2, <3>1, <3>2
  <2> QED
    BY <1>9, <2>3, LenProperties DEF ToSet
<1>13. r = Service!Without(list, t)
  <2>1. \A i \in 1 .. n : list[i] = t <=> lo <= i /\ i < hi
    <3> SUFFICES ASSUME NEW i \in 1 .. n, i < lo \/ hi <= i PROVE list[i] # t
      BY <1>3, <1>4, <1>8
    <3>1. i \in 1 .. lo - 1 \/ i \in hi .. n
      BY <1>1, <1>3, <1>4
    <3> QED
      BY <1>6, <1>7, <3>1 DEF CmpTimer
  <2>2. CASE lo = hi
    <3>1. \A i \in 1 .. n : list[i] # t
      BY <1>1, <1>3, <2>1, <2>2
    <3>2. Service!Without(list, t) = list
      BY <1>1, <3>1 DEF Service!Without
    <3>3. hi - lo = 0 /\ \A i \in 1 .. n : i + 0 = i
      BY <1>1, <1>3, <2>2
    <3>4. r = list
      <4>1. Len(r) = Len(list) /\ \A i \in 1 .. Len(r) : r[i] = list[i]
        BY <1>1, <1>9, <3>3 DEF n
      <4> QED
        BY <1>9, <4>1, SeqEqual
    <3> QED
      BY <3>2, <3>4
  <2>3. CASE lo < hi
    <3>1. lo \in 1 .. n /\ list[lo] = t /\ hi - 1 \in 1 .. n /\ list[hi - 1] = t
      BY <1>1, <1>3, <1>4, <2>1, <2>3
    <3>2. hi = lo + 1
      <4>1. ~(lo < hi - 1)
        BY <1>5, <3>1 DEF CmpTimer
      <4> QED
        BY <1>3, <1>4, <2>3, <4>1
    <3>3. \A i \in DOMAIN list : list[i] = t <=> i = lo
      BY <1>1, <1>3, <2>1, <3>2
    <3>4. (CHOOSE i \in DOMAIN list : list[i] = t) = lo
      BY <1>1, <3>1, <3>3
    <3>5. Service!Without(list, t) = RemoveAt(list, lo)
      BY <1>1, <3>1, <3>4 DEF Service!Without, Service!RemoveAt, RemoveAt
    <3> QED
      BY <1>2, <3>2, <3>5 DEF RemoveAt, Cut
  <2> QED
    BY <1>3, <1>4, <2>2, <2>3
<1> QED
  BY <1>9, <1>10, <1>11, <1>12, <1>13

(* Evm::RegisterTimer of a timer that is not in the list, with a key of    *)
(* its own: exactly t is added, and the list stays in order.               *)
LEMMA Registered ==
  ASSUME NEW list \in Seq(Timers), NEW at \in Keys, NEW sn \in Keys, NEW t \in Timers,
         InOrder(list, at, sn),
         t \notin ToSet(list),
         \A u \in ToSet(list) : DifferentKeys(at, sn, t, u),
         NEW r \in RegisterTimer(list, at, sn, t)
  PROVE  /\ r \in Seq(Timers)
         /\ InOrder(r, at, sn)
         /\ ToSet(r) = ToSet(list) \cup {t}
         /\ (\A u \in ToSet(list) : sn[u] < sn[t]) => r = Service!Enqueue(list, at, t)
<1> DEFINE n == Len(list)
<1>1. n \in Nat /\ DOMAIN list = 1 .. n /\ \A i \in 1 .. n : list[i] \in Timers
  BY LenProperties, ElementOfSeq
<1>2. PICK g \in UpperBounds(list, at, sn, t) : r = InsertAt(list, g, t)
  BY DEF RegisterTimer
<1>3. /\ g \in 1 .. n + 1
      /\ g > 1 => ~CmpTimer(at, sn, t, list[g - 1])
      /\ g <= n => CmpTimer(at, sn, t, list[g])
  BY DEF UpperBounds
<1> HIDE DEF n
<1>4. \A i, j \in 1 .. n : i < j => CmpTimer(at, sn, list[i], list[j])
  BY DEF InOrder, n
<1>5. \A i \in 1 .. n : list[i] # t /\ DifferentKeys(at, sn, t, list[i])
  BY <1>1 DEF ToSet
<1>6. ASSUME NEW i \in 1 .. g - 1 PROVE CmpTimer(at, sn, list[i], t)
  <2>1. g - 1 \in 1 .. n /\ i \in 1 .. n /\ g > 1
    BY <1>1, <1>3
  <2>2. CmpTimer(at, sn, list[g - 1], t)
    BY <1>1, <1>3, <1>5, <2>1, CmpTotal
  <2>3. CASE i = g - 1
    BY <2>2, <2>3
  <2>4. CASE i < g - 1
    BY <1>1, <1>4, <2>1, <2>2, <2>4, CmpTransitive
  <2> QED
    BY <1>3, <2>3, <2>4
<1>7. ASSUME NEW i \in g .. n PROVE CmpTimer(at, sn, t, list[i])
  <2>1. g \in 1 .. n /\ i \in 1 .. n
    BY <1>1, <1>3
  <2>2. CASE i = g
    BY <1>3, <2>1, <2>2
  <2>3. CASE g < i
    BY <1>1, <1>3, <1>4, <2>1, <2>3, CmpTransitive
  <2> QED
    BY <2>1, <2>2, <2>3
<1>8. /\ r \in Seq(Timers)
      /\ Len(r) = n + 1
      /\ \A i \in 1 .. n + 1 :
           r[i] = IF i < g THEN list[i] ELSE IF i = g THEN t ELSE list[i - 1]
  <2>1. g \in 1 .. Len(list) + 1
    BY <1>3 DEF n
  <2>2. /\ InsertAt(list, g, t) \in Seq(Timers)
        /\ Len(InsertAt(list, g, t)) = Len(list) + 1
        /\ \A i \in 1 .. Len(list) + 1 :
             InsertAt(list, g, t)[i] =
               IF i < g THEN list[i] ELSE IF i = g THEN t ELSE list[i - 1]
    BY <2>1, InsertElements, ZenonT(60)
  <2> QED
    BY <1>2, <2>2 DEF n
<1>9. InOrder(r, at, sn)
  <2> SUFFICES ASSUME NEW i \in 1 .. Len(r), NEW j \in 1 .. Len(r), i < j
               PROVE  CmpTimer(at, sn, r[i], r[j])
    BY DEF InOrder
  <2>1. CASE j < g
    BY <1>1, <1>3, <1>4, <1>8, <2>1
  <2>2. CASE j = g
    BY <1>1, <1>3, <1>6, <1>8, <2>2
  <2>3. CASE g < j /\ i = g
    <3>1. j - 1 \in g .. n /\ r[i] = t /\ r[j] = list[j - 1]
      BY <1>1, <1>3, <1>8, <2>3
    <3> QED
      BY <1>7, <3>1
  <2>4. CASE g < j /\ i < g
    <3>1. i \in 1 .. n /\ j - 1 \in 1 .. n /\ i < j - 1 /\ r[i] = list[i] /\ r[j] = list[j - 1]
      BY <1>1, <1>3, <1>8, <2>4
    <3> QED
      BY <1>4, <3>1
  <2>5. CASE g < j /\ g < i
    <3>1. /\ i - 1 \in 1 .. n /\ j - 1 \in 1 .. n /\ i - 1 < j - 1
          /\ r[i] = list[i - 1] /\ r[j] = list[j - 1]
      BY <1>1, <1>3, <1>8, <2>5
    <3> QED
      BY <1>4, <3>1
  <2> QED
    BY <1>3, <1>8, <2>1, <2>2, <2>3, <2>4, <2>5
<1>10. ASSUME NEW u \in ToSet(r) PROVE u \in ToSet(list) \cup {t}
  <2>1. PICK i \in 1 .. n + 1 : u = r[i]
    BY <1>8, LenProperties DEF ToSet
  <2>2. CASE i < g
    <3>1. i \in 1 .. n /\ u = list[i]
      BY <1>1, <1>3, <1>8, <2>1, <2>2
    <3> QED
      BY <1>1, <3>1 DEF ToSet
  <2>3. CASE i = g
    BY <1>8, <2>1, <2>3
  <2>4. CASE g < i
    <3>1. i - 1 \in 1 .. n /\ u = list[i - 1]
      BY <1>1, <1>3, <1>8, <2>1, <2>4
    <3> QED
      BY <1>1, <3>1 DEF ToSet
  <2> QED
    BY <1>1, <1>3, <2>1, <2>2, <2>3, <2>4
<1>11. ASSUME NEW u \in ToSet(list) \cup {t} PROVE \E k \in 1 .. n + 1 : r[k] = u
  <2>1. CASE u = t
    BY <1>3, <1>8, <2>1
  <2>2. CASE u \in ToSet(list)
    <3>1. PICK i \in 1 .. n : u = list[i]
      BY <1>1, <2>2 DEF ToSet
    <3>2. CASE i < g
      <4>1. i \in 1 .. n + 1
        BY <1>1
      <4> QED
        BY <1>8, <3>1, <3>2, <4>1
    <3>3. CASE g <= i
      <4>1. i + 1 \in 1 .. n + 1 /\ ~(i + 1 < g) /\ i + 1 # g /\ (i + 1) - 1 = i
        BY <1>1, <1>3, <3>3
      <4> QED
        BY <1>8, <3>1, <4>1
    <3> QED
      BY <1>3, <3>2, <3>3
  <2> QED
    BY <2>1, <2>2
<1>12. DOMAIN r = 1 .. n + 1
  BY <1>8, LenProperties
<1>13. ToSet(list) \cup {t} \subseteq ToSet(r)
  BY <1>11, <1>12 DEF ToSet
<1>14. ToSet(r) \subseteq ToSet(list) \cup {t}
  BY <1>10
<1>15. ASSUME \A u \in ToSet(list) : sn[u] < sn[t] PROVE r = Service!Enqueue(list, at, t)
  <2> DEFINE ahead == {i \in DOMAIN list : at[list[i]] <= at[t]}
  <2>1. \A i \in 1 .. n : sn[list[i]] < sn[t]
    BY <1>1, <1>15 DEF ToSet
  <2>2. \A i \in 1 .. g - 1 : at[list[i]] <= at[t]
    <3> TAKE i \in 1 .. g - 1
    <3>1. i \in 1 .. n
      BY <1>1, <1>3
    <3> QED
      BY <1>1, <1>6, <3>1 DEF CmpTimer, Keys
  <2>3. \A i \in g .. n : ~(at[list[i]] <= at[t])
    <3> TAKE i \in g .. n
    <3>1. i \in 1 .. n
      BY <1>1, <1>3
    <3> QED
      BY <1>1, <1>7, <2>1, <3>1 DEF CmpTimer, Keys
  <2>4. ahead = 1 .. g - 1
    BY <1>1, <1>3, <2>2, <2>3
  <2>5. Cardinality(ahead) + 1 = g
    <3>1. g \in Int /\ g - 1 \in Int /\ 1 \in Int
      BY <1>1, <1>3
    <3>2. Cardinality(1 .. g - 1) = IF 1 > g - 1 THEN 0 ELSE (g - 1) - 1 + 1
      BY <1>1, <1>3, <3>1, FS_Interval
    <3>3. Cardinality(1 .. g - 1) + 1 = g
      BY <1>1, <1>3, <3>2
    <3> QED
      BY <2>4, <3>3
  <2>6. Service!Enqueue(list, at, t) = InsertAt(list, Cardinality(ahead) + 1, t)
    BY DEF Service!Enqueue, Service!InsertAt, InsertAt, Service!Cardinality, Cardinality
  <2> HIDE DEF ahead
  <2> QED
    BY <1>2, <2>5, <2>6
<1> QED
  BY <1>8, <1>9, <1>13, <1>14, <1>15

-----------------------------------------------------------------------------
(* The order of a list depends on the keys of the timers in it only.      *)
LEMMA SameKeys ==
  ASSUME NEW list \in Seq(Timers), NEW at, NEW sn, NEW at2, NEW sn2,
         InOrder(list, at, sn),
         \A u \in ToSet(list) : at2[u] = at[u] /\ sn2[u] = sn[u]
  PROVE  InOrder(list, at2, sn2)
<1>1. DOMAIN list = 1 .. Len(list)
  BY LenProperties
<1>2. \A i \in 1 .. Len(list) : at2[list[i]] = at[list[i]] /\ sn2[list[i]] = sn[list[i]]
  BY <1>1 DEF ToSet
<1> QED
  BY <1>2 DEF InOrder, CmpTimer

(* A snapped expiry time is a time.                                       *)
LEMMA SnapUpNat ==
  ASSUME NEW at \in Nat, NEW snap \in Nat
  PROVE  SnapUp(at, snap) \in Nat
<1>1. CASE snap = 0
  BY <1>1 DEF SnapUp
<1>2. CASE snap > 0
  <2>1. at \div snap \in Nat
    BY <1>2
  <2>2. (at \div snap) * snap \in Nat
    BY <2>1
  <2> QED
    BY <2>2 DEF SnapUp
<1> QED
  BY <1>1, <1>2

-----------------------------------------------------------------------------
(* Sequence numbers are handed out once: no two timers share one, except  *)
(* the 0 of those never registered, and the next one is new to all.       *)
SeqNosDistinct ==
  /\ \A t \in Timers : seqNo[t] < seqNoNext
  /\ \A t, u \in Timers : t # u /\ seqNo[t] = seqNo[u] => seqNo[t] = 0
  /\ \A t \in ToSet(timerList) : seqNo[t] > 0

(* An interval timer is in one callback at most.                          *)
IntervalRunsOnce ==
  \A i, j \in DOMAIN running :
    i # j /\ running[i] = running[j] => ~isInterval[running[i]]

(* The inductive invariant.                                               *)
IInv ==
  /\ TypeOK
  /\ TimerListInOrder
  /\ SeqNosDistinct
  /\ IntervalKeepsGoing
  /\ IntervalRunsOnce

(* The property of the runs, as the lemmas about lists state it.          *)
LEMMA InOrderIsProperty ==
  ASSUME timerList \in Seq(Timers)
  PROVE  TimerListInOrder <=> InOrder(timerList, timeoutAtUs, seqNo)
  BY LenProperties DEF TimerListInOrder, InOrder

(* Evm::DeRegisterTimer(t), with the keys as they are now.                *)
LEMMA RemovedOne ==
  ASSUME IInv, NEW t \in Timers,
         NEW r \in DeRegisterTimer(timerList, timeoutAtUs, seqNo, t)
  PROVE  /\ r \in Seq(Timers)
         /\ InOrder(r, timeoutAtUs, seqNo)
         /\ ToSet(r) = ToSet(timerList) \ {t}
         /\ r = Service!Without(timerList, t)
<1>1. /\ timerList \in Seq(Timers) /\ timeoutAtUs \in Keys /\ seqNo \in Keys
  BY DEF IInv, TypeOK, Keys
<1>2. InOrder(timerList, timeoutAtUs, seqNo)
  BY <1>1, InOrderIsProperty DEF IInv
<1>3. \A u \in ToSet(timerList) : u \in Timers
  BY <1>1, LenProperties, ElementOfSeq DEF ToSet
<1>4. \A u \in ToSet(timerList) : u # t => DifferentKeys(timeoutAtUs, seqNo, t, u)
  BY <1>1, <1>3 DEF IInv, SeqNosDistinct, DifferentKeys, Keys
<1> QED
  BY <1>1, <1>2, <1>4, Deregistered

(* Timer::Register, after a step that changed the key of t only.          *)
LEMMA RegisteredOne ==
  ASSUME IInv, NEW t \in Timers, NEW list \in Seq(Timers),
         InOrder(list, timeoutAtUs, seqNo),
         ToSet(list) \subseteq ToSet(timerList) \ {t},
         timeoutAtUs' \in Keys,
         \A u \in Timers \ {t} : timeoutAtUs'[u] = timeoutAtUs[u],
         Register(list, t)
  PROVE  /\ timerList' \in Seq(Timers)
         /\ seqNo' \in Keys
         /\ seqNoNext' \in Nat \ {0}
         /\ InOrder(timerList', timeoutAtUs', seqNo')
         /\ ToSet(timerList') = ToSet(list) \cup {t}
         /\ SeqNosDistinct'
         /\ timerList' = Service!Enqueue(list, timeoutAtUs', t)
<1>1. /\ seqNo \in Keys /\ seqNoNext \in Nat \ {0} /\ SeqNosDistinct
      /\ timerList \in Seq(Timers)
  BY DEF IInv, TypeOK, Keys
<1>2. /\ seqNo' = [seqNo EXCEPT ![t] = seqNoNext]
      /\ seqNoNext' = seqNoNext + 1
      /\ timerList' \in RegisterTimer(list, timeoutAtUs', seqNo', t)
  BY DEF Register
<1>3. \A u \in ToSet(timerList) : u \in Timers
  BY <1>1, LenProperties, ElementOfSeq DEF ToSet
<1>4. /\ seqNo' \in Keys
      /\ seqNo'[t] = seqNoNext
      /\ \A u \in Timers \ {t} : seqNo'[u] = seqNo[u]
  BY <1>1, <1>2 DEF Keys
<1>5. InOrder(list, timeoutAtUs', seqNo')
  <2>1. \A u \in ToSet(list) : timeoutAtUs'[u] = timeoutAtUs[u] /\ seqNo'[u] = seqNo[u]
    BY <1>3, <1>4
  <2> QED
    BY <2>1, SameKeys
<1>6. \A u \in ToSet(list) : DifferentKeys(timeoutAtUs', seqNo', t, u)
  <2>1. \A u \in Timers \ {t} : seqNo'[u] < seqNo'[t]
    BY <1>1, <1>4 DEF SeqNosDistinct, Keys
  <2>2. \A u \in Timers \ {t} : seqNo'[u] # seqNo'[t]
    BY <1>4, <2>1 DEF Keys
  <2> QED
    BY <1>3, <2>2 DEF DifferentKeys
<1>7. /\ timerList' \in Seq(Timers)
      /\ InOrder(timerList', timeoutAtUs', seqNo')
      /\ ToSet(timerList') = ToSet(list) \cup {t}
      /\ timerList' = Service!Enqueue(list, timeoutAtUs', t)
  <2>1. t \notin ToSet(list)
    OBVIOUS
  <2> DEFINE at2 == timeoutAtUs'
             sn2 == seqNo'
             r   == timerList'
  <2>2. /\ at2 \in Keys /\ sn2 \in Keys
        /\ InOrder(list, at2, sn2)
        /\ \A u \in ToSet(list) : DifferentKeys(at2, sn2, t, u)
        /\ \A u \in ToSet(list) : sn2[u] < sn2[t]
        /\ r \in RegisterTimer(list, at2, sn2, t)
    BY <1>2, <1>3, <1>4, <1>5, <1>6 DEF SeqNosDistinct, IInv
  <2> HIDE DEF at2, sn2, r
  <2>3. /\ r \in Seq(Timers)
        /\ InOrder(r, at2, sn2)
        /\ ToSet(r) = ToSet(list) \cup {t}
        /\ r = Service!Enqueue(list, at2, t)
    BY <2>1, <2>2, Registered
  <2> QED
    BY <2>3 DEF at2, sn2, r
<1>8. SeqNosDistinct'
  <2>1. \A u \in Timers : seqNo'[u] < seqNoNext'
    <3> TAKE u \in Timers
    <3>1. seqNo[u] \in Nat /\ seqNo[u] < seqNoNext
      BY <1>1 DEF SeqNosDistinct, Keys
    <3>2. CASE u = t
      BY <1>1, <1>2, <1>4, <3>2
    <3>3. CASE u # t
      BY <1>1, <1>2, <1>4, <3>1, <3>3
    <3> QED
      BY <3>2, <3>3
  <2>2. \A u, v \in Timers : u # v /\ seqNo'[u] = seqNo'[v] => seqNo'[u] = 0
    <3> SUFFICES ASSUME NEW u \in Timers, NEW v \in Timers, u # v, seqNo'[u] = seqNo'[v]
                 PROVE  seqNo'[u] = 0
      OBVIOUS
    <3>1. \A w \in Timers \ {t} : seqNo'[w] # seqNo'[t]
      BY <1>1, <1>4 DEF SeqNosDistinct, Keys
    <3>2. u # t /\ v # t
      BY <3>1
    <3> QED
      BY <1>1, <1>4, <3>2 DEF SeqNosDistinct
  <2>3. \A u \in ToSet(timerList') : seqNo'[u] > 0
    <3> TAKE u \in ToSet(timerList')
    <3>1. CASE u = t
      BY <1>1, <1>4, <3>1
    <3>2. CASE u # t
      <4>1. u \in ToSet(timerList) /\ u \in Timers
        BY <1>3, <1>7, <3>2
      <4> QED
        BY <1>1, <1>4, <3>2, <4>1 DEF SeqNosDistinct
    <3> QED
      BY <3>1, <3>2
  <2> QED
    BY <2>1, <2>2, <2>3 DEF SeqNosDistinct
<1> QED
  BY <1>1, <1>2, <1>4, <1>7, <1>8

-----------------------------------------------------------------------------
(* The initial states satisfy the invariant.                              *)
LEMMA InitIInv == Init => IInv
<1> SUFFICES ASSUME Init PROVE IInv
  OBVIOUS
<1>1. timerList = <<>> /\ running = <<>> /\ ToSet(timerList) = {} /\ ToSet(running) = {}
  BY DEF Init, ToSet
<1>2. TypeOK
  BY <1>1, TimerAssumption DEF Init, TypeOK
<1>3. TimerListInOrder /\ SeqNosDistinct /\ IntervalKeepsGoing /\ IntervalRunsOnce
  BY <1>1 DEF Init, TimerListInOrder, SeqNosDistinct, IntervalKeepsGoing, IntervalRunsOnce
<1> QED
  BY <1>2, <1>3 DEF IInv

(* The innermost callback and the ones below it.                          *)
LEMMA RunningElements ==
  ASSUME NEW r \in Seq(Timers)
  PROVE  /\ \A u \in ToSet(r) : u \in Timers
         /\ r # <<>> => /\ Head(r) \in Timers
                        /\ Tail(r) \in Seq(Timers)
                        /\ Len(Tail(r)) = Len(r) - 1
                        /\ \A i \in 1 .. Len(r) - 1 : Tail(r)[i] = r[i + 1]
                        /\ ToSet(r) = {Head(r)} \cup ToSet(Tail(r))
<1>1. DOMAIN r = 1 .. Len(r) /\ Len(r) \in Nat /\ \A i \in 1 .. Len(r) : r[i] \in Timers
  BY LenProperties, ElementOfSeq
<1>2. ASSUME r # <<>>
      PROVE  /\ Head(r) = r[1] /\ Len(r) >= 1
             /\ Tail(r) \in Seq(Timers)
             /\ Len(Tail(r)) = Len(r) - 1
             /\ \A i \in 1 .. Len(r) - 1 : Tail(r)[i] = r[i + 1]
  BY <1>2, HeadTailProperties, EmptySeq
<1>3. ASSUME r # <<>> PROVE ToSet(r) = {Head(r)} \cup ToSet(Tail(r))
  <2>1. DOMAIN Tail(r) = 1 .. Len(r) - 1
    BY <1>2, <1>3, LenProperties
  <2>2. \A i \in 1 .. Len(r) : i = 1 \/ (i - 1 \in 1 .. Len(r) - 1 /\ r[i] = Tail(r)[i - 1])
    BY <1>1, <1>2, <1>3
  <2>3. ToSet(r) \subseteq {Head(r)} \cup ToSet(Tail(r))
    <3> SUFFICES ASSUME NEW i \in 1 .. Len(r), i # 1 PROVE r[i] \in ToSet(Tail(r))
      BY <1>1, <1>2, <1>3 DEF ToSet
    <3> QED
      BY <2>1, <2>2 DEF ToSet
  <2>4. \A i \in 1 .. Len(r) - 1 : i + 1 \in 1 .. Len(r)
    BY <1>1
  <2>5. {Head(r)} \cup ToSet(Tail(r)) \subseteq ToSet(r)
    BY <1>1, <1>2, <1>3, <2>1, <2>4 DEF ToSet
  <2> QED
    BY <2>3, <2>5
<1> QED
  BY <1>1, <1>2, <1>3 DEF ToSet

(* TimeoutAtUs, TimeoutInUs and TimeoutIntervalUs preserve the invariant. *)
LEMMA TimeoutIInv ==
  ASSUME IInv, NEW t \in Timers, NEW at \in Nat, NEW interval \in [on : BOOLEAN, us : Nat],
         interval.on => t \notin ToSet(running),
         Timeout(t, at, interval)
  PROVE  IInv'
<1>1. TypeOK
  BY DEF IInv
<1>2. PICK list \in DeRegisterTimer(timerList, timeoutAtUs, seqNo, t) : Register(list, t)
  BY DEF Timeout
<1>3. /\ list \in Seq(Timers)
      /\ InOrder(list, timeoutAtUs, seqNo)
      /\ ToSet(list) = ToSet(timerList) \ {t}
  BY <1>2, RemovedOne
<1>4. /\ timeoutAtUs' \in Keys
      /\ \A u \in Timers \ {t} : timeoutAtUs'[u] = timeoutAtUs[u]
  <2>1. SnapUp(at, snapToUs[t]) \in Nat
    BY <1>1, SnapUpNat DEF TypeOK
  <2> QED
    BY <1>1, <2>1 DEF Timeout, TypeOK, Keys
<1>5. /\ timerList' \in Seq(Timers)
      /\ seqNo' \in Keys
      /\ seqNoNext' \in Nat \ {0}
      /\ InOrder(timerList', timeoutAtUs', seqNo')
      /\ ToSet(timerList') = ToSet(list) \cup {t}
      /\ SeqNosDistinct'
  BY <1>2, <1>3, <1>4, RegisteredOne
<1>6. /\ isInterval' = [isInterval EXCEPT ![t] = interval.on]
      /\ durationIntervalUs' = [durationIntervalUs EXCEPT ![t] = interval.us]
      /\ UNCHANGED <<now, snapToUs, running>>
  BY DEF Timeout
<1>7. TypeOK'
  BY <1>1, <1>4, <1>5, <1>6 DEF TypeOK, Keys
<1>8. TimerListInOrder'
  BY <1>5, LenProperties DEF TimerListInOrder, InOrder
<1>9. IntervalKeepsGoing'
  <2>1. ToSet(timerList') = ToSet(timerList) \cup {t}
    BY <1>3, <1>5
  <2> QED
    BY <1>1, <1>6, <2>1 DEF IInv, IntervalKeepsGoing, TypeOK
<1>10. IntervalRunsOnce'
  <2>1. \A i \in DOMAIN running : running[i] \in ToSet(running) /\ running[i] \in Timers
    BY <1>1, LenProperties, ElementOfSeq DEF ToSet, TypeOK
  <2> QED
    BY <1>1, <1>6, <2>1 DEF IInv, IntervalRunsOnce, TypeOK
<1> QED
  BY <1>5, <1>7, <1>8, <1>9, <1>10 DEF IInv

(* Timer::Cancel preserves the invariant.                                 *)
LEMMA CancelIInv ==
  ASSUME IInv, NEW t \in Timers, Cancel(t)
  PROVE  IInv'
<1>1. TypeOK
  BY DEF IInv
<1>2. /\ timerList' \in Seq(Timers)
      /\ InOrder(timerList', timeoutAtUs, seqNo)
      /\ ToSet(timerList') = ToSet(timerList) \ {t}
  BY RemovedOne DEF Cancel
<1>3. /\ isInterval' = [isInterval EXCEPT ![t] = FALSE]
      /\ UNCHANGED <<now, timeoutAtUs, seqNo, seqNoNext, durationIntervalUs, snapToUs, running>>
  BY DEF Cancel
<1>4. TypeOK'
  BY <1>1, <1>2, <1>3 DEF TypeOK
<1>5. TimerListInOrder'
  BY <1>2, <1>3, LenProperties DEF TimerListInOrder, InOrder
<1>6. SeqNosDistinct'
  BY <1>2, <1>3 DEF IInv, SeqNosDistinct
<1>7. IntervalKeepsGoing'
  BY <1>1, <1>2, <1>3 DEF IInv, IntervalKeepsGoing, TypeOK
<1>8. IntervalRunsOnce'
  <2>1. \A i \in DOMAIN running : running[i] \in Timers
    BY <1>1, LenProperties, ElementOfSeq DEF TypeOK
  <2> QED
    BY <1>1, <1>3, <2>1 DEF IInv, IntervalRunsOnce, TypeOK
<1> QED
  BY <1>4, <1>5, <1>6, <1>7, <1>8 DEF IInv

(* Evm::ServiceTimers, up to the callback, preserves the invariant.       *)
LEMMA ServiceTimersIInv ==
  ASSUME IInv, ServiceTimers
  PROVE  IInv'
<1> DEFINE t == Head(timerList)
<1>1. TypeOK
  BY DEF IInv
<1>2. t \in Timers /\ t \in ToSet(timerList)
  BY <1>1, RunningElements DEF ServiceTimers, TypeOK
<1>3. /\ timerList' \in DeRegisterTimer(timerList, timeoutAtUs, seqNo, t)
      /\ running' = <<t>> \o running
      /\ Len(running) < MaxRunning
      /\ UNCHANGED <<now, timeoutAtUs, seqNo, seqNoNext, settings>>
  BY DEF ServiceTimers
<1> HIDE DEF t
<1>4. /\ timerList' \in Seq(Timers)
      /\ InOrder(timerList', timeoutAtUs, seqNo)
      /\ ToSet(timerList') = ToSet(timerList) \ {t}
  BY <1>2, <1>3, RemovedOne
<1>5. running \in Seq(Timers) /\ Len(running) \in Nat
  BY <1>1, LenProperties DEF TypeOK
<1>6. /\ running' \in Seq(Timers)
      /\ Len(running') = Len(running) + 1
      /\ running'[1] = t
      /\ \A i \in 2 .. Len(running) + 1 : running'[i] = running[i - 1]
  <2>1. <<t>> \in Seq(Timers) /\ Len(<<t>>) = 1 /\ <<t>>[1] = t
    BY <1>2
  <2>2. /\ <<t>> \o running \in Seq(Timers)
        /\ Len(<<t>> \o running) = Len(<<t>>) + Len(running)
        /\ \A i \in 1 .. Len(<<t>>) + Len(running) :
             (<<t>> \o running)[i] = IF i <= Len(<<t>>) THEN <<t>>[i] ELSE running[i - Len(<<t>>)]
    BY <1>5, <2>1, ConcatProperties
  <2> QED
    BY <1>3, <1>5, <2>1, <2>2
<1>7. DOMAIN running' = 1 .. Len(running) + 1 /\ DOMAIN running = 1 .. Len(running)
  BY <1>5, <1>6, LenProperties
<1>8. ToSet(running') = ToSet(running) \cup {t}
  <2>1. \A i \in 1 .. Len(running) + 1 : i = 1 \/ i \in 2 .. Len(running) + 1
    BY <1>5
  <2>2. \A i \in 2 .. Len(running) + 1 : i - 1 \in 1 .. Len(running)
    BY <1>5
  <2>3. \A i \in 1 .. Len(running) :
          i + 1 \in 2 .. Len(running) + 1 /\ i + 1 \in 1 .. Len(running) + 1 /\ (i + 1) - 1 = i
    BY <1>5
  <2>4. ToSet(running') \subseteq ToSet(running) \cup {t}
    <3> SUFFICES ASSUME NEW i \in 1 .. Len(running) + 1
                 PROVE  running'[i] \in ToSet(running) \cup {t}
      BY <1>7 DEF ToSet
    <3> QED
      BY <1>6, <1>7, <2>1, <2>2 DEF ToSet
  <2>5. ToSet(running) \subseteq ToSet(running')
    <3> SUFFICES ASSUME NEW i \in 1 .. Len(running) PROVE running[i] \in ToSet(running')
      BY <1>7 DEF ToSet
    <3>1. running'[i + 1] = running[i]
      BY <1>6, <2>3
    <3> QED
      BY <1>7, <2>3, <3>1 DEF ToSet
  <2>6. t \in ToSet(running')
    BY <1>5, <1>6, <1>7 DEF ToSet
  <2> QED
    BY <2>4, <2>5, <2>6
<1>9. TypeOK'
  BY <1>1, <1>3, <1>4, <1>5, <1>6, TimerAssumption DEF TypeOK, settings
<1>10. TimerListInOrder'
  BY <1>3, <1>4, LenProperties DEF TimerListInOrder, InOrder
<1>11. SeqNosDistinct'
  BY <1>3, <1>4 DEF IInv, SeqNosDistinct
<1>12. isInterval' = isInterval
  BY <1>3 DEF settings
<1>13. IntervalKeepsGoing'
  BY <1>2, <1>4, <1>8, <1>12 DEF IInv, IntervalKeepsGoing
<1>14. IntervalRunsOnce'
  <2> SUFFICES ASSUME NEW i \in 1 .. Len(running) + 1, NEW j \in 1 .. Len(running) + 1,
                      i < j, running'[i] = running'[j]
               PROVE  ~isInterval[running'[i]]
    BY <1>5, <1>7, <1>12 DEF IntervalRunsOnce
  <2>1. j - 1 \in 1 .. Len(running) /\ running'[j] = running[j - 1]
    BY <1>5, <1>6
  <2>2. CASE i = 1
    <3>1. t \in ToSet(running)
      BY <1>6, <1>7, <2>1, <2>2 DEF ToSet
    <3> QED
      BY <1>2, <1>6, <2>2, <3>1 DEF IInv, IntervalKeepsGoing
  <2>3. CASE i > 1
    <3>1. i - 1 \in 1 .. Len(running) /\ running'[i] = running[i - 1] /\ i - 1 # j - 1
      BY <1>5, <1>6, <2>3
    <3> QED
      BY <1>7, <2>1, <3>1 DEF IInv, IntervalRunsOnce
  <2> QED
    BY <2>2, <2>3
<1> QED
  BY <1>9, <1>10, <1>11, <1>13, <1>14 DEF IInv

(* The rest of Timer::OnTimeout preserves the invariant.                  *)
LEMMA OnTimeoutReturnsIInv ==
  ASSUME IInv, OnTimeoutReturns
  PROVE  IInv'
<1> DEFINE t == Head(running)
<1>1. TypeOK
  BY DEF IInv
<1>2. /\ running \in Seq(Timers) /\ running # <<>> /\ Len(running) \in Nat
      /\ running' = Tail(running)
      /\ UNCHANGED <<now, settings>>
  BY <1>1, LenProperties DEF OnTimeoutReturns, TypeOK
<1>3. /\ t \in Timers
      /\ running' \in Seq(Timers)
      /\ Len(running') = Len(running) - 1
      /\ \A i \in 1 .. Len(running) - 1 : running'[i] = running[i + 1]
      /\ ToSet(running) = {t} \cup ToSet(running')
  BY <1>2, RunningElements
<1>4. t = running[1] /\ Len(running) >= 1
  BY <1>2, HeadTailProperties, EmptySeq
<1>5. DOMAIN running = 1 .. Len(running) /\ DOMAIN running' = 1 .. Len(running) - 1
  BY <1>2, <1>3, LenProperties
<1>6. isInterval[t] => t \in ToSet(running) /\ t \notin ToSet(timerList) /\ t \notin ToSet(running')
  <2> SUFFICES ASSUME isInterval[t] PROVE t \notin ToSet(timerList) /\ t \notin ToSet(running')
    BY <1>3
  <2>1. t \notin ToSet(timerList)
    BY <1>3 DEF IInv, IntervalKeepsGoing
  <2>2. \A i \in 1 .. Len(running) - 1 : i + 1 \in 1 .. Len(running) /\ i + 1 # 1
    BY <1>2
  <2>3. \A i \in 1 .. Len(running) - 1 : running'[i] # t
    BY <1>2, <1>3, <1>4, <1>5, <2>2 DEF IInv, IntervalRunsOnce
  <2> QED
    BY <1>5, <2>1, <2>3 DEF ToSet
<1>7. IntervalRunsOnce'
  <2> SUFFICES ASSUME NEW i \in 1 .. Len(running) - 1, NEW j \in 1 .. Len(running) - 1,
                      i # j, running'[i] = running'[j]
               PROVE  ~isInterval[running'[i]]
    BY <1>2, <1>5 DEF IntervalRunsOnce, settings
  <2>1. /\ i + 1 \in 1 .. Len(running) /\ j + 1 \in 1 .. Len(running) /\ i + 1 # j + 1
        /\ running'[i] = running[i + 1] /\ running'[j] = running[j + 1]
    BY <1>2, <1>3
  <2> QED
    BY <1>5, <2>1 DEF IInv, IntervalRunsOnce
<1> HIDE DEF t
<1>8. CASE isInterval[t]
  <2>1. /\ timeoutAtUs' = [timeoutAtUs EXCEPT ![t] = @ + durationIntervalUs[t]]
        /\ Register(timerList, t)
    BY <1>8 DEF OnTimeoutReturns, t
  <2>2. timeoutAtUs' \in Keys /\ \A u \in Timers \ {t} : timeoutAtUs'[u] = timeoutAtUs[u]
    <3>1. timeoutAtUs[t] \in Nat /\ durationIntervalUs[t] \in Nat
      BY <1>1, <1>3 DEF TypeOK
    <3>2. timeoutAtUs[t] + durationIntervalUs[t] \in Nat
      BY <3>1
    <3>3. timeoutAtUs \in Keys
      BY <1>1 DEF TypeOK, Keys
    <3> QED
      BY <1>3, <2>1, <3>2, <3>3 DEF Keys
  <2>3. timerList \in Seq(Timers) /\ InOrder(timerList, timeoutAtUs, seqNo)
    BY <1>1, InOrderIsProperty DEF IInv, TypeOK
  <2>4. ToSet(timerList) \subseteq ToSet(timerList) \ {t}
    BY <1>6, <1>8
  <2>5. /\ timerList' \in Seq(Timers)
        /\ seqNo' \in Keys
        /\ seqNoNext' \in Nat \ {0}
        /\ InOrder(timerList', timeoutAtUs', seqNo')
        /\ ToSet(timerList') = ToSet(timerList) \cup {t}
        /\ SeqNosDistinct'
    BY <1>3, <2>1, <2>2, <2>3, <2>4, RegisteredOne
  <2>6. TypeOK'
    <3>1. Len(running') <= MaxRunning
      BY <1>1, <1>2, <1>3, TimerAssumption DEF TypeOK
    <3>2. timeoutAtUs' \in [Timers -> Nat] /\ seqNo' \in [Timers -> Nat]
      BY <2>2, <2>5 DEF Keys
    <3>3. UNCHANGED <<now, isInterval, durationIntervalUs, snapToUs>>
      BY <1>2 DEF settings
    <3> QED
      BY <1>1, <1>3, <2>5, <3>1, <3>2, <3>3 DEF TypeOK
  <2>7. TimerListInOrder'
    BY <2>5, LenProperties DEF TimerListInOrder, InOrder
  <2>8. IntervalKeepsGoing'
    BY <1>2, <1>3, <1>6, <1>8, <2>5 DEF IInv, IntervalKeepsGoing, settings
  <2> QED
    BY <1>7, <2>5, <2>6, <2>7, <2>8 DEF IInv
<1>9. CASE ~isInterval[t]
  <2>1. UNCHANGED <<timerList, timeoutAtUs, seqNo, seqNoNext>>
    BY <1>9 DEF OnTimeoutReturns, t
  <2>2. TypeOK'
    BY <1>1, <1>2, <1>3, <2>1, TimerAssumption, SMTT(30) DEF TypeOK, settings
  <2>3. TimerListInOrder' /\ SeqNosDistinct'
    BY <2>1 DEF IInv, TimerListInOrder, SeqNosDistinct
  <2>4. IntervalKeepsGoing'
    BY <1>2, <1>3, <1>9, <2>1 DEF IInv, IntervalKeepsGoing, settings
  <2> QED
    BY <1>7, <2>2, <2>3, <2>4 DEF IInv
<1> QED
  BY <1>8, <1>9

(* Every step preserves the invariant.                                    *)
LEMMA NextIInv ==
  ASSUME IInv, [Next]_vars
  PROVE  IInv'
<1>1. TypeOK
  BY DEF IInv
<1>2. CASE UNCHANGED vars
  BY <1>2 DEF IInv, vars, settings, TypeOK, TimerListInOrder, SeqNosDistinct,
              IntervalKeepsGoing, IntervalRunsOnce
<1>3. ASSUME NEW t \in Timers, NEW at \in Times, TimeoutAtUs(t, at) PROVE IInv'
  <2>1. at \in Nat /\ NoInterval \in [on : BOOLEAN, us : Nat] /\ ~NoInterval.on
    BY TimerAssumption DEF NoInterval
  <2> QED
    BY <1>3, <2>1, TimeoutIInv DEF TimeoutAtUs
<1>4. ASSUME NEW t \in Timers, NEW us \in Durations, TimeoutInUs(t, us) PROVE IInv'
  <2>1. now + us \in Nat /\ NoInterval \in [on : BOOLEAN, us : Nat] /\ ~NoInterval.on
    BY <1>1, TimerAssumption DEF TypeOK, NoInterval
  <2> QED
    BY <1>4, <2>1, TimeoutIInv DEF TimeoutInUs
<1>5. ASSUME NEW t \in Timers, NEW us \in Intervals, NEW firstInUs \in Intervals,
             TimeoutIntervalUs(t, us, firstInUs)
      PROVE  IInv'
  <2> DEFINE interval == [on |-> TRUE, us |-> us]
  <2>1. now + firstInUs \in Nat /\ interval \in [on : BOOLEAN, us : Nat]
    BY <1>1, TimerAssumption DEF TypeOK
  <2>2. t \notin ToSet(running) /\ Timeout(t, now + firstInUs, interval)
    BY <1>5 DEF TimeoutIntervalUs
  <2> HIDE DEF interval
  <2> QED
    BY <2>1, <2>2, TimeoutIInv
<1>6. ASSUME NEW t \in Timers, Cancel(t) PROVE IInv'
  BY <1>6, CancelIInv
<1>7. ASSUME NEW t \in Timers, NEW us \in Snaps, SetSnapToUs(t, us) PROVE IInv'
  <2>1. /\ snapToUs' = [snapToUs EXCEPT ![t] = us]
        /\ UNCHANGED <<now, timerList, timeoutAtUs, seqNo, seqNoNext, isInterval,
                       durationIntervalUs, running>>
    BY <1>7 DEF SetSnapToUs
  <2>2. TypeOK'
    BY <1>1, <2>1, TimerAssumption DEF TypeOK
  <2> QED
    BY <2>1, <2>2 DEF IInv, TimerListInOrder, SeqNosDistinct, IntervalKeepsGoing, IntervalRunsOnce
<1>8. CASE ServiceTimers
  BY <1>8, ServiceTimersIInv
<1>9. CASE OnTimeoutReturns
  BY <1>9, OnTimeoutReturnsIInv
<1>10. CASE Tick
  <2>1. TypeOK'
    BY <1>1, <1>10, TimerAssumption DEF TypeOK, Tick, settings
  <2> QED
    BY <1>10, <2>1 DEF IInv, Tick, settings, TimerListInOrder, SeqNosDistinct,
                       IntervalKeepsGoing, IntervalRunsOnce
<1> QED
  BY <1>2, <1>3, <1>4, <1>5, <1>6, <1>7, <1>8, <1>9, <1>10 DEF Next

(* The invariant holds in every reachable state.                          *)
THEOREM TimerInvariant == Spec => []IInv
<1>1. Init => IInv
  BY InitIInv
<1>2. IInv /\ [Next]_vars => IInv'
  BY NextIInv
<1> QED
  BY <1>1, <1>2, PTL DEF Spec

(* Every variable keeps its type.                                         *)
THEOREM TimerTypes == Spec => []TypeOK
<1>1. IInv => TypeOK
  BY DEF IInv
<1> QED
  BY <1>1, TimerInvariant, PTL

(* The list is always strictly in the order of the timers' keys: no timer *)
(* is in it twice, and no key changes while its timer is in it.           *)
THEOREM TimersInOrder == Spec => []TimerListInOrder
<1>1. IInv => TimerListInOrder
  BY DEF IInv
<1> QED
  BY <1>1, TimerInvariant, PTL

(* An interval timer nobody cancels is registered or in its callback.     *)
THEOREM IntervalsKeepGoing == Spec => []IntervalKeepsGoing
<1>1. IInv => IntervalKeepsGoing
  BY DEF IInv
<1> QED
  BY <1>1, TimerInvariant, PTL

(* A callback that starts is that of the earliest registered timer, the   *)
(* first registered among equals, and its time has come.                  *)
THEOREM TimersFireEarliestFirst == Spec => EarliestFirst
<1>1. ASSUME IInv, [Next]_vars PROVE [FiresEarliest]_vars
  <2>1. ASSUME ServiceTimers PROVE FiresEarliest
    <3> DEFINE t == Head(timerList)
    <3>1. /\ timerList \in Seq(Timers) /\ timerList # <<>>
          /\ running' = <<t>> \o running /\ timeoutAtUs[t] <= now
          /\ running \in Seq(Timers)
      BY <1>1, <2>1 DEF ServiceTimers, IInv, TypeOK
    <3>2. t = timerList[1] /\ t \in Timers /\ Len(timerList) >= 1
      BY <3>1, HeadTailProperties, EmptySeq, RunningElements
    <3> HIDE DEF t
    <3>3. Head(running') = t
      <4>1. /\ <<t>> \in Seq(Timers) /\ Len(<<t>>) = 1 /\ <<t>>[1] = t
        BY <3>2
      <4>2. /\ <<t>> \o running \in Seq(Timers)
            /\ Len(<<t>> \o running) = Len(<<t>>) + Len(running)
            /\ \A i \in 1 .. Len(<<t>>) + Len(running) :
                 (<<t>> \o running)[i] = IF i <= Len(<<t>>) THEN <<t>>[i] ELSE running[i - Len(<<t>>)]
        BY <3>1, <4>1, ConcatProperties
      <4>3. Len(running) \in Nat
        BY <3>1, LenProperties
      <4>4. running' \in Seq(Timers) /\ Len(running') = Len(running) + 1 /\ running'[1] = t
        BY <3>1, <4>1, <4>2, <4>3
      <4> QED
        BY <4>3, <4>4, HeadTailProperties, EmptySeq
    <3>4. ASSUME NEW u \in ToSet(timerList) \ {t} PROVE CmpTimer(timeoutAtUs, seqNo, t, u)
      <4>1. PICK i \in DOMAIN timerList : u = timerList[i]
        BY DEF ToSet
      <4>2. i \in 1 .. Len(timerList) /\ 1 \in DOMAIN timerList /\ 1 < i
        BY <3>1, <3>2, <3>4, <4>1, LenProperties
      <4> QED
        BY <1>1, <3>2, <4>1, <4>2 DEF IInv, TimerListInOrder
    <3> QED
      BY <3>1, <3>3, <3>4 DEF FiresEarliest, CmpTimer
  <2>2. ASSUME running' = running PROVE FiresEarliest
    <3>1. Len(running) \in Nat
      BY <1>1, LenProperties DEF IInv, TypeOK
    <3> QED
      BY <2>2, <3>1 DEF FiresEarliest
  <2>3. ASSUME OnTimeoutReturns PROVE FiresEarliest
    <3>1. Len(running) \in Nat /\ Len(running') = Len(running) - 1
      BY <1>1, <2>3, LenProperties, RunningElements DEF OnTimeoutReturns, IInv, TypeOK
    <3> QED
      BY <3>1 DEF FiresEarliest
  <2> QED
    BY <1>1, <2>1, <2>2, <2>3 DEF Next, vars, TimeoutAtUs, TimeoutInUs, TimeoutIntervalUs, Timeout,
       Cancel, SetSnapToUs, Tick
<1> QED
  BY <1>1, TimerInvariant, PTL DEF Spec, EarliestFirst
-----------------------------------------------------------------------------
(* Timer implements TimerService.  The list is the list of pending timers, *)
(* the expiry is the due time, and the flag and the duration together are  *)
(* the period; the sequence numbers, the searches and the snapping have no *)
(* counterpart.  Of the state, the mapping needs the inductive invariant,  *)
(* and that a timer snaps to what some client asked for.                   *)

Period == [t \in Timers |-> IF isInterval[t] THEN durationIntervalUs[t] ELSE -1]

SnapsAsked == \A t \in Timers : snapToUs[t] \in Snaps \cup {0}

(* The requests TimeoutAtUs, TimeoutInUs and TimeoutIntervalUs make.       *)
TimesAsked == Times \cup {n + us : n \in 0 .. MaxTime, us \in Durations \cup Intervals}
IntervalsAsked == {NoInterval} \cup [on : {TRUE}, us : Intervals]

(* Cancelling or firing the head of a list in order leaves its tail.       *)
LEMMA HeadRemoved ==
  ASSUME NEW list \in Seq(Timers), NEW at, NEW sn, list # <<>>, InOrder(list, at, sn)
  PROVE  Service!Without(list, Head(list)) = Tail(list)
<1>1. /\ Len(list) \in Nat \ {0} /\ DOMAIN list = 1 .. Len(list)
      /\ Head(list) = list[1]
      /\ Tail(list) \in Seq(Timers) /\ Len(Tail(list)) = Len(list) - 1
      /\ \A i \in 1 .. Len(list) - 1 : Tail(list)[i] = list[i + 1]
  BY LenProperties, EmptySeq, HeadTailProperties
<1>2. \A i \in DOMAIN list : list[i] = Head(list) <=> i = 1
  BY <1>1 DEF InOrder, CmpTimer
<1>3. 1 \in DOMAIN list
  BY <1>1
<1>4. (CHOOSE i \in DOMAIN list : list[i] = Head(list)) = 1
  BY <1>2, <1>3
<1>5. Service!Without(list, Head(list)) = Cut(list, 1, 2)
  BY <1>2, <1>3, <1>4 DEF Service!Without, Service!RemoveAt, Cut
<1>6. 1 \in 1 .. Len(list) + 1 /\ 2 \in 1 .. Len(list) + 1 /\ Len(list) - (2 - 1) = Len(list) - 1
  BY <1>1
<1>7. /\ Cut(list, 1, 2) \in Seq(Timers)
      /\ Len(Cut(list, 1, 2)) = Len(list) - 1
      /\ \A i \in 1 .. Len(list) - 1 : Cut(list, 1, 2)[i] = list[i + 1]
  <2>1. /\ Cut(list, 1, 2) \in Seq(Timers)
        /\ Len(Cut(list, 1, 2)) = Len(list) - (2 - 1)
        /\ \A i \in 1 .. Len(list) - (2 - 1) :
             Cut(list, 1, 2)[i] = IF i < 1 THEN list[i] ELSE list[i + (2 - 1)]
    BY <1>6, CutElements
  <2>2. ASSUME NEW i \in 1 .. Len(list) - 1 PROVE Cut(list, 1, 2)[i] = list[i + 1]
    <3>1. i \in 1 .. Len(list) - (2 - 1) /\ ~(i < 1) /\ i + (2 - 1) = i + 1
      BY <1>1
    <3> QED
      BY <2>1, <3>1
  <2> QED
    BY <1>6, <2>1, <2>2
<1>8. Cut(list, 1, 2) = Tail(list)
  BY <1>1, <1>7, SeqEqual
<1> QED
  BY <1>5, <1>8

(* Arming a timer in any of the three ways arms it.                        *)
LEMMA TimeoutArms ==
  ASSUME IInv, SnapsAsked, NEW t \in Timers, NEW at \in TimesAsked,
         NEW interval \in IntervalsAsked, Timeout(t, at, interval)
  PROVE  \E due \in ExpiryTimes, p \in Intervals \cup {-1} : Service!Arm(t, due, p)
<1> DEFINE due == SnapUp(at, snapToUs[t])
           p == IF interval.on THEN interval.us ELSE -1
<1>1. TypeOK
  BY DEF IInv
<1>2. /\ timeoutAtUs' = [timeoutAtUs EXCEPT ![t] = due]
      /\ isInterval' = [isInterval EXCEPT ![t] = interval.on]
      /\ durationIntervalUs' = [durationIntervalUs EXCEPT ![t] = interval.us]
      /\ UNCHANGED <<now, running>>
  BY DEF Timeout
<1>3. due \in ExpiryTimes
  BY DEF ExpiryTimes, SnapsAsked, TimesAsked
<1>4. p \in Intervals \cup {-1}
  <2>1. interval = NoInterval \/ interval \in [on : {TRUE}, us : Intervals]
    BY DEF IntervalsAsked
  <2>2. CASE interval = NoInterval
    BY <2>2 DEF NoInterval
  <2>3. CASE interval \in [on : {TRUE}, us : Intervals]
    BY <2>3
  <2> QED
    BY <2>1, <2>2, <2>3
<1>5. due \in Nat
  <2>1. at \in Nat
    BY <1>1, TimerAssumption DEF TimesAsked, TypeOK
  <2> QED
    BY <1>1, <2>1, SnapUpNat DEF TypeOK
<1>6. PICK list \in DeRegisterTimer(timerList, timeoutAtUs, seqNo, t) : Register(list, t)
  BY DEF Timeout
<1>7. /\ list \in Seq(Timers)
      /\ InOrder(list, timeoutAtUs, seqNo)
      /\ ToSet(list) \subseteq ToSet(timerList) \ {t}
      /\ list = Service!Without(timerList, t)
  BY <1>6, RemovedOne
<1>8. timeoutAtUs' \in Keys /\ \A u \in Timers \ {t} : timeoutAtUs'[u] = timeoutAtUs[u]
  BY <1>1, <1>2, <1>5 DEF TypeOK, Keys
<1>9. timerList' = Service!Enqueue(Service!Without(timerList, t), timeoutAtUs', t)
  BY <1>6, <1>7, <1>8, RegisteredOne
<1>10. Period' = [Period EXCEPT ![t] = p]
  BY <1>1, <1>2 DEF Period, TypeOK
<1>11. Service!Arm(t, due, p)
  BY <1>2, <1>9, <1>10 DEF Service!Arm, Period
<1> HIDE DEF due, p
<1> QED
  BY <1>3, <1>4, <1>11

(* Timer::Cancel cancels.                                                  *)
LEMMA CancelCancels ==
  ASSUME IInv, NEW t \in Timers, Cancel(t)
  PROVE  Service!Cancel(t)
<1>1. TypeOK
  BY DEF IInv
<1>2. timerList' = Service!Without(timerList, t)
  BY RemovedOne DEF Cancel
<1>3. Period' = [Period EXCEPT ![t] = -1]
  BY <1>1 DEF Cancel, Period, TypeOK
<1> QED
  BY <1>2, <1>3 DEF Cancel, Service!Cancel, Period

(* Evm::ServiceTimers fires the first pending timer.                       *)
LEMMA ServiceTimersFires ==
  ASSUME IInv, ServiceTimers
  PROVE  Service!Fire
<1>1. /\ timerList \in Seq(Timers) /\ timerList # <<>>
      /\ InOrder(timerList, timeoutAtUs, seqNo)
      /\ Head(timerList) \in Timers
  BY InOrderIsProperty, RunningElements DEF IInv, TypeOK, ServiceTimers
<1>2. timerList' = Service!Without(timerList, Head(timerList))
  BY <1>1, RemovedOne DEF ServiceTimers
<1>3. timerList' = Tail(timerList)
  BY <1>1, <1>2, HeadRemoved
<1> QED
  BY <1>3 DEF ServiceTimers, Service!Fire, settings

(* OnTimeout returns from the callback and re-arms an interval timer.      *)
LEMMA OnTimeoutReturnsReturns ==
  ASSUME IInv, OnTimeoutReturns
  PROVE  Service!Return
<1> DEFINE t == Head(running)
<1>1. TypeOK
  BY DEF IInv
<1>2. /\ running \in Seq(Timers) /\ running # <<>> /\ running' = Tail(running)
      /\ UNCHANGED <<now, settings>>
  BY <1>1 DEF OnTimeoutReturns, TypeOK
<1>3. t \in Timers /\ t \in ToSet(running)
  BY <1>2, RunningElements
<1>4. UNCHANGED Period
  BY <1>2 DEF Period, settings
<1>5. Period[t] = IF isInterval[t] THEN durationIntervalUs[t] ELSE -1
  BY <1>3 DEF Period
<1>6. CASE isInterval[t]
  <2>1. /\ timeoutAtUs' = [timeoutAtUs EXCEPT ![t] = @ + Period[t]]
        /\ Register(timerList, t)
    BY <1>5, <1>6 DEF OnTimeoutReturns
  <2>2. Period[t] \in Nat
    BY <1>1, <1>3, <1>5, <1>6 DEF TypeOK
  <2>3. timeoutAtUs' \in Keys /\ \A u \in Timers \ {t} : timeoutAtUs'[u] = timeoutAtUs[u]
    <3>1. timeoutAtUs[t] + Period[t] \in Nat
      BY <1>1, <1>3, <2>2 DEF TypeOK
    <3> QED
      BY <1>1, <1>3, <2>1, <3>1 DEF Keys, TypeOK
  <2>4. t \notin ToSet(timerList)
    BY <1>3, <1>6 DEF IInv, IntervalKeepsGoing
  <2>5. timerList' = Service!Enqueue(timerList, timeoutAtUs', t)
    <3>1. timerList \in Seq(Timers) /\ InOrder(timerList, timeoutAtUs, seqNo)
      BY <1>1, InOrderIsProperty DEF IInv, TypeOK
    <3>2. ToSet(timerList) \subseteq ToSet(timerList) \ {t}
      BY <2>4
    <3> QED
      BY <1>3, <2>1, <2>3, <3>1, <3>2, RegisteredOne
  <2>6. ~(Period[t] = -1 \/ t \in Service!ToSet(timerList))
    BY <2>2, <2>4 DEF Service!ToSet, ToSet
  <2> QED
    BY <1>2, <1>4, <2>1, <2>5, <2>6 DEF Service!Return, Period
<1>7. CASE ~isInterval[t]
  <2>1. UNCHANGED <<timerList, timeoutAtUs>>
    BY <1>7 DEF OnTimeoutReturns
  <2>2. Period[t] = -1
    BY <1>5, <1>7
  <2> QED
    BY <1>2, <1>4, <2>1, <2>2 DEF Service!Return, Period
<1> QED
  BY <1>6, <1>7

(* Every step is a step of the service, or changes nothing of it.          *)
LEMMA StepIsServiceStep ==
  ASSUME IInv, SnapsAsked, [Next]_vars
  PROVE  [Service!Next]_(Service!vars)
<1>1. now \in 0 .. MaxTime
  BY DEF IInv, TypeOK
<1>2. ASSUME NEW t \in Timers, NEW at \in TimesAsked, NEW interval \in IntervalsAsked,
             Timeout(t, at, interval)
      PROVE  Service!Next
  BY <1>2, TimeoutArms DEF Service!Next
<1>3. NoInterval \in IntervalsAsked
  BY DEF IntervalsAsked
<1>4. ASSUME NEW t \in Timers, NEW at \in Times, TimeoutAtUs(t, at) PROVE Service!Next
  <2>1. at \in TimesAsked
    BY DEF TimesAsked
  <2> QED
    BY <1>2, <1>3, <1>4, <2>1 DEF TimeoutAtUs
<1>5. ASSUME NEW t \in Timers, NEW us \in Durations, TimeoutInUs(t, us) PROVE Service!Next
  <2>1. now + us \in TimesAsked
    BY <1>1 DEF TimesAsked
  <2> QED
    BY <1>2, <1>3, <1>5, <2>1 DEF TimeoutInUs
<1>6. ASSUME NEW t \in Timers, NEW us \in Intervals, NEW firstInUs \in Intervals,
             TimeoutIntervalUs(t, us, firstInUs)
      PROVE  Service!Next
  <2>1. now + firstInUs \in TimesAsked
    BY <1>1 DEF TimesAsked
  <2>2. [on |-> TRUE, us |-> us] \in IntervalsAsked
    BY DEF IntervalsAsked
  <2> QED
    BY <1>2, <1>6, <2>1, <2>2 DEF TimeoutIntervalUs
<1>7. ASSUME NEW t \in Timers, Cancel(t) PROVE Service!Next
  BY <1>7, CancelCancels DEF Service!Next
<1>8. ASSUME NEW t \in Timers, NEW us \in Snaps, SetSnapToUs(t, us) PROVE UNCHANGED Service!vars
  BY <1>8 DEF SetSnapToUs, Service!vars
<1>9. CASE ServiceTimers
  BY <1>9, ServiceTimersFires DEF Service!Next
<1>10. CASE OnTimeoutReturns
  BY <1>10, OnTimeoutReturnsReturns DEF Service!Next
<1>11. CASE Tick
  BY <1>11 DEF Tick, settings, Service!Next, Service!Tick
<1>12. CASE UNCHANGED vars
  BY <1>12 DEF vars, settings, Service!vars
<1> QED
  BY <1>4, <1>5, <1>6, <1>7, <1>8, <1>9, <1>10, <1>11, <1>12 DEF Next

(* The sequence numbers, the comparator and the searches of the tree give   *)
(* exactly the first-in first-out service TimerService specifies.           *)
THEOREM TimerImplementsService == Spec => ImplementsService
<1>1. Init => Service!Init
  BY DEF Init, Service!Init
<1>2. Init => SnapsAsked
  BY DEF Init, SnapsAsked
<1>3. IInv /\ SnapsAsked /\ [Next]_vars => SnapsAsked'
  BY DEF SnapsAsked, IInv, TypeOK, Next, vars, settings, TimeoutAtUs, TimeoutInUs, TimeoutIntervalUs,
         Timeout, Cancel, SetSnapToUs, ServiceTimers, OnTimeoutReturns, Tick
<1>4. IInv /\ SnapsAsked /\ [Next]_vars => [Service!Next]_(Service!vars)
  BY StepIsServiceStep
<1> QED
  BY <1>1, <1>2, <1>3, <1>4, TimerInvariant, PTL DEF Spec, ImplementsService, Service!Spec
=============================================================================
