------------------------------ MODULE GpsProofs -------------------------------
(***************************************************************************)
(* Proofs about Gps, for any batches, callbacks and signals: what the      *)
(* reader knows and tells of a fix, and which satellites it shows.         *)
(***************************************************************************)
EXTENDS Gps, FiniteSetTheorems, SequenceTheorems, WellFoundedInduction, TLAPS

-----------------------------------------------------------------------------
(* Sequences of sequences.                                                 *)

(* A set of numbers has one whose predecessor is not in it: what holds of  *)
(* all numbers is shown by the least for which it does not.                *)
LEMMA HasFirst ==
  ASSUME NEW S \in SUBSET Nat, S # {}
  PROVE  \E m \in S : m - 1 \notin S
<1> DEFINE R == OpToRel(<, Nat)
<1>1. IsWellFoundedOn(R, Nat)
  BY NatLessThanWellFounded
<1>2. \A m \in Nat : m - 1 \in Nat => <<m - 1, m>> \in R
  BY DEF OpToRel
<1> HIDE DEF R
<1>3. PICK m \in S : \A k \in S : ~(<<k, m>> \in R)
  BY <1>1, WFMin
<1>4. m - 1 \notin S
  BY <1>2, <1>3
<1> QED
  BY <1>3, <1>4

(* What FlattenSeq computes, up to the n-th sequence.                      *)
Flattens(f, seqs, n) ==
  f = [i \in 1 .. n |-> IF i = 1 THEN seqs[i] ELSE f[i - 1] \o seqs[i]]

LEMMA FlattensUpTo ==
  ASSUME NEW seqs, NEW n \in Nat
  PROVE  \E f : Flattens(f, seqs, n)
<1> DEFINE P(m) == \E f : Flattens(f, seqs, m)
           Bad == {m \in Nat : ~P(m)}
<1>1. SUFFICES ASSUME Bad # {} PROVE FALSE
  <2>1. P(n)
    BY <1>1
  <2> QED
    BY <2>1
<1>2. PICK m \in Bad : m - 1 \notin Bad
  <2>1. Bad \subseteq Nat
    OBVIOUS
  <2> HIDE DEF Bad
  <2> QED
    BY <1>1, <2>1, HasFirst
<1>3. m \in Nat /\ ~P(m)
  BY <1>2
<1>4. m # 0
  <2>1. Flattens([i \in 1 .. 0 |-> seqs[i]], seqs, 0)
    BY DEF Flattens
  <2>2. P(0)
    BY <2>1
  <2> QED
    BY <1>3, <2>2
<1>5. PICK f : Flattens(f, seqs, m - 1)
  <2>1. m - 1 \in Nat
    BY <1>3, <1>4
  <2>2. P(m - 1)
    BY <1>2, <2>1
  <2> QED
    BY <2>2
<1> DEFINE g == [i \in 1 .. m |-> IF i < m THEN f[i] ELSE
                                    IF m = 1 THEN seqs[1] ELSE f[m - 1] \o seqs[m]]
<1>6. ASSUME NEW i \in 1 .. m
      PROVE  g[i] = IF i = 1 THEN seqs[i] ELSE g[i - 1] \o seqs[i]
  <2>1. CASE i < m
    <3>1. i \in 1 .. m - 1
      BY <1>3, <2>1
    <3>2. f[i] = IF i = 1 THEN seqs[i] ELSE f[i - 1] \o seqs[i]
      BY <1>5, <3>1 DEF Flattens
    <3>3. i # 1 => i - 1 \in 1 .. m /\ i - 1 < m
      BY <3>1, <1>3
    <3> QED
      BY <2>1, <3>2, <3>3
  <2>2. CASE i = m
    <3>1. i # 1 => i - 1 \in 1 .. m /\ i - 1 < m
      BY <2>2, <1>3
    <3> QED
      BY <2>2, <3>1
  <2> QED
    BY <2>1, <2>2, <1>3
<1>7. g = [i \in 1 .. m |-> g[i]]
  OBVIOUS
<1> HIDE DEF g
<1>8. Flattens(g, seqs, m)
  BY <1>6, <1>7 DEF Flattens
<1>9. P(m)
  BY <1>8
<1> QED
  BY <1>3, <1>9

(* A set of sequences that is closed under concatenation has what is       *)
(* flattened of its members.                                               *)
LEMMA FlattenedIn ==
  ASSUME NEW W, \A c, d \in W : c \o d \in W, NEW seqs \in Seq(W)
  PROVE  FlattenSeq(seqs) \in W \cup {<<>>}
<1>1. CASE Len(seqs) = 0
  <2>1. seqs = <<>>
    BY <1>1, EmptySeq
  <2> QED
    BY <1>1, <2>1 DEF FlattenSeq
<1>2. CASE Len(seqs) # 0
  <2> DEFINE n == Len(seqs)
             F == CHOOSE f : f = [i \in 1 .. n |-> IF i = 1 THEN seqs[i]
                                                      ELSE f[i - 1] \o seqs[i]]
             Bad == {i \in 1 .. n : F[i] \notin W}
  <2>1. n \in Nat /\ n \in 1 .. n /\ \A i \in 1 .. n : seqs[i] \in W
    BY <1>2
  <2>2. PICK f : Flattens(f, seqs, n)
    BY <2>1, FlattensUpTo
  <2>3. Flattens(F, seqs, n)
    BY <2>2 DEF Flattens
  <2>4. FlattenSeq(seqs) = F[n]
    BY <1>2 DEF FlattenSeq
  <2> HIDE DEF F
  <2>5. ASSUME NEW i \in 1 .. n, i - 1 \notin Bad PROVE F[i] \in W
    <3>1. F[i] = IF i = 1 THEN seqs[i] ELSE F[i - 1] \o seqs[i]
      BY <2>3 DEF Flattens
    <3>2. i # 1 => i - 1 \in 1 .. n
      BY <2>1
    <3>3. i # 1 => F[i - 1] \in W
      BY <2>5, <3>2
    <3>4. seqs[i] \in W
      BY <2>1
    <3> QED
      BY <3>1, <3>3, <3>4
  <2>6. Bad = {}
    <3>1. Bad \in SUBSET Nat
      BY <2>1
    <3>2. \A i \in Bad : i \in 1 .. n /\ F[i] \notin W
      OBVIOUS
    <3> HIDE DEF Bad
    <3> QED
      BY <2>5, <3>1, <3>2, HasFirst
  <2> QED
    BY <2>1, <2>4, <2>6
<1> QED
  BY <1>1, <1>2

-----------------------------------------------------------------------------
(* What the module says in a second.                                       *)

Sizes == 1 .. 255
Line(talker, seqNo, endSeqNo) ==
  [type |-> "GSV", talker |-> talker, seqNo |-> seqNo, endSeqNo |-> endSeqNo]
Gsvs == {Line(t, n, e) : t \in Talkers, n \in Sizes, e \in Sizes}
Lines == {[type |-> "GGA"], [type |-> "RMC"]} \cup Gsvs

(* The messages of a batch follow each other.                              *)
Whole(c) ==
  \A i \in DOMAIN c, t \in Talkers, n, e \in Sizes : c[i] = Line(t, n, e) =>
    /\ n <= e
    /\ n > 1 => i > 1 /\ c[i - 1] = Line(t, n - 1, e)
    /\ n < e => i < Len(c) /\ c[i + 1] = Line(t, n + 1, e)

Wholes == {c \in Seq(Lines) : Whole(c)}

LEMMA LinesAre ==
  /\ \A t, n, e : /\ Line(t, n, e).type = "GSV" /\ Line(t, n, e).talker = t
                  /\ Line(t, n, e).seqNo = n /\ Line(t, n, e).endSeqNo = e
  /\ \A line \in Lines : \/ line = [type |-> "GGA"] \/ line = [type |-> "RMC"]
                         \/ \E t \in Talkers, n, e \in Sizes : line = Line(t, n, e)
  /\ \A t \in Talkers, n, e \in Sizes : Line(t, n, e) \in Lines
<1>1. \A t, n, e : /\ Line(t, n, e).type = "GSV" /\ Line(t, n, e).talker = t
                  /\ Line(t, n, e).seqNo = n /\ Line(t, n, e).endSeqNo = e
  BY DEF Line
<1>2. \A line \in Lines : \/ line = [type |-> "GGA"] \/ line = [type |-> "RMC"]
                         \/ \E t \in Talkers, n, e \in Sizes : line = Line(t, n, e)
  BY DEF Lines, Gsvs
<1>3. \A t \in Talkers, n, e \in Sizes : Line(t, n, e) \in Lines
  BY DEF Lines, Gsvs
<1> QED
  BY <1>1, <1>2, <1>3

LEMMA WholesAddUp ==
  ASSUME NEW c \in Wholes, NEW d \in Wholes
  PROVE  c \o d \in Wholes
<1> DEFINE s == c \o d
<1>1. c \in Seq(Lines) /\ d \in Seq(Lines) /\ Whole(c) /\ Whole(d)
  BY DEF Wholes
<1>2. Len(c) \in Nat /\ Len(d) \in Nat /\ s \in Seq(Lines) /\ Len(s) = Len(c) + Len(d)
  BY <1>1
<1>3. \A i \in DOMAIN s : IF i <= Len(c) THEN i \in DOMAIN c /\ s[i] = c[i]
                          ELSE i - Len(c) \in DOMAIN d /\ s[i] = d[i - Len(c)]
  BY <1>1
<1>4. /\ \A i \in DOMAIN c : i \in DOMAIN s /\ i \in 1 .. Len(c) /\ s[i] = c[i]
      /\ \A i \in DOMAIN d : i + Len(c) \in DOMAIN s /\ i \in 1 .. Len(d) /\ s[i + Len(c)] = d[i]
  BY <1>1
<1>5. DOMAIN s = 1 .. Len(s) /\ DOMAIN c = 1 .. Len(c) /\ DOMAIN d = 1 .. Len(d)
  BY <1>1, <1>2
<1> HIDE DEF s
<1>6. ASSUME NEW i \in DOMAIN s, NEW t \in Talkers, NEW n \in Sizes, NEW e \in Sizes,
             s[i] = Line(t, n, e)
      PROVE  /\ n <= e
             /\ n > 1 => i > 1 /\ s[i - 1] = Line(t, n - 1, e)
             /\ n < e => i < Len(s) /\ s[i + 1] = Line(t, n + 1, e)
  <2>1. CASE i <= Len(c)
    <3>1. i \in DOMAIN c /\ c[i] = Line(t, n, e)
      BY <2>1, <1>3, <1>6
    <3>2. /\ n <= e
          /\ n > 1 => i > 1 /\ c[i - 1] = Line(t, n - 1, e)
          /\ n < e => i < Len(c) /\ c[i + 1] = Line(t, n + 1, e)
      BY <3>1, <1>1 DEF Whole
    <3>3. i > 1 => s[i - 1] = c[i - 1]
      BY <3>1, <1>4, <1>5, <1>2
    <3>4. i < Len(c) => s[i + 1] = c[i + 1]
      BY <3>1, <1>4, <1>5, <1>2
    <3>5. i < Len(c) => i < Len(s)
      BY <3>1, <1>2, <1>5
    <3> QED
      BY <3>2, <3>3, <3>4, <3>5
  <2>2. CASE i > Len(c)
    <3> DEFINE j == i - Len(c)
    <3>0. j = i - Len(c)
      OBVIOUS
    <3>1. j \in DOMAIN d /\ d[j] = Line(t, n, e) /\ i \in Nat /\ j \in Nat
      BY <2>2, <1>3, <1>6, <1>2, <1>5
    <3> HIDE DEF j
    <3>2. /\ n <= e
          /\ n > 1 => j > 1 /\ d[j - 1] = Line(t, n - 1, e)
          /\ n < e => j < Len(d) /\ d[j + 1] = Line(t, n + 1, e)
      BY <3>1, <1>1 DEF Whole
    <3>3. j > 1 => s[i - 1] = d[j - 1]
      <4>1. ASSUME j > 1 PROVE j - 1 \in DOMAIN d /\ (j - 1) + Len(c) = i - 1
        BY <3>0, <3>1, <4>1, <1>5, <1>2
      <4> QED
        BY <4>1, <1>4
    <3>4. j < Len(d) => s[i + 1] = d[j + 1]
      <4>1. ASSUME j < Len(d) PROVE j + 1 \in DOMAIN d /\ (j + 1) + Len(c) = i + 1
        BY <3>0, <3>1, <4>1, <1>5, <1>2
      <4> QED
        BY <4>1, <1>4
    <3>5. (j > 1 => i > 1) /\ (j < Len(d) => i < Len(s))
      BY <3>0, <3>1, <1>2
    <3> QED
      BY <3>2, <3>3, <3>4, <3>5
  <2> QED
    BY <2>1, <2>2, <1>2, <1>5
<1>7. Whole(s)
  BY <1>6 DEF Whole
<1> QED
  BY <1>2, <1>7 DEF Wholes, s

LEMMA BatchIsWhole ==
  ASSUME NEW t \in Talkers, NEW e \in Sizes
  PROVE  Gsv([talker |-> t, endSeqNo |-> e]) \in Wholes
<1> DEFINE g == Gsv([talker |-> t, endSeqNo |-> e])
<1>1. g = [i \in 1 .. e |-> Line(t, i, e)] /\ e \in Nat
  BY DEF Gsv, Line, Sizes
<1> HIDE DEF g
<1>2. \A i \in 1 .. e : i \in Sizes
  BY DEF Sizes
<1>3. \A i \in 1 .. e : g[i] = Line(t, i, e) /\ g[i] \in Lines
  BY <1>1, <1>2, LinesAre
<1>4. g \in Seq(Lines) /\ Len(g) = e /\ DOMAIN g = 1 .. e
  BY <1>1, <1>3
<1>5. ASSUME NEW i \in DOMAIN g, NEW u \in Talkers, NEW n \in Sizes, NEW f \in Sizes,
             g[i] = Line(u, n, f)
      PROVE  /\ n <= f
             /\ n > 1 => i > 1 /\ g[i - 1] = Line(u, n - 1, f)
             /\ n < f => i < Len(g) /\ g[i + 1] = Line(u, n + 1, f)
  <2>1. i \in 1 .. e /\ u = t /\ n = i /\ f = e
    <3>1. i \in 1 .. e /\ Line(t, i, e) = Line(u, n, f)
      BY <1>3, <1>4, <1>5
    <3> QED
      BY <3>1 DEF Line
  <2>2. (i > 1 => i - 1 \in 1 .. e) /\ (i < e => i + 1 \in 1 .. e)
    BY <2>1, <1>1
  <2> QED
    BY <2>1, <2>2, <1>3, <1>4, <1>1
<1>6. Whole(g)
  BY <1>5 DEF Whole
<1> QED
  BY <1>4, <1>6 DEF Wholes, g

LEMMA CycleIsWhole == Cycle \in Wholes
<1> DEFINE batches == [i \in DOMAIN Batches |-> Gsv(Batches[i])]
<1>1. Batches \in Seq([talker : Talkers, endSeqNo : Sizes])
  BY GpsAssumption DEF Sizes
<1>2. \A i \in DOMAIN Batches : Gsv(Batches[i]) \in Wholes
  <2>1. \A i \in DOMAIN Batches : Batches[i] \in [talker : Talkers, endSeqNo : Sizes]
    <3> DEFINE B == [talker : Talkers, endSeqNo : Sizes]
    <3>1. Batches \in Seq(B)
      BY <1>1
    <3> HIDE DEF B
    <3>2. \A i \in DOMAIN Batches : Batches[i] \in B
      BY <3>1
    <3> QED
      BY <3>2 DEF B
  <2>2. \A b \in [talker : Talkers, endSeqNo : Sizes] :
           b = [talker |-> b.talker, endSeqNo |-> b.endSeqNo]
    OBVIOUS
  <2>3. \A b \in [talker : Talkers, endSeqNo : Sizes] : Gsv(b) \in Wholes
    BY <2>2, BatchIsWhole
  <2> QED
    BY <2>1, <2>3
<1>3. batches \in Seq(Wholes)
  <2>1. batches \in [1 .. Len(Batches) -> Wholes] /\ Len(Batches) \in Nat
    BY <1>1, <1>2
  <2> HIDE DEF batches
  <2> QED
    BY <2>1
<1>4. <<>> \in Wholes
  BY DEF Wholes, Whole
<1>5. ASSUME NEW line \in {[type |-> "GGA"], [type |-> "RMC"]} PROVE <<line>> \in Wholes
  <2>1. \A t \in Talkers, n, e \in Sizes : line # Line(t, n, e)
    BY DEF Line
  <2>2. <<line>> \in Seq(Lines) /\ DOMAIN <<line>> = {1} /\ <<line>>[1] = line
    BY DEF Lines
  <2> QED
    BY <2>1, <2>2 DEF Wholes, Whole
<1>6. FlattenSeq(batches) \in Wholes
  <2> HIDE DEF batches
  <2> QED
    BY <1>3, <1>4, WholesAddUp, FlattenedIn
<1>7. <<[type |-> "GGA"]>> \o FlattenSeq(batches) \in Wholes
  BY <1>5, <1>6, WholesAddUp
<1>8. (<<[type |-> "GGA"]>> \o FlattenSeq(batches)) \o <<[type |-> "RMC"]>> \in Wholes
  BY <1>5, <1>7, WholesAddUp
<1> QED
  BY <1>8 DEF Cycle

-----------------------------------------------------------------------------
(* Times, and what is known of a fix.                                      *)

Kinds == {"blank", "fraction", "round"}
Times == [kind : Kinds, second : Nat]
Dates == 0 .. 2
SatMessages == [talker : Talkers, second : Nat, seqNo : Sizes, endSeqNo : Sizes]

DataType ==
  [timeAtTimeLockUs : BOOLEAN, timeAtFix2dUs : BOOLEAN, timeAtFix3dUs : BOOLEAN,
   timeAtSpeedCourseUs : BOOLEAN, satDataGPList : Seq(SatMessages),
   satDataBDList : Seq(SatMessages), timeStr : Times, dateStr : Dates,
   consecutiveRoundCount : 0 .. 2, timeRoundLast : Times]

(* The handlers go on after OnFixTime: what was known is gone then, if     *)
(* that callback resets.                                                   *)
KeepsTime == "FixTime" \notin CallbackResets

Complete(d) ==
  KeepsTime =>
    /\ d.timeAtFix2dUs => d.timeAtTimeLockUs /\ d.timeStr # Blank
    /\ d.timeAtFix3dUs \/ d.timeAtSpeedCourseUs => d.timeAtFix2dUs

(* The count is one of times that were seen.                               *)
Two(seen) == \E a, b \in seen : a # b
Counted(d, seen) ==
  /\ IsFiniteSet(seen)
  /\ d.consecutiveRoundCount = 1 => d.timeRoundLast \in seen
  /\ d.consecutiveRoundCount = 2 => Two(seen)

LEMMA TwoAreTwo ==
  ASSUME NEW S, IsFiniteSet(S), Two(S)
  PROVE  Cardinality(S) >= 2
<1>1. PICK a, b \in S : a # b
  BY DEF Two
<1>2. Cardinality({a, b}) = 2
  <2>1. IsFiniteSet({a}) /\ Cardinality({a}) = 1
    BY FS_Singleton
  <2>2. {a, b} = {a} \cup {b} /\ b \notin {a}
    BY <1>1
  <2> QED
    BY <2>1, <2>2, FS_AddElement
<1>3. {a, b} \subseteq S
  OBVIOUS
<1>4. Cardinality({a, b}) <= Cardinality(S)
  BY <1>3, FS_Subset
<1>5. Cardinality(S) \in Nat
  BY FS_CardinalityType
<1> QED
  BY <1>2, <1>4, <1>5

LEMMA EmptyData ==
  /\ AccumulatedData \in DataType /\ Complete(AccumulatedData)
  /\ AccumulatedData.satDataGPList = <<>> /\ AccumulatedData.satDataBDList = <<>>
  /\ Counted(AccumulatedData, {}) /\ AccumulatedData.dateStr = NoDate
<1>1. Blank \in Times
  BY DEF Blank, Times, Kinds
<1>2. <<>> \in Seq(SatMessages)
  OBVIOUS
<1>3. AccumulatedData \in DataType
  BY <1>1, <1>2 DEF AccumulatedData, DataType, NoDate, Dates
<1>4. Complete(AccumulatedData)
  BY DEF AccumulatedData, Complete
<1>5. Counted(AccumulatedData, {})
  BY FS_EmptySet DEF AccumulatedData, Counted
<1> QED
  BY <1>3, <1>4, <1>5 DEF AccumulatedData

Seen(time, seen) == IF time.kind # "round" THEN {} ELSE seen \cup {time}

LEMMA TimeStateTypes ==
  ASSUME NEW d \in DataType, NEW time \in Times
  PROVE  LET e == TimeState(d, time) IN
         /\ e \in DataType
         /\ e.satDataGPList = d.satDataGPList /\ e.satDataBDList = d.satDataBDList
         /\ e.timeAtTimeLockUs = d.timeAtTimeLockUs /\ e.timeStr = d.timeStr
         /\ e.timeAtFix2dUs = d.timeAtFix2dUs /\ e.timeAtFix3dUs = d.timeAtFix3dUs
         /\ e.timeAtSpeedCourseUs = d.timeAtSpeedCourseUs /\ e.dateStr = d.dateStr
<1>1. Blank \in Times
  BY DEF Blank, Times, Kinds
<1>2. CASE time.kind # "round"
  <2>1. TimeState(d, time) = [d EXCEPT !.consecutiveRoundCount = 0, !.timeRoundLast = Blank]
    BY <1>2 DEF TimeState
  <2> DEFINE f == [d EXCEPT !.consecutiveRoundCount = 0, !.timeRoundLast = Blank]
  <2>2. f \in DataType
    <3>1. \A n \in 0 .. 2, b \in Times :
             [d EXCEPT !.consecutiveRoundCount = n, !.timeRoundLast = b] \in DataType
      BY DEF DataType
    <3>2. 0 \in 0 .. 2
      OBVIOUS
    <3> QED
      BY <1>1, <3>1, <3>2
  <2>3. /\ f.timeAtTimeLockUs = d.timeAtTimeLockUs /\ f.timeStr = d.timeStr
        /\ f.timeAtFix2dUs = d.timeAtFix2dUs /\ f.timeAtFix3dUs = d.timeAtFix3dUs
        /\ f.timeAtSpeedCourseUs = d.timeAtSpeedCourseUs /\ f.dateStr = d.dateStr
        /\ f.satDataGPList = d.satDataGPList /\ f.satDataBDList = d.satDataBDList
    BY DEF DataType
  <2> QED
    BY <2>1, <2>2, <2>3
<1>3. CASE time.kind = "round" /\ (time = d.timeRoundLast \/ d.consecutiveRoundCount = 2)
  BY <1>3 DEF TimeState, COUNT_THRESHOLD
<1>4. CASE time.kind = "round" /\ time # d.timeRoundLast /\ d.consecutiveRoundCount # 2
  <2>1. d.consecutiveRoundCount + 1 \in 0 .. 2
    BY <1>4 DEF DataType
  <2>2. TimeState(d, time) = [d EXCEPT !.consecutiveRoundCount = d.consecutiveRoundCount + 1,
                                       !.timeRoundLast = time]
    BY <1>4 DEF TimeState, COUNT_THRESHOLD
  <2> QED
    BY <2>1, <2>2 DEF DataType
<1> QED
  BY <1>2, <1>3, <1>4

LEMMA TimeStateCounts ==
  ASSUME NEW d \in DataType, NEW time \in Times, NEW seen, Counted(d, seen)
  PROVE  /\ Counted(TimeState(d, time), Seen(time, seen))
         /\ TimeStateIsValid(d, time) => Two(Seen(time, seen))
<1> DEFINE e == TimeState(d, time)
<1>1. IsFiniteSet(Seen(time, seen))
  BY FS_EmptySet, FS_AddElement DEF Seen, Counted
<1>2. d.consecutiveRoundCount \in 0 .. 2
  BY DEF DataType
<1>3. CASE time.kind # "round"
  <2>1. e.consecutiveRoundCount = 0
    BY <1>3 DEF TimeState, DataType
  <2>2. ~TimeStateIsValid(d, time)
    BY <1>3 DEF TimeStateIsValid
  <2> QED
    BY <2>1, <2>2, <1>1 DEF Counted
<1>4. CASE time.kind = "round" /\ time = d.timeRoundLast
  <2>1. e = d /\ ~TimeStateIsValid(d, time) /\ Seen(time, seen) = seen \cup {time}
    BY <1>4 DEF TimeState, TimeStateIsValid, Seen
  <2> QED
    BY <2>1, <1>1 DEF Counted, Two
<1>5. CASE time.kind = "round" /\ time # d.timeRoundLast /\ d.consecutiveRoundCount = 2
  <2>1. e = d /\ Seen(time, seen) = seen \cup {time}
    BY <1>5 DEF TimeState, COUNT_THRESHOLD, Seen
  <2>2. Two(seen)
    BY <1>5 DEF Counted
  <2>3. Two(Seen(time, seen))
    BY <2>1, <2>2 DEF Two
  <2> QED
    BY <2>1, <2>3, <1>1, <1>5 DEF Counted
<1>6. CASE time.kind = "round" /\ time # d.timeRoundLast /\ d.consecutiveRoundCount # 2
  <2>1. e = [d EXCEPT !.consecutiveRoundCount = d.consecutiveRoundCount + 1,
                      !.timeRoundLast = time]
    BY <1>6 DEF TimeState, COUNT_THRESHOLD
  <2>2. e.consecutiveRoundCount = d.consecutiveRoundCount + 1 /\ e.timeRoundLast = time
    BY <2>1 DEF DataType
  <2>3. Seen(time, seen) = seen \cup {time}
    BY <1>6 DEF Seen
  <2>4. e.consecutiveRoundCount = 2 => d.consecutiveRoundCount = 1
    BY <2>2, <1>2
  <2>5. e.consecutiveRoundCount = 2 => d.timeRoundLast \in seen
    BY <2>4 DEF Counted
  <2>6. e.consecutiveRoundCount = 2 => Two(Seen(time, seen))
    BY <2>3, <2>5, <1>6 DEF Two
  <2>7. TimeStateIsValid(d, time) => e.consecutiveRoundCount = 2
    BY DEF TimeStateIsValid, COUNT_THRESHOLD
  <2> HIDE DEF e
  <2>8. Counted(e, Seen(time, seen))
    BY <1>1, <2>2, <2>3, <2>6 DEF Counted
  <2> QED
    BY <2>6, <2>7, <2>8 DEF e
<1> QED
  BY <1>3, <1>4, <1>5, <1>6

-----------------------------------------------------------------------------
(* Handlers: what they leave of data_, and what they told.                 *)

Callbacks == {"FixTime", "Fix2D", "Fix3D", "Fix3DPlus"}
ToldType == [cb : Callbacks, time : Times, date : Dates]
HandlerType == [d : DataType, told : SUBSET ToldType]

HasReset(told_) == \E t \in told_ : t.cb \in CallbackResets

(* The satellites stay, if not for a reset.                                *)
SatsKept(d) == /\ d.satDataGPList \in {data_.satDataGPList, <<>>}
               /\ d.satDataBDList \in {data_.satDataBDList, <<>>}

(* A handler in progress, of times that were seen and dates to tell.       *)
Sound(h, seen, dates) ==
  /\ h \in HandlerType /\ Complete(h.d) /\ SatsKept(h.d)
  /\ Counted(h.d, IF HasReset(h.told) THEN {} ELSE seen)
  /\ h.d.dateStr \in dates /\ \A t \in h.told : t.date \in dates

LEMMA NotifyIsSound ==
  ASSUME NEW h, NEW seen, NEW dates \in SUBSET Dates, NoDate \in dates, Sound(h, seen, dates),
         NEW cb \in Callbacks
  PROVE  /\ Sound(Notify(h, cb), seen, dates)
         /\ cb \notin CallbackResets => Notify(h, cb).d = h.d
<1>1. CASE ~(cb \in cbSet /\ Has(h.d, cb))
  BY <1>1 DEF Notify
<1>2. CASE cb \in cbSet /\ Has(h.d, cb)
  <2> DEFINE t == [cb |-> cb, time |-> h.d.timeStr, date |-> h.d.dateStr]
             g == Notify(h, cb)
  <2>1. g = [d |-> IF cb \in CallbackResets THEN AccumulatedData ELSE h.d,
             told |-> h.told \cup {t}]
    BY <1>2 DEF Notify
  <2>2. g.d = (IF cb \in CallbackResets THEN AccumulatedData ELSE h.d)
        /\ g.told = h.told \cup {t}
    BY <2>1
  <2>3. h.d \in DataType /\ h.told \in SUBSET ToldType
    BY DEF Sound, HandlerType
  <2>4. t \in ToldType /\ t.cb = cb /\ t.date = h.d.dateStr
    BY <2>3 DEF ToldType, DataType
  <2>5. g \in HandlerType
    BY <2>1, <2>3, <2>4, EmptyData DEF HandlerType
  <2> HIDE DEF g, t
  <2>6. Complete(g.d) /\ SatsKept(g.d)
    BY <2>2, EmptyData DEF Sound, SatsKept
  <2>7. HasReset(g.told) <=> HasReset(h.told) \/ cb \in CallbackResets
    BY <2>2, <2>4 DEF HasReset
  <2>8. Counted(g.d, IF HasReset(g.told) THEN {} ELSE seen)
    BY <2>2, <2>7, EmptyData DEF Sound
  <2>9. g.d.dateStr \in dates /\ \A u \in g.told : u.date \in dates
    BY <2>2, <2>4, EmptyData DEF Sound
  <2> QED
    BY <2>2, <2>5, <2>6, <2>8, <2>9 DEF Sound, g
<1> QED
  BY <1>1, <1>2

LEMMA NotifyFixIsSound ==
  ASSUME NEW h, NEW seen, NEW dates \in SUBSET Dates, NoDate \in dates, Sound(h, seen, dates)
  PROVE  Sound(NotifyFix(h), seen, dates)
<1>1. Sound(Notify(h, "Fix2D"), seen, dates)
  BY NotifyIsSound DEF Callbacks
<1>2. Sound(Notify(Notify(h, "Fix2D"), "Fix3D"), seen, dates)
  BY <1>1, NotifyIsSound DEF Callbacks
<1>3. Sound(Notify(Notify(Notify(h, "Fix2D"), "Fix3D"), "Fix3DPlus"), seen, dates)
  BY <1>2, NotifyIsSound DEF Callbacks
<1> QED
  BY <1>3 DEF NotifyFix

(* A time that is valid, with the date or without it.                      *)
Locked(d, time, date) ==
  [d EXCEPT !.timeStr = time, !.dateStr = date, !.timeAtTimeLockUs = TRUE]

LEMMA LockIsSound ==
  ASSUME NEW d \in DataType, NEW time \in Times, time # Blank, NEW seen, NEW date,
         NEW dates \in SUBSET Dates, date \in dates, Complete(d), Counted(d, seen),
         SatsKept(d)
  PROVE  /\ Sound([d |-> Locked(d, time, date), told |-> {}], seen, dates)
         /\ Locked(d, time, date).timeAtTimeLockUs /\ Locked(d, time, date).timeStr = time
<1> DEFINE e == Locked(d, time, date)
<1>1. e \in DataType
  BY DEF Locked, DataType
<1>2. /\ e.timeAtTimeLockUs /\ e.timeStr = time /\ e.dateStr = date
      /\ e.timeAtFix2dUs = d.timeAtFix2dUs /\ e.timeAtFix3dUs = d.timeAtFix3dUs
      /\ e.timeAtSpeedCourseUs = d.timeAtSpeedCourseUs
      /\ e.consecutiveRoundCount = d.consecutiveRoundCount
      /\ e.timeRoundLast = d.timeRoundLast
      /\ e.satDataGPList = d.satDataGPList /\ e.satDataBDList = d.satDataBDList
  BY DEF Locked, DataType
<1> HIDE DEF e
<1>3. Complete(e) /\ SatsKept(e)
  BY <1>2 DEF Complete, SatsKept
<1>4. Counted(e, seen)
  BY <1>2 DEF Counted
<1> DEFINE h == [d |-> e, told |-> {}]
<1>5. h \in HandlerType /\ h.d = e /\ h.told = {}
  BY <1>1 DEF HandlerType
<1> HIDE DEF h
<1>6. Sound(h, seen, dates)
  BY <1>2, <1>3, <1>4, <1>5 DEF Sound, HasReset
<1> QED
  BY <1>2, <1>6 DEF e, h

(* The position is taken, and the altitude or the speed with it.           *)
LEMMA FixIsSound ==
  ASSUME NEW h, NEW seen, NEW dates, Sound(h, seen, dates),
         KeepsTime => h.d.timeAtTimeLockUs /\ h.d.timeStr # Blank
  PROVE  /\ Sound([h EXCEPT !.d.timeAtFix2dUs = TRUE, !.d.timeAtSpeedCourseUs = TRUE],
                  seen, dates)
         /\ Sound([h EXCEPT !.d.timeAtFix2dUs = TRUE, !.d.timeAtFix3dUs = TRUE], seen, dates)
<1>1. h \in HandlerType /\ h.d \in DataType
  BY DEF Sound, HandlerType
<1>2. ASSUME NEW e \in DataType, NEW g, g = [h EXCEPT !.d = e],
             e.timeAtTimeLockUs = h.d.timeAtTimeLockUs, e.timeStr = h.d.timeStr,
             e.timeAtFix2dUs, e.dateStr = h.d.dateStr,
             e.consecutiveRoundCount = h.d.consecutiveRoundCount,
             e.timeRoundLast = h.d.timeRoundLast,
             e.satDataGPList = h.d.satDataGPList, e.satDataBDList = h.d.satDataBDList
      PROVE  Sound(g, seen, dates)
  <2>1. g \in HandlerType /\ g.d = e /\ g.told = h.told
    BY <1>1, <1>2 DEF HandlerType
  <2>2. Complete(e) /\ SatsKept(e)
    BY <1>2 DEF Complete, Sound, SatsKept
  <2>3. Counted(h.d, IF HasReset(h.told) THEN {} ELSE seen)
    BY DEF Sound
  <2>4. Counted(e, IF HasReset(h.told) THEN {} ELSE seen)
    BY <1>2, <2>3 DEF Counted
  <2>5. e.dateStr \in dates /\ \A t \in g.told : t.date \in dates
    BY <1>2, <2>1 DEF Sound
  <2> QED
    BY <2>1, <2>2, <2>4, <2>5 DEF Sound
<1> DEFINE p == [h.d EXCEPT !.timeAtFix2dUs = TRUE, !.timeAtSpeedCourseUs = TRUE]
           q == [h.d EXCEPT !.timeAtFix2dUs = TRUE, !.timeAtFix3dUs = TRUE]
<1>3. p \in DataType /\ q \in DataType
  BY <1>1 DEF DataType
<1>4. /\ p.timeAtTimeLockUs = h.d.timeAtTimeLockUs /\ p.timeStr = h.d.timeStr
      /\ p.timeAtFix2dUs /\ p.dateStr = h.d.dateStr
      /\ p.consecutiveRoundCount = h.d.consecutiveRoundCount
      /\ p.timeRoundLast = h.d.timeRoundLast
      /\ p.satDataGPList = h.d.satDataGPList /\ p.satDataBDList = h.d.satDataBDList
  BY <1>1 DEF DataType
<1>5. /\ q.timeAtTimeLockUs = h.d.timeAtTimeLockUs /\ q.timeStr = h.d.timeStr
      /\ q.timeAtFix2dUs /\ q.dateStr = h.d.dateStr
      /\ q.consecutiveRoundCount = h.d.consecutiveRoundCount
      /\ q.timeRoundLast = h.d.timeRoundLast
      /\ q.satDataGPList = h.d.satDataGPList /\ q.satDataBDList = h.d.satDataBDList
  BY <1>1 DEF DataType
<1>6. /\ [h EXCEPT !.d.timeAtFix2dUs = TRUE, !.d.timeAtSpeedCourseUs = TRUE] = [h EXCEPT !.d = p]
      /\ [h EXCEPT !.d.timeAtFix2dUs = TRUE, !.d.timeAtFix3dUs = TRUE] = [h EXCEPT !.d = q]
  BY <1>1 DEF HandlerType, DataType
<1> HIDE DEF p, q
<1>7. Sound([h EXCEPT !.d = p], seen, dates)
  BY <1>2, <1>3, <1>4
<1>8. Sound([h EXCEPT !.d = q], seen, dates)
  BY <1>2, <1>3, <1>5
<1> QED
  BY <1>6, <1>7, <1>8

LEMMA RmcAndGgaAreSound ==
  ASSUME data_ \in DataType, Complete(data_), Counted(data_, roundTimes),
         second \in Nat, day \in {0, 1}, signal.time \in Kinds
  PROVE  /\ Sound(OnRMC, Seen(Time, roundTimes), Dates)
         /\ Sound(OnGGA, Seen(Time, roundTimes), Dates)
         /\ OnRMC.told # {} \/ OnGGA.told # {} => Two(Seen(Time, roundTimes))
         /\ TimeStateIsValid(data_, Time) => Sound(OnRMC, Seen(Time, roundTimes), {day, NoDate})
         /\ data_.dateStr \in {day, NoDate}
              => /\ Sound(OnRMC, Seen(Time, roundTimes), {day, NoDate})
                 /\ Sound(OnGGA, Seen(Time, roundTimes), {day, NoDate})
<1> DEFINE seen == Seen(Time, roundTimes)
           valid == TimeStateIsValid(data_, Time)
           d == TimeState(data_, Time)
           none == [d |-> d, told |-> {}]
           lock(date) == [d |-> Locked(d, Time, date), told |-> {}]
           h(date) == Notify(lock(date), "FixTime")
           days == {day, NoDate}
<1>1. Time \in Times /\ (Time.kind = "round" => Time # Blank)
  BY DEF Time, Times, Kinds, Blank
<1>2. /\ d \in DataType /\ Complete(d) /\ SatsKept(d) /\ d.dateStr = data_.dateStr
      /\ Counted(d, seen) /\ (valid => Two(seen))
  <2>1. /\ d \in DataType
        /\ d.satDataGPList = data_.satDataGPList /\ d.satDataBDList = data_.satDataBDList
        /\ d.timeAtTimeLockUs = data_.timeAtTimeLockUs /\ d.timeStr = data_.timeStr
        /\ d.timeAtFix2dUs = data_.timeAtFix2dUs /\ d.timeAtFix3dUs = data_.timeAtFix3dUs
        /\ d.timeAtSpeedCourseUs = data_.timeAtSpeedCourseUs /\ d.dateStr = data_.dateStr
    BY <1>1, TimeStateTypes
  <2>2. Counted(d, seen) /\ (valid => Two(seen))
    BY <1>1, TimeStateCounts
  <2> HIDE DEF d
  <2>3. Complete(d) /\ SatsKept(d)
    BY <2>1 DEF Complete, SatsKept
  <2> QED
    BY <2>1, <2>2, <2>3
<1>3. Date \in days /\ days \in SUBSET Dates /\ NoDate \in days /\ NoDate \in Dates
      /\ d.dateStr \in Dates
  BY <1>2 DEF Date, NoDate, Dates, DataType
<1>4. valid => Time # Blank
  BY <1>1 DEF TimeStateIsValid
<1>5. none \in HandlerType /\ none.told = {} /\ none.d = d
  BY <1>2 DEF HandlerType
<1>6. /\ OnRMC = IF valid /\ signal.fix # "none"
                   THEN NotifyFix([h(Date) EXCEPT !.d.timeAtFix2dUs = TRUE,
                                                  !.d.timeAtSpeedCourseUs = TRUE])
                   ELSE IF valid THEN h(Date) ELSE none
      /\ OnGGA = IF valid /\ signal.fix = "fix"
                   THEN NotifyFix([h(d.dateStr) EXCEPT !.d.timeAtFix2dUs = TRUE,
                                                       !.d.timeAtFix3dUs = TRUE])
                   ELSE IF valid THEN h(d.dateStr) ELSE none
  <2>1. Locked(d, Time, Date) = [d EXCEPT !.timeStr = Time, !.dateStr = Date,
                                          !.timeAtTimeLockUs = TRUE]
    BY DEF Locked
  <2>2. Locked(d, Time, d.dateStr) = [d EXCEPT !.timeStr = Time, !.timeAtTimeLockUs = TRUE]
    BY <1>2 DEF Locked, DataType
  <2> HIDE DEF d
  <2> QED
    BY <2>1, <2>2 DEF OnRMC, OnGGA, d
<1> HIDE DEF seen, valid, d, none, days
<1>7. ASSUME NEW dates \in SUBSET Dates, NoDate \in dates, NEW date \in dates, valid
      PROVE  /\ Sound(h(date), seen, dates)
             /\ KeepsTime => h(date).d.timeAtTimeLockUs /\ h(date).d.timeStr # Blank
  <2>1. /\ Sound(lock(date), seen, dates)
        /\ lock(date).d.timeAtTimeLockUs /\ lock(date).d.timeStr # Blank
    BY <1>1, <1>2, <1>4, <1>7, LockIsSound
  <2> HIDE DEF lock
  <2>2. Sound(h(date), seen, dates) /\ (KeepsTime => h(date).d = lock(date).d)
    BY <1>7, <2>1, NotifyIsSound DEF Callbacks, KeepsTime
  <2> QED
    BY <2>1, <2>2
<1> HIDE DEF h, lock
<1>8. \A dates \in SUBSET Dates : d.dateStr \in dates => Sound(none, seen, dates)
  BY <1>2, <1>3, <1>5 DEF Sound, HasReset
<1>9. valid => Sound(OnRMC, seen, days)
  <2>1. SUFFICES ASSUME valid PROVE Sound(OnRMC, seen, days)
    OBVIOUS
  <2>2. /\ Sound(h(Date), seen, days)
        /\ KeepsTime => h(Date).d.timeAtTimeLockUs /\ h(Date).d.timeStr # Blank
    BY <1>3, <1>7, <2>1
  <2>3. Sound([h(Date) EXCEPT !.d.timeAtFix2dUs = TRUE, !.d.timeAtSpeedCourseUs = TRUE],
              seen, days)
    BY <2>2, FixIsSound
  <2>4. Sound(NotifyFix([h(Date) EXCEPT !.d.timeAtFix2dUs = TRUE,
                                        !.d.timeAtSpeedCourseUs = TRUE]), seen, days)
    BY <1>3, <2>3, NotifyFixIsSound
  <2> QED
    BY <1>6, <2>1, <2>2, <2>4
<1>10. ASSUME NEW dates \in SUBSET Dates, NoDate \in dates, d.dateStr \in dates, valid
       PROVE  Sound(OnGGA, seen, dates)
  <2> DEFINE date == d.dateStr
  <2>2. /\ Sound(h(date), seen, dates)
        /\ KeepsTime => h(date).d.timeAtTimeLockUs /\ h(date).d.timeStr # Blank
    BY <1>7, <1>10
  <2>3. Sound([h(date) EXCEPT !.d.timeAtFix2dUs = TRUE, !.d.timeAtFix3dUs = TRUE],
              seen, dates)
    BY <2>2, FixIsSound
  <2>4. Sound(NotifyFix([h(date) EXCEPT !.d.timeAtFix2dUs = TRUE,
                                        !.d.timeAtFix3dUs = TRUE]), seen, dates)
    BY <1>10, <2>3, NotifyFixIsSound
  <2> QED
    BY <1>6, <1>10, <2>2, <2>4
<1>11. ~valid => OnRMC = none /\ OnGGA = none
  BY <1>6
<1>12. valid => Sound(OnRMC, seen, Dates)
  BY <1>3, <1>9 DEF Sound
<1>13. Dates \in SUBSET Dates /\ days \in SUBSET Dates
  BY <1>3
<1>14. Sound(OnRMC, seen, Dates) /\ Sound(OnGGA, seen, Dates)
  BY <1>3, <1>8, <1>10, <1>11, <1>12, <1>13
<1>15. d.dateStr \in days => Sound(OnRMC, seen, days) /\ Sound(OnGGA, seen, days)
  BY <1>3, <1>8, <1>9, <1>10, <1>11, <1>13
<1>16. OnRMC.told # {} \/ OnGGA.told # {} => Two(seen)
  BY <1>2, <1>5, <1>11
<1>17. data_.dateStr = d.dateStr
  BY <1>2
<1> QED
  BY <1>9, <1>14, <1>15, <1>16, <1>17 DEF seen, days, valid

-----------------------------------------------------------------------------
(* The sentences that are left of a second.                                *)

Clear(r) == r # <<>> => \A t \in Talkers, n \in Sizes, e \in Sizes :
                           Head(r) = Line(t, n, e) => n = 1
Suffix(r) == \E n \in Nat \ {0} : n <= Len(Cycle) + 1 /\ r = SubSeq(Cycle, n, Len(Cycle))

(* After a message of a batch comes the next one, and after the last one,  *)
(* or another sentence, nothing that goes on with a batch.                 *)
LEMMA RestFollows ==
  ASSUME NEW r, Suffix(r), r # <<>>
  PROVE  /\ r \in Seq(Lines) /\ Head(r) \in Lines /\ Suffix(Tail(r))
         /\ \A t \in Talkers, n \in Sizes, e \in Sizes : Head(r) = Line(t, n, e) =>
              IF n < e THEN Tail(r) # <<>> /\ Head(Tail(r)) = Line(t, n + 1, e)
              ELSE n = e /\ Clear(Tail(r))
         /\ Head(r) \notin Gsvs => Clear(Tail(r))
<1> DEFINE c == Cycle
           L == Len(c)
<1>1. c \in Seq(Lines) /\ Whole(c) /\ L \in Nat /\ DOMAIN c = 1 .. L /\ L = Len(c)
  <2>1. c \in Seq(Lines) /\ Whole(c)
    BY CycleIsWhole DEF Wholes
  <2> HIDE DEF c
  <2> QED
    BY <2>1
<1>2. PICK n \in Nat \ {0} : n <= L + 1 /\ r = SubSeq(c, n, L)
  BY DEF Suffix
<1> HIDE DEF c, L
<1>3. n <= L
  <2>1. n > L => SubSeq(c, n, L) = <<>>
    BY <1>1, <1>2
  <2> QED
    BY <1>1, <1>2, <2>1
<1>4. n \in 1 .. L /\ L \in n .. L
  BY <1>1, <1>2, <1>3
<1>5. r \in Seq(Lines) /\ Head(r) = c[n] /\ Head(r) \in Lines
  <2>1. Head(r) = c[n]
    BY <1>1, <1>2, <1>4, HeadTailOfSubSeq
  <2>2. \A i \in n .. L : c[i] \in Lines
    BY <1>1, <1>4
  <2>3. r \in Seq(Lines)
    BY <1>1, <1>2, <1>4, <2>2, SubSeqProperties
  <2> QED
    BY <2>1, <2>2, <2>3, <1>4
<1>6. Tail(r) = SubSeq(c, n + 1, L)
  BY <1>1, <1>2, <1>4, HeadTailOfSubSeq
<1>7. Suffix(Tail(r))
  <2>1. n + 1 \in Nat \ {0} /\ n + 1 <= L + 1
    BY <1>1, <1>2, <1>3
  <2> QED
    BY <2>1, <1>6 DEF Suffix, c, L
<1>8. /\ Tail(r) # <<>> => n + 1 \in DOMAIN c /\ Head(Tail(r)) = c[n + 1]
      /\ n < L => Tail(r) # <<>>
  <2>1. CASE n = L
    <3>1. L \in Int /\ n + 1 \in Int /\ L < n + 1
      BY <2>1, <1>1
    <3>2. Tail(r) = <<>>
      BY <3>1, <1>6, SubSeqEmpty
    <3> QED
      BY <3>1, <3>2, <2>1
  <2>2. CASE n # L
    <3>0. \A a, b \in Nat : a <= b /\ a # b => a + 1 \in 1 .. b /\ b \in a + 1 .. b
      OBVIOUS
    <3>1. n + 1 \in 1 .. L /\ L \in n + 1 .. L
      BY <3>0, <2>2, <1>1, <1>3
    <3>2. Head(Tail(r)) = c[n + 1]
      BY <3>1, <1>1, <1>6, HeadTailOfSubSeq
    <3>3. Tail(r) = << c[n + 1] >> \o SubSeq(c, n + 1 + 1, L)
      BY <3>1, <1>1, <1>6, SubSeqRecursiveFirst
    <3>4. \A i \in n + 2 .. L : c[i] \in Lines
      BY <1>1, <1>4
    <3>5. SubSeq(c, n + 1 + 1, L) \in Seq(Lines)
      BY <3>4, <1>1, <1>4, SubSeqProperties
    <3>6. Len(Tail(r)) # 0 /\ Len(<<>>) = 0
      BY <3>3, <3>5
    <3> QED
      BY <3>1, <3>2, <3>6, <1>1
  <2> QED
    BY <2>1, <2>2
<1>9. n \in DOMAIN c
  BY <1>1, <1>2, <1>3
<1>10. ASSUME NEW t \in Talkers, NEW k \in Sizes, NEW e \in Sizes, Head(r) = Line(t, k, e), k < e
       PROVE  Tail(r) # <<>> /\ Head(Tail(r)) = Line(t, k + 1, e)
  <2>1. c[n] = Line(t, k, e)
    BY <1>5, <1>10
  <2>2. n < Len(c) /\ c[n + 1] = Line(t, k + 1, e)
    BY <2>1, <1>1, <1>9, <1>10 DEF Whole
  <2> QED
    BY <2>2, <1>1, <1>8
<1>11. ASSUME NEW t \in Talkers, NEW k \in Sizes, NEW e \in Sizes, Head(r) = Line(t, k, e)
       PROVE  k <= e
  BY <1>1, <1>5, <1>9, <1>11 DEF Whole
<1>12. ASSUME ~Clear(Tail(r))
       PROVE  \E t \in Talkers, k \in Sizes, e \in Sizes : k < e /\ Head(r) = Line(t, k, e)
  <2>1. PICK t \in Talkers, k \in Sizes, e \in Sizes :
          Tail(r) # <<>> /\ Head(Tail(r)) = Line(t, k, e) /\ k # 1
    BY <1>12 DEF Clear
  <2>2. n + 1 \in DOMAIN c /\ c[n + 1] = Line(t, k, e) /\ k > 1 /\ k \in Nat
    BY <2>1, <1>8 DEF Sizes
  <2>3. k <= e /\ c[(n + 1) - 1] = Line(t, k - 1, e)
    BY <2>2, <1>1 DEF Whole
  <2>4. (n + 1) - 1 = n /\ k - 1 \in Sizes /\ k - 1 < e
    BY <2>2, <2>3, <1>2 DEF Sizes
  <2> QED
    BY <2>3, <2>4, <1>5
<1>13. ASSUME NEW t \in Talkers, NEW k \in Sizes, NEW e \in Sizes, Head(r) = Line(t, k, e), k = e
       PROVE  Clear(Tail(r))
  <2>1. SUFFICES ASSUME ~Clear(Tail(r)) PROVE FALSE
    OBVIOUS
  <2>2. PICK u \in Talkers, m \in Sizes, f \in Sizes : m < f /\ Head(r) = Line(u, m, f)
    BY <1>12, <2>1
  <2>3. m = k /\ f = e
    BY <1>13, <2>2 DEF Line
  <2> QED
    BY <2>2, <2>3, <1>13 DEF Sizes
<1>14. Head(r) \notin Gsvs => Clear(Tail(r))
  BY <1>12 DEF Gsvs
<1>15. ASSUME NEW t \in Talkers, NEW k \in Sizes, NEW e \in Sizes, Head(r) = Line(t, k, e)
       PROVE  IF k < e THEN Tail(r) # <<>> /\ Head(Tail(r)) = Line(t, k + 1, e)
              ELSE k = e /\ Clear(Tail(r))
  <2>1. k <= e
    BY <1>11, <1>15
  <2>2. ~(k < e) => k = e
    BY <2>1 DEF Sizes
  <2> QED
    BY <2>2, <1>10, <1>13, <1>15
<1> QED
  BY <1>5, <1>7, <1>14, <1>15

-----------------------------------------------------------------------------
(* OnGSV.                                                                  *)

CacheType == [seqNoNextExpected : Nat, endSeqNo : 0 .. 255, satDataList : Seq(SatMessages)]

Msg(t, sec, n, e) == [talker |-> t, second |-> sec, seqNo |-> n, endSeqNo |-> e]
Begins(list, t, sec, e) == \A i \in DOMAIN list : list[i] = Msg(t, sec, i, e)

(* What the module says next, when the cache has some of a batch: the next *)
(* message, or, when that one was missed, the one after it if there is.    *)
Expects(list, e, t, sec, m, r, now) ==
  /\ m = 0 => sec = now /\ r # <<>> /\ Head(r) = Line(t, Len(list) + 1, e)
  /\ m = 1 => IF Len(list) + 1 < e THEN r # <<>> /\ Head(r) = Line(t, Len(list) + 2, e)
                                   ELSE Clear(r)

CacheOk(cache, m, r, now) ==
  /\ cache \in CacheType /\ m \in 0 .. 2
  /\ cache.seqNoNextExpected = Len(cache.satDataList) + 1
  /\ cache.satDataList # <<>> => Len(cache.satDataList) < cache.endSeqNo
  /\ cache.satDataList # <<>> /\ m < 2 =>
       \E t \in Talkers, sec \in Nat :
         /\ Begins(cache.satDataList, t, sec, cache.endSeqNo)
         /\ Expects(cache.satDataList, cache.endSeqNo, t, sec, m, r, now)

LEMMA EmptyCache ==
  ASSUME NEW m \in 0 .. 2, NEW r, NEW now
  PROVE  CacheOk(SatelliteDataParseCache, m, r, now)
<1>1. <<>> \in Seq(SatMessages) /\ Len(<<>>) = 0
  OBVIOUS
<1> QED
  BY <1>1 DEF CacheOk, CacheType, SatelliteDataParseCache

(* A message that is not heard, and one of another kind, heard or not.     *)
LEMMA MissedKeepsCache ==
  ASSUME NEW cache, NEW m, NEW r, NEW now, CacheOk(cache, m, r, now), Suffix(r), r # <<>>
  PROVE  IF Head(r).type = "GSV"
         THEN CacheOk(cache, IF cache.satDataList # <<>> /\ m < 2 THEN m + 1 ELSE m,
                      Tail(r), now)
         ELSE CacheOk(cache, m, Tail(r), now)
<1> DEFINE list == cache.satDataList
           e == cache.endSeqNo
           k == IF list # <<>> /\ m < 2 THEN m + 1 ELSE m
<1>1. m \in 0 .. 2 /\ k \in 0 .. 2 /\ list \in Seq(SatMessages) /\ Len(list) \in Nat
      /\ e \in 0 .. 255
  BY DEF CacheOk, CacheType
<1>2. CASE list = <<>> \/ m = 2
  <2>1. k = m
    BY <1>2
  <2> QED
    BY <1>2, <2>1 DEF CacheOk
<1>3. CASE list # <<>> /\ m # 2
  <2>1. Len(list) \in Nat \ {0} /\ Len(list) < e /\ m < 2
    BY <1>1, <1>3, EmptySeq DEF CacheOk
  <2>2. PICK t \in Talkers, sec \in Nat : Begins(list, t, sec, e)
                                           /\ Expects(list, e, t, sec, m, r, now)
    BY <1>3, <2>1 DEF CacheOk
  <2>3. Len(list) + 1 \in Sizes /\ e \in Sizes /\ (Len(list) + 1 < e => Len(list) + 2 \in Sizes)
    <3>1. \A a \in Nat \ {0}, b \in 0 .. 255 : a < b =>
             a + 1 \in 1 .. 255 /\ b \in 1 .. 255 /\ (a + 1 < b => a + 2 \in 1 .. 255)
      OBVIOUS
    <3> QED
      BY <3>1, <1>1, <2>1 DEF Sizes
  <2>4. CASE m = 0
    <3>1. Head(r) = Line(t, Len(list) + 1, e)
      BY <2>2, <2>4 DEF Expects
    <3>2. IF Len(list) + 1 < e
          THEN Tail(r) # <<>> /\ Head(Tail(r)) = Line(t, (Len(list) + 1) + 1, e)
          ELSE Clear(Tail(r))
      BY <3>1, <2>3, RestFollows
    <3>3. (Len(list) + 1) + 1 = Len(list) + 2 /\ k = 1
      BY <1>1, <1>3, <2>4
    <3>4. Expects(list, e, t, sec, 1, Tail(r), now)
      BY <3>2, <3>3 DEF Expects
    <3>5. CacheOk(cache, 1, Tail(r), now)
      BY <2>2, <3>4 DEF CacheOk
    <3>6. Head(r).type = "GSV"
      BY <3>1, LinesAre
    <3> QED
      BY <3>3, <3>5, <3>6
  <2>5. CASE m = 1
    <3>1. k = 2 /\ CacheOk(cache, 2, Tail(r), now)
      BY <1>3, <2>5 DEF CacheOk
    <3>2. ASSUME Head(r).type # "GSV" PROVE CacheOk(cache, 1, Tail(r), now)
      <4>1. Head(r) \notin Gsvs
        BY <3>2, LinesAre DEF Gsvs
      <4>2. Clear(Tail(r))
        BY <4>1, RestFollows
      <4>3. ~(Len(list) + 1 < e)
        <5>1. Len(list) + 1 < e => Head(r) = Line(t, Len(list) + 2, e)
          BY <2>2, <2>5 DEF Expects
        <5> QED
          BY <5>1, <3>2, LinesAre
      <4>4. Expects(list, e, t, sec, 1, Tail(r), now)
        BY <4>2, <4>3 DEF Expects
      <4> QED
        BY <2>2, <4>4 DEF CacheOk
    <3> QED
      BY <2>5, <3>1, <3>2
  <2> QED
    BY <1>1, <1>3, <2>4, <2>5
<1> QED
  BY <1>2, <1>3

LEMMA SameLine ==
  ASSUME NEW t, NEW n, NEW e, NEW u, NEW k, NEW f, Line(t, n, e) = Line(u, k, f)
  PROVE  t = u /\ n = k /\ e = f
BY LinesAre

LEMMA FirstOfBatch ==
  ASSUME NEW list \in Seq(SatMessages), NEW t \in Talkers, NEW sec \in Nat, NEW e \in Sizes,
         NEW gp \in BOOLEAN, t = "GP" <=> gp, Begins(list, t, sec, e), Len(list) = e
  PROVE  OneBatch(list, gp)
<1>1. \A i \in DOMAIN list : list[i] = Msg(t, sec, i, e)
  BY DEF Begins
<1>2. 1 \in DOMAIN list
  BY DEF Sizes
<1>3. list[1] = Msg(t, sec, 1, e)
  BY <1>1, <1>2
<1>4. list[1].endSeqNo = e /\ list[1].talker = t
      /\ \A i : [list[1] EXCEPT !.seqNo = i] = Msg(t, sec, i, e)
  BY <1>3 DEF Msg
<1> QED
  BY <1>1, <1>4 DEF OneBatch

(* A message that is heard: what the cache has of a batch it goes on with, *)
(* unless two were missed, and what data_ gets is the whole batch then.    *)
LEMMA GsvIsSound ==
  ASSUME data_ \in DataType, second \in Nat, Suffix(rest), rest # <<>>,
         CacheOk(satCache_, missed, rest, second), Head(rest) \in Gsvs,
         NEW mismatch \in BOOLEAN
  PROVE  LET g == OnGSV(Head(rest), mismatch)
             list == g.cache.satDataList
         IN  /\ CacheOk(g.cache, IF Len(list) > 1 /\ missed = 2 THEN 2 ELSE 0, Tail(rest), second)
             /\ \/ g.d = data_
                \/ \E new \in Seq(SatMessages) :
                     \/ /\ g.d = [data_ EXCEPT !.satDataGPList = new]
                        /\ OneBatch(new, TRUE) \/ missed = 2
                     \/ /\ g.d = [data_ EXCEPT !.satDataBDList = new]
                        /\ OneBatch(new, FALSE) \/ missed = 2
<1>1. PICK t \in Talkers, n \in Sizes, e \in Sizes : Head(rest) = Line(t, n, e)
  BY DEF Gsvs
<1> DEFINE line == Line(t, n, e)
           c == IF n = 1 THEN [SatelliteDataParseCache EXCEPT !.endSeqNo = e] ELSE satCache_
           list == c.satDataList
           msg == Msg(t, second, n, e)
           added == [c EXCEPT !.seqNoNextExpected = @ + 1, !.satDataList = Append(@, msg)]
           ok == n = c.seqNoNextExpected /\ n <= c.endSeqNo
           g == OnGSV(Head(rest), mismatch)
           m == IF Len(g.cache.satDataList) > 1 /\ missed = 2 THEN 2 ELSE 0
           empty == SatelliteDataParseCache
<1>2. g = IF ~ok \/ mismatch THEN [cache |-> empty, d |-> data_]
          ELSE IF n # c.endSeqNo THEN [cache |-> added, d |-> data_]
          ELSE [cache |-> empty,
                d |-> IF t = "GP" THEN [data_ EXCEPT !.satDataGPList = added.satDataList]
                                  ELSE [data_ EXCEPT !.satDataBDList = added.satDataList]]
  <2>1. /\ Head(rest).seqNo = n /\ Head(rest).endSeqNo = e /\ Head(rest).talker = t
        /\ Message(Head(rest)) = msg
    BY <1>1, LinesAre DEF Message, Msg
  <2> QED
    BY <2>1 DEF OnGSV
<1>3. missed \in 0 .. 2 /\ satCache_ \in CacheType
      /\ satCache_.seqNoNextExpected = Len(satCache_.satDataList) + 1
  BY DEF CacheOk
<1>4. /\ c \in CacheType /\ c.seqNoNextExpected = Len(list) + 1
      /\ n = 1 => list = <<>> /\ c.endSeqNo = e
  <2>1. CASE n = 1
    <3>1. <<>> \in Seq(SatMessages) /\ Len(<<>>) = 0 /\ e \in 0 .. 255
      BY DEF Sizes
    <3>2. c = [seqNoNextExpected |-> 1, endSeqNo |-> e, satDataList |-> <<>>]
      BY <2>1 DEF SatelliteDataParseCache
    <3> HIDE DEF c
    <3> QED
      BY <3>1, <3>2 DEF CacheType
  <2>2. CASE n # 1
    BY <2>2, <1>3
  <2> QED
    BY <2>1, <2>2
<1>5. msg \in SatMessages
  BY DEF Msg, SatMessages
<1>6. /\ added \in CacheType /\ added.satDataList = Append(list, msg)
      /\ added.seqNoNextExpected = Len(list) + 2 /\ added.endSeqNo = c.endSeqNo
      /\ list \in Seq(SatMessages) /\ Len(list) \in Nat
  <2> HIDE DEF c, msg
  <2>1. list \in Seq(SatMessages) /\ c.seqNoNextExpected \in Nat
    BY <1>4 DEF CacheType
  <2>2. Append(list, msg) \in Seq(SatMessages) /\ c.seqNoNextExpected + 1 \in Nat
    BY <1>5, <2>1
  <2>3. Len(list) \in Nat
    BY <2>1
  <2>4. c.seqNoNextExpected + 1 = Len(list) + 2
    BY <1>4, <2>3
  <2>5. added = [c EXCEPT !.seqNoNextExpected = c.seqNoNextExpected + 1,
                          !.satDataList = Append(list, msg)]
    OBVIOUS
  <2> HIDE DEF added, list
  <2>6. added \in CacheType /\ added.satDataList = Append(list, msg)
        /\ added.seqNoNextExpected = c.seqNoNextExpected + 1 /\ added.endSeqNo = c.endSeqNo
    BY <1>4, <2>2, <2>5 DEF CacheType
  <2> QED
    BY <2>1, <2>3, <2>4, <2>6 DEF list
(* What is added to is the beginning of the batch of this message.         *)
<1>7. ASSUME ok, missed < 2 \/ n = 1 PROVE Begins(list, t, second, e) /\ c.endSeqNo = e
  <2>1. CASE n = 1
    <3>1. DOMAIN list = {}
      BY <1>4, <2>1
    <3> QED
      BY <1>4, <2>1, <3>1 DEF Begins
  <2>2. CASE n # 1
    <3>1. c = satCache_ /\ n = Len(list) + 1 /\ Len(list) # 0 /\ missed < 2
      BY <2>2, <1>4, <1>6, <1>7
    <3>2. list # <<>>
      BY <3>1, EmptySeq
    <3>3. PICK u \in Talkers, sec \in Nat : Begins(list, u, sec, c.endSeqNo)
             /\ Expects(list, c.endSeqNo, u, sec, missed, rest, second)
      BY <3>1, <3>2 DEF CacheOk
    <3>4. CASE missed = 0
      <4>1. sec = second /\ Line(t, n, e) = Line(u, Len(list) + 1, c.endSeqNo)
        BY <1>1, <3>3, <3>4 DEF Expects
      <4>2. u = t /\ c.endSeqNo = e
        <5> HIDE DEF c, list
        <5> QED
          BY <4>1, SameLine
      <4> QED
        BY <3>3, <4>1, <4>2
    <3>5. CASE missed = 1
      <4>1. Line(t, n, e) = Line(u, Len(list) + 2, c.endSeqNo) \/ Clear(rest)
        BY <1>1, <3>3, <3>5 DEF Expects
      <4>2. ~Clear(rest)
        BY <1>1, <2>2 DEF Clear
      <4>3. n = Len(list) + 2
        <5> HIDE DEF c, list
        <5> QED
          BY <4>1, <4>2, SameLine
      <4> QED
        BY <3>1, <4>3, <1>6
    <3> QED
      BY <3>1, <3>4, <3>5, <1>3
  <2> QED
    BY <2>1, <2>2
<1>8. ASSUME ok, missed < 2 \/ n = 1
      PROVE  Begins(Append(list, msg), t, second, e) /\ Len(Append(list, msg)) = n /\ c.endSeqNo = e
  <2>1. Begins(list, t, second, e) /\ c.endSeqNo = e /\ n = Len(list) + 1
    BY <1>4, <1>7, <1>8
  <2> DEFINE app == Append(list, msg)
  <2>2. list \in Seq(SatMessages) /\ Len(list) \in Nat
    BY <1>6
  <2> HIDE DEF list, msg, c
  <2>3. /\ app \in Seq(SatMessages) /\ Len(app) = Len(list) + 1 /\ DOMAIN app = 1 .. Len(list) + 1
        /\ app[Len(list) + 1] = msg /\ \A i \in 1 .. Len(list) : app[i] = list[i]
        /\ DOMAIN list = 1 .. Len(list)
    BY <1>5, <2>2
  <2> HIDE DEF app
  <2>4. ASSUME NEW i \in DOMAIN app PROVE app[i] = Msg(t, second, i, e)
    <3>1. CASE i = Len(list) + 1
      BY <3>1, <2>1, <2>3 DEF msg
    <3>2. CASE i # Len(list) + 1
      <4>1. i \in 1 .. Len(list)
        BY <3>2, <2>2, <2>3
      <4> QED
        BY <4>1, <2>1, <2>3 DEF Begins
    <3> QED
      BY <3>1, <3>2
  <2> QED
    BY <2>1, <2>3, <2>4 DEF Begins, app
<1>9. Len(Append(list, msg)) = Len(list) + 1 /\ Append(list, msg) \in Seq(SatMessages)
      /\ Append(list, msg) # <<>>
  <2> HIDE DEF list, msg
  <2> QED
    BY <1>5, <1>6
<1> HIDE DEF c, list, msg, added
<1>10. CASE ~ok \/ mismatch
  <2>1. g = [cache |-> empty, d |-> data_]
    BY <1>2, <1>10
  <2>2. g.cache = empty /\ g.d = data_ /\ m \in 0 .. 2
    BY <2>1
  <2> QED
    BY <2>2, EmptyCache
<1>11. CASE ok /\ ~mismatch /\ n # c.endSeqNo
  <2>1. g = [cache |-> added, d |-> data_]
    BY <1>2, <1>11
  <2>2. g.cache = added /\ g.d = data_ /\ m \in 0 .. 2
        /\ m = IF Len(list) + 1 > 1 /\ missed = 2 THEN 2 ELSE 0
    BY <2>1, <1>6, <1>9
  <2>3. n = Len(list) + 1 /\ n < c.endSeqNo
    <3>0. n \in Nat /\ c.endSeqNo \in Nat
      <4>1. c.endSeqNo \in 0 .. 255 /\ n \in 1 .. 255
        BY <1>4 DEF CacheType, Sizes
      <4>2. \A x \in 0 .. 255 : x \in Nat
        OBVIOUS
      <4>3. \A x \in 1 .. 255 : x \in Nat
        OBVIOUS
      <4> QED
        BY <4>1, <4>2, <4>3
    <3>1. n \in Nat /\ c.endSeqNo \in Nat /\ n <= c.endSeqNo /\ n # c.endSeqNo
      BY <1>11, <3>0
    <3>2. n < c.endSeqNo
      BY <3>1
    <3> QED
      BY <1>4, <1>11, <3>2
  <2>4. ASSUME m < 2
        PROVE  \E u \in Talkers, sec \in Nat :
                 /\ Begins(added.satDataList, u, sec, added.endSeqNo)
                 /\ Expects(added.satDataList, added.endSeqNo, u, sec, m, Tail(rest), second)
    <3>1. missed < 2 \/ n = 1
      <4>1. ~(Len(list) + 1 > 1 /\ missed = 2)
        BY <2>2, <2>4
      <4> QED
        BY <4>1, <1>3, <1>6, <2>3
    <3>2. m = 0
      BY <2>2, <2>4
    <3>3. /\ Begins(added.satDataList, t, second, added.endSeqNo) /\ c.endSeqNo = e
          /\ Len(added.satDataList) = n /\ added.endSeqNo = e
      BY <1>6, <1>8, <1>11, <3>1
    <3>4. Tail(rest) # <<>> /\ Head(Tail(rest)) = Line(t, n + 1, e)
      BY <1>1, <2>3, <3>3, RestFollows
    <3>5. Expects(added.satDataList, added.endSeqNo, t, second, 0, Tail(rest), second)
      BY <3>3, <3>4 DEF Expects
    <3> QED
      BY <3>2, <3>3, <3>5
  <2>5. Len(added.satDataList) < added.endSeqNo
        /\ added.seqNoNextExpected = Len(added.satDataList) + 1
    <3>1. Len(added.satDataList) = Len(list) + 1
      BY <1>6, <1>9
    <3> QED
      BY <1>6, <2>3, <3>1
  <2>6. CacheOk(added, m, Tail(rest), second)
    BY <1>6, <2>2, <2>4, <2>5 DEF CacheOk
  <2> QED
    BY <2>2, <2>6
<1>12. CASE ok /\ ~mismatch /\ n = c.endSeqNo
  <2> DEFINE new == Append(list, msg)
  <2>1. g = [cache |-> empty,
             d |-> IF t = "GP" THEN [data_ EXCEPT !.satDataGPList = new]
                               ELSE [data_ EXCEPT !.satDataBDList = new]]
    BY <1>2, <1>6, <1>12
  <2>2. /\ g.cache = empty /\ m \in 0 .. 2
        /\ g.d = IF t = "GP" THEN [data_ EXCEPT !.satDataGPList = new]
                             ELSE [data_ EXCEPT !.satDataBDList = new]
    BY <2>1
  <2>3. ASSUME missed # 2 PROVE Begins(new, t, second, e) /\ Len(new) = e
    <3>1. missed < 2
      BY <2>3, <1>3
    <3> QED
      BY <3>1, <1>8, <1>12
  <2>4. (missed # 2 => OneBatch(new, t = "GP")) /\ new \in Seq(SatMessages)
    <3>1. new \in Seq(SatMessages)
      BY <1>9
    <3> HIDE DEF new
    <3> QED
      BY <2>3, <3>1, FirstOfBatch
  <2> HIDE DEF new
  <2>5. CacheOk(g.cache, m, Tail(rest), second)
    BY <2>2, EmptyCache
  <2> QED
    BY <2>2, <2>4, <2>5
<1> QED
  BY <1>10, <1>11, <1>12

-----------------------------------------------------------------------------
(* The invariant.                                                          *)

SignalType == [time : Kinds, fix : {"none", "estimated", "fix"}, noisy : BOOLEAN]

WorldInv == second \in Nat /\ day \in {0, 1} /\ signal \in SignalType /\ Suffix(rest)
DataInv ==
  /\ data_ \in DataType /\ Complete(data_) /\ Counted(data_, roundTimes)
  /\ dated \in BOOLEAN /\ (dated => data_.dateStr \in {day, NoDate})
CacheInv == CacheOk(satCache_, missed, rest, second)

GpsInv == WorldInv /\ DataInv /\ CacheInv

(* What the three properties of steps say of this one.                     *)
LockStep == told' # {} => Cardinality(SeenBy(Time, FALSE)) >= 2
DateStep == dated' => \A t \in told' : t.date \in {day, NoDate}
ShownStep == Shown(data_.satDataGPList, TRUE) /\ Shown(data_.satDataBDList, FALSE)
Steps == LockStep /\ DateStep /\ ShownStep

LEMMA WholeSeconds == Suffix(Cycle) /\ Suffix(<<>>) /\ Clear(<<>>) /\ Clear(Cycle)
<1> DEFINE c == Cycle
<1>1. c \in Seq(Lines) /\ Whole(c)
  BY CycleIsWhole DEF Wholes
<1> HIDE DEF c
<1>2. SubSeq(c, 1, Len(c)) = c /\ SubSeq(c, Len(c) + 1, Len(c)) = <<>> /\ Len(c) \in Nat
  BY <1>1, SubSeqFull, SubSeqEmpty
<1>3. 1 \in Nat \ {0} /\ 1 <= Len(c) + 1 /\ Len(c) + 1 \in Nat \ {0} /\ Len(c) + 1 <= Len(c) + 1
  BY <1>2
<1>4. Suffix(c) /\ Suffix(<<>>)
  BY <1>2, <1>3 DEF Suffix, c
<1>5. ASSUME ~Clear(c) PROVE FALSE
  <2>1. PICK t \in Talkers, n \in Sizes, e \in Sizes : c # <<>> /\ Head(c) = Line(t, n, e) /\ n # 1
    BY <1>5 DEF Clear
  <2>2. 1 \in DOMAIN c /\ c[1] = Line(t, n, e) /\ n > 1
    <3>1. Len(c) # 0
      BY <2>1, <1>1, EmptySeq
    <3>2. 1 \in DOMAIN c /\ c[1] = Head(c)
      BY <3>1, <1>1
    <3>3. n > 1
      BY <2>1 DEF Sizes
    <3> QED
      BY <2>1, <3>2, <3>3
  <2>3. \A i \in DOMAIN c : c[i] = Line(t, n, e) => ~(n > 1 /\ i = 1)
    <3>1. \A i \in DOMAIN c : c[i] = Line(t, n, e) => (n > 1 => i > 1)
      BY <1>1 DEF Whole
    <3>2. ~(1 > 1)
      OBVIOUS
    <3> QED
      BY <3>1, <3>2
  <2> QED
    BY <2>2, <2>3
<1>6. Clear(<<>>)
  BY DEF Clear
<1> QED
  BY <1>4, <1>5, <1>6 DEF c

LEMMA GpsInit == Init => GpsInv
<1>1. SUFFICES ASSUME Init PROVE GpsInv
  OBVIOUS
<1>2. WorldInv
  BY <1>1, WholeSeconds DEF Init, WorldInv, SignalType, Kinds
<1>3. DataInv
  BY <1>1, EmptyData DEF Init, DataInv
<1>4. CacheInv
  BY <1>1, EmptyCache DEF Init, CacheInv
<1> QED
  BY <1>2, <1>3, <1>4 DEF GpsInv

(* A step that tells nothing, and leaves the satellites.                   *)
LEMMA QuietStep ==
  ASSUME told' = {}, data_' = data_ \/ data_' = AccumulatedData
  PROVE  Steps
<1>1. LockStep /\ DateStep
  BY DEF LockStep, DateStep
<1>2. ShownStep
  BY DEF ShownStep, Shown, OneBatch, AccumulatedData
<1> QED
  BY <1>1, <1>2 DEF Steps

LEMMA NextSecondKeeps ==
  ASSUME GpsInv, NextSecond
  PROVE  GpsInv' /\ Steps
<1>1. WorldInv'
  <2>1. second' \in Nat /\ day' \in {0, 1}
    BY GpsAssumption DEF NextSecond, GpsInv, WorldInv
  <2>2. signal' \in SignalType
    BY GpsAssumption DEF NextSecond, SignalType, Kinds
  <2>3. Suffix(rest)'
    BY WholeSeconds DEF NextSecond, Suffix
  <2> QED
    BY <2>1, <2>2, <2>3 DEF WorldInv
<1>2. DataInv'
  BY DEF NextSecond, ghosts, GpsInv, DataInv
<1>3. CacheOk(satCache_, missed, rest', second')
  <2> DEFINE list == satCache_.satDataList
             e == satCache_.endSeqNo
  <2>1. rest = <<>> /\ rest' = Cycle
    BY DEF NextSecond
  <2>2. CacheOk(satCache_, missed, rest, second)
    BY DEF GpsInv, CacheInv
  <2>3. ASSUME list # <<>>, missed < 2
        PROVE  \E t \in Talkers, sec \in Nat :
                 Begins(list, t, sec, e) /\ Expects(list, e, t, sec, missed, rest', second')
    <3>1. PICK t \in Talkers, sec \in Nat :
            Begins(list, t, sec, e) /\ Expects(list, e, t, sec, missed, rest, second)
      BY <2>2, <2>3 DEF CacheOk
    <3>2. missed # 0 /\ (missed = 1 => ~(Len(list) + 1 < e))
      BY <2>1, <3>1 DEF Expects
    <3>3. Expects(list, e, t, sec, missed, rest', second')
      BY <2>1, <3>2, WholeSeconds DEF Expects
    <3> QED
      BY <3>1, <3>3
  <2> QED
    BY <2>2, <2>3 DEF CacheOk
<1>4. CacheInv'
  BY <1>3 DEF NextSecond, ghosts, CacheInv
<1>5. told' = {} /\ data_' = data_
  BY DEF NextSecond
<1> QED
  BY <1>1, <1>2, <1>4, <1>5, QuietStep DEF GpsInv

(* The next sentence, heard or not.                                        *)
LEMMA SentenceGone ==
  ASSUME GpsInv, rest # <<>>, rest' = Tail(rest), UNCHANGED <<second, day, signal>>
  PROVE  WorldInv'
<1>1. Suffix(Tail(rest))
  BY RestFollows DEF GpsInv, WorldInv
<1>2. Suffix(rest)'
  BY <1>1 DEF Suffix
<1> QED
  BY <1>2 DEF GpsInv, WorldInv

LEMMA UnheardKeeps ==
  ASSUME GpsInv, rest # <<>>, rest' = Tail(rest), UNCHANGED <<second, day, signal>>,
         Unheard(Head(rest))
  PROVE  GpsInv' /\ Steps
<1>1. WorldInv'
  BY SentenceGone
<1>2. DataInv'
  BY DEF Unheard, GpsInv, DataInv
<1>3. CacheOk(satCache_, missed', Tail(rest), second)
  <2>1. CacheOk(satCache_, missed, rest, second) /\ Suffix(rest)
    BY DEF GpsInv, CacheInv, WorldInv
  <2>2. CASE Head(rest).type = "GSV"
    <3>1. missed' = IF satCache_.satDataList # <<>> /\ missed < 2 THEN missed + 1 ELSE missed
      BY <2>2 DEF Unheard
    <3> QED
      BY <2>1, <2>2, <3>1, MissedKeepsCache
  <2>3. CASE Head(rest).type # "GSV"
    <3>1. missed' = missed
      BY <2>3 DEF Unheard
    <3> QED
      BY <2>1, <2>3, <3>1, MissedKeepsCache
  <2> QED
    BY <2>2, <2>3
<1>4. CacheInv'
  BY <1>3 DEF CacheInv, Unheard
<1> QED
  BY <1>1, <1>2, <1>4, QuietStep DEF GpsInv, Unheard

LEMMA HandledKeeps ==
  ASSUME GpsInv, rest # <<>>, rest' = Tail(rest), UNCHANGED <<second, day, signal>>,
         NEW h, Handled(h), Sound(h, Seen(Time, roundTimes), Dates), Head(rest).type # "GSV",
         dated' => Sound(h, Seen(Time, roundTimes), {day, NoDate})
  PROVE  GpsInv'
<1>1. WorldInv'
  BY SentenceGone
<1>2. roundTimes' = IF HasReset(h.told) THEN {} ELSE Seen(Time, roundTimes)
  BY DEF Handled, SeenBy, Seen, HasReset
<1>3. DataInv'
  <2>1. data_' \in DataType /\ Complete(data_') /\ Counted(data_', roundTimes')
    BY <1>2 DEF Handled, Sound, HandlerType
  <2>2. dated' \in BOOLEAN /\ (dated' => data_'.dateStr \in {day', NoDate})
    BY DEF Handled, Sound
  <2> QED
    BY <2>1, <2>2 DEF DataInv
<1>4. CacheOk(satCache_, missed, Tail(rest), second)
  BY MissedKeepsCache DEF GpsInv, CacheInv, WorldInv
<1>5. CacheInv'
  BY <1>4 DEF CacheInv, Handled
<1> QED
  BY <1>1, <1>3, <1>5 DEF GpsInv

LEMMA HearKeeps ==
  ASSUME GpsInv, Hear
  PROVE  GpsInv' /\ Steps
<1>1. /\ rest # <<>> /\ rest' = Tail(rest) /\ UNCHANGED <<second, day, signal>>
      /\ ReadLine(Head(rest)) /\ Head(rest) \in Lines
  <2>1. Head(rest) \in Lines
    BY RestFollows DEF GpsInv, WorldInv, Hear
  <2> QED
    BY <2>1 DEF Hear
<1>2. CASE ~idNmea_ \/ ~processData_
  BY <1>1, <1>2, UnheardKeeps DEF ReadLine
<1>3. CASE idNmea_ /\ processData_ /\ Head(rest).type \in {"RMC", "GGA"}
  <2>1. /\ Sound(OnRMC, Seen(Time, roundTimes), Dates)
        /\ Sound(OnGGA, Seen(Time, roundTimes), Dates)
        /\ OnRMC.told # {} \/ OnGGA.told # {} => Two(Seen(Time, roundTimes))
        /\ TimeStateIsValid(data_, Time) => Sound(OnRMC, Seen(Time, roundTimes), {day, NoDate})
        /\ data_.dateStr \in {day, NoDate}
             => /\ Sound(OnRMC, Seen(Time, roundTimes), {day, NoDate})
                /\ Sound(OnGGA, Seen(Time, roundTimes), {day, NoDate})
    BY RmcAndGgaAreSound DEF GpsInv, WorldInv, DataInv, SignalType
  <2>2. \/ Head(rest).type = "RMC" /\ Handled(OnRMC)
        \/ Head(rest).type = "GGA" /\ Handled(OnGGA)
    BY <1>1, <1>3 DEF ReadLine
  <2>7. dated' => \/ dated /\ data_.dateStr \in {day, NoDate}
                  \/ Head(rest).type = "RMC" /\ TimeStateIsValid(data_, Time)
    BY <2>2 DEF Handled, GpsInv, DataInv
  <2>8. ASSUME NEW h, (h = OnRMC /\ Head(rest).type = "RMC")
                      \/ (h = OnGGA /\ Head(rest).type = "GGA")
        PROVE  /\ Sound(h, Seen(Time, roundTimes), Dates)
               /\ dated' => Sound(h, Seen(Time, roundTimes), {day, NoDate})
    <3>1. CASE h = OnRMC
      <4>1. dated' => Sound(OnRMC, Seen(Time, roundTimes), {day, NoDate})
        BY <2>1, <2>7
      <4> QED
        BY <2>1, <3>1, <4>1
    <3>2. CASE h = OnGGA /\ Head(rest).type = "GGA"
      <4>1. Head(rest).type # "RMC"
        BY <3>2
      <4>2. dated' => Sound(OnGGA, Seen(Time, roundTimes), {day, NoDate})
        BY <2>1, <2>7, <4>1
      <4> QED
        BY <2>1, <3>2, <4>2
    <3> QED
      BY <2>8, <3>1, <3>2
  <2>9. Head(rest).type # "GSV"
    BY <1>3
  <2>3. GpsInv'
    <3>1. CASE Head(rest).type = "RMC" /\ Handled(OnRMC)
      <4>1. /\ Sound(OnRMC, Seen(Time, roundTimes), Dates)
            /\ dated' => Sound(OnRMC, Seen(Time, roundTimes), {day, NoDate})
        BY <2>8, <3>1
      <4> QED
        BY <1>1, <2>9, <3>1, <4>1, HandledKeeps
    <3>2. CASE Head(rest).type = "GGA" /\ Handled(OnGGA)
      <4>1. /\ Sound(OnGGA, Seen(Time, roundTimes), Dates)
            /\ dated' => Sound(OnGGA, Seen(Time, roundTimes), {day, NoDate})
        BY <2>8, <3>2
      <4> QED
        BY <1>1, <2>9, <3>2, <4>1, HandledKeeps
    <3> QED
      BY <2>2, <3>1, <3>2
  <2>4. LockStep
    <3>1. told' # {} => Two(Seen(Time, roundTimes))
      BY <2>1, <2>2 DEF Handled
    <3>2. SeenBy(Time, FALSE) = Seen(Time, roundTimes)
      BY DEF SeenBy, Seen
    <3>3. IsFiniteSet(Seen(Time, roundTimes))
      BY FS_EmptySet, FS_AddElement DEF Seen, GpsInv, DataInv, Counted
    <3> QED
      BY <3>1, <3>2, <3>3, TwoAreTwo DEF LockStep
  <2>5. DateStep
    <3>1. \/ Head(rest).type = "RMC" /\ told' = OnRMC.told
          \/ Head(rest).type = "GGA" /\ told' = OnGGA.told
      BY <2>2 DEF Handled
    <3>2. /\ Head(rest).type = "RMC" /\ dated' => Sound(OnRMC, Seen(Time, roundTimes), {day, NoDate})
          /\ Head(rest).type = "GGA" /\ dated' => Sound(OnGGA, Seen(Time, roundTimes), {day, NoDate})
      BY <2>8
    <3> QED
      BY <3>1, <3>2 DEF DateStep, Sound
  <2>6. ShownStep
    <3>1. SatsKept(OnRMC.d) /\ SatsKept(OnGGA.d)
      BY <2>1 DEF Sound
    <3>2. /\ data_'.satDataGPList \in {data_.satDataGPList, <<>>}
          /\ data_'.satDataBDList \in {data_.satDataBDList, <<>>}
      BY <2>2, <3>1 DEF Handled, SatsKept
    <3> QED
      BY <3>2 DEF ShownStep, Shown, OneBatch
  <2> QED
    BY <2>3, <2>4, <2>5, <2>6 DEF Steps
<1>4. CASE idNmea_ /\ processData_ /\ Head(rest).type = "GSV"
  <2>1. PICK mismatch \in BOOLEAN : HandledGSV(OnGSV(Head(rest), mismatch))
    BY <1>1, <1>4 DEF ReadLine
  <2> DEFINE g == OnGSV(Head(rest), mismatch)
             list == g.cache.satDataList
  <2>2. Head(rest) \in Gsvs
    BY <1>1, <1>4 DEF Lines
  <2>3. /\ CacheOk(g.cache, IF Len(list) > 1 /\ missed = 2 THEN 2 ELSE 0, Tail(rest), second)
        /\ \/ g.d = data_
           \/ \E new \in Seq(SatMessages) :
                \/ /\ g.d = [data_ EXCEPT !.satDataGPList = new]
                   /\ OneBatch(new, TRUE) \/ missed = 2
                \/ /\ g.d = [data_ EXCEPT !.satDataBDList = new]
                   /\ OneBatch(new, FALSE) \/ missed = 2
    BY <1>1, <2>2, GsvIsSound DEF GpsInv, WorldInv, DataInv, CacheInv
  <2> HIDE DEF g
  <2>4. data_' = g.d /\ satCache_' = g.cache /\ told' = {} /\ roundTimes' = roundTimes
        /\ missed' = IF Len(list) > 1 /\ missed = 2 THEN 2 ELSE 0
    BY <2>1 DEF HandledGSV, g
  <2>5. CacheInv'
    BY <1>1, <2>3, <2>4 DEF CacheInv
  <2>6. WorldInv'
    BY <1>1, SentenceGone
  <2>7. /\ data_ \in DataType /\ Complete(data_) /\ Counted(data_, roundTimes)
        /\ dated \in BOOLEAN /\ (dated => data_.dateStr \in {day, NoDate})
        /\ dated' = dated /\ day' = day
    BY <1>1, <2>1 DEF GpsInv, DataInv, HandledGSV
  <2>8. DataInv' /\ ShownStep
    <3>1. CASE g.d = data_
      BY <2>4, <2>7, <3>1 DEF DataInv, ShownStep, Shown
    <3>2. ASSUME NEW new \in Seq(SatMessages), g.d = [data_ EXCEPT !.satDataGPList = new],
                 OneBatch(new, TRUE) \/ missed = 2
          PROVE  DataInv' /\ ShownStep
      <4>1. /\ g.d \in DataType /\ Complete(g.d) /\ Counted(g.d, roundTimes)
            /\ g.d.satDataGPList = new /\ g.d.satDataBDList = data_.satDataBDList
            /\ g.d.dateStr = data_.dateStr
        BY <2>7, <3>2 DEF DataType, Complete, Counted
      <4>2. ShownStep
        BY <2>4, <3>2, <4>1 DEF ShownStep, Shown
      <4>3. data_'.dateStr = data_.dateStr
        BY <2>4, <4>1
      <4>4. DataInv'
        BY <2>4, <2>7, <4>1, <4>3 DEF DataInv
      <4> QED
        BY <4>2, <4>4
    <3>3. ASSUME NEW new \in Seq(SatMessages), g.d = [data_ EXCEPT !.satDataBDList = new],
                 OneBatch(new, FALSE) \/ missed = 2
          PROVE  DataInv' /\ ShownStep
      <4>1. /\ g.d \in DataType /\ Complete(g.d) /\ Counted(g.d, roundTimes)
            /\ g.d.satDataBDList = new /\ g.d.satDataGPList = data_.satDataGPList
            /\ g.d.dateStr = data_.dateStr
        BY <2>7, <3>3 DEF DataType, Complete, Counted
      <4>2. ShownStep
        BY <2>4, <3>3, <4>1 DEF ShownStep, Shown
      <4>3. data_'.dateStr = data_.dateStr
        BY <2>4, <4>1
      <4>4. DataInv'
        BY <2>4, <2>7, <4>1, <4>3 DEF DataInv
      <4> QED
        BY <4>2, <4>4
    <3> QED
      BY <2>3, <3>1, <3>2, <3>3
  <2> QED
    BY <2>4, <2>5, <2>6, <2>8 DEF GpsInv, Steps, LockStep, DateStep
<1>5. Head(rest).type \in {"RMC", "GGA", "GSV"}
  BY <1>1, LinesAre
<1> QED
  BY <1>2, <1>3, <1>4, <1>5

LEMMA LoseKeeps ==
  ASSUME GpsInv, Lose
  PROVE  GpsInv' /\ Steps
BY UnheardKeeps DEF Lose

(* What the application does.                                              *)
LEMMA ApplicationKeeps ==
  ASSUME GpsInv,
         \/ StartMonitoring \/ StopMonitoring \/ \E cbs \in Subscriptions : SetCallbacks(cbs)
         \/ ResetOnly \/ ResetAndDelayProcessing \/ OnTimeout
  PROVE  GpsInv' /\ Steps
<1>1. /\ UNCHANGED moduleVars /\ UNCHANGED <<satCache_, missed>> /\ told' = {}
      /\ \/ data_' = data_ /\ roundTimes' = roundTimes
         \/ data_' = AccumulatedData /\ roundTimes' = {}
      /\ dated' = dated /\ day' = day
  BY DEF moduleVars, StartMonitoring, StopMonitoring, SetCallbacks, ResetOnly, ResetAndDelayProcessing,
         Reset, OnTimeout, ghosts
<1>2. WorldInv' /\ CacheInv'
  BY <1>1 DEF GpsInv, WorldInv, CacheInv, moduleVars, Suffix
<1>3. DataInv'
  BY <1>1, EmptyData DEF GpsInv, DataInv
<1> QED
  BY <1>1, <1>2, <1>3, QuietStep DEF GpsInv

LEMMA GpsStep ==
  ASSUME GpsInv, [Next]_vars
  PROVE  GpsInv' /\ (Steps \/ UNCHANGED vars)
<1>1. CASE NextSecond
  BY <1>1, NextSecondKeeps
<1>2. CASE Hear
  BY <1>2, HearKeeps
<1>3. CASE Lose
  BY <1>3, LoseKeeps
<1>4. CASE \/ StartMonitoring \/ StopMonitoring \/ \E cbs \in Subscriptions : SetCallbacks(cbs)
           \/ ResetOnly \/ ResetAndDelayProcessing \/ OnTimeout
  BY <1>4, ApplicationKeeps
<1>5. CASE UNCHANGED vars
  BY <1>5 DEF vars, moduleVars, ghosts, GpsInv, WorldInv, DataInv, CacheInv, Suffix
<1> QED
  BY <1>1, <1>2, <1>3, <1>4, <1>5 DEF Next

THEOREM GpsInvariant == Spec => []GpsInv
<1>1. GpsInv /\ [Next]_vars => GpsInv'
  BY GpsStep
<1> QED
  BY <1>1, GpsInit, PTL DEF Spec

-----------------------------------------------------------------------------
(* FixesComplete: unless the callback of the time resets, a fix that can   *)
(* be asked for has those it rests on (HasFix2D, HasFix3D, HasFix3DPlus).  *)
THEOREM FixesAreComplete ==
  ASSUME "FixTime" \notin CallbackResets
  PROVE  Spec => []FixesComplete
<1>1. GpsInv => FixesComplete
  BY DEF GpsInv, DataInv, Complete, KeepsTime, FixesComplete
<1> QED
  BY <1>1, GpsInvariant, PTL

(* LocksAreSteady: TimeStateIsValid trusts a time only after two round     *)
(* seconds, with none between them that was not, since the last Reset,     *)
(* whatever is lost and whatever the callbacks do.                         *)
THEOREM LocksComeSteadily == Spec => LocksAreSteady
<1>1. GpsInv /\ [Next]_vars => [told' # {} => Cardinality(SeenBy(Time, FALSE)) >= 2]_vars
  BY GpsStep DEF Steps, LockStep
<1> QED
  BY <1>1, GpsInvariant, PTL DEF Spec, LocksAreSteady

(* DateWrongUntilRMC: from the first RMC of a day whose time OnRMC trusts, *)
(* until midnight, every date that is told is of that day, also by OnGGA,  *)
(* which has none of its own, and after any resets.                        *)
THEOREM DatesAreCorrected == Spec => DateWrongUntilRMC
<1>1. GpsInv /\ [Next]_vars
        => [dated' => \A t \in told' : t.date \in {day, NoDate}]_vars
  BY GpsStep DEF Steps, DateStep
<1> QED
  BY <1>1, GpsInvariant, PTL DEF Spec, DateWrongUntilRMC

(* SplicedOnlyAcrossGap: OnGSV shows satellites of two batches as one only *)
(* if two messages in a row were missed, whatever the batches are.         *)
THEOREM BatchesAreWhole == Spec => SplicedOnlyAcrossGap
<1>1. GpsInv /\ [Next]_vars
        => [Shown(data_.satDataGPList, TRUE) /\ Shown(data_.satDataBDList, FALSE)]_vars
  BY GpsStep DEF Steps, ShownStep
<1> QED
  BY <1>1, GpsInvariant, PTL DEF Spec, SplicedOnlyAcrossGap
=============================================================================
