----------------------------- MODULE BleGattProofs -----------------------------
(***************************************************************************)
(* Proofs about BleGatt, for any characteristics, values, sizes and room   *)
(* in the queue: work finds what it was queued for, writes are delivered   *)
(* as they came, and reads are whole.                                      *)
(***************************************************************************)
EXTENDS BleGatt, SequenceTheorems, TLAPS

-----------------------------------------------------------------------------
(* Sequences that grow at the end and are taken from the front.            *)

LEMMA Longer ==
  ASSUME NEW S, NEW s \in Seq(S), NEW x \in S
  PROVE  /\ Append(s, x) \in Seq(S) /\ Len(Append(s, x)) = Len(s) + 1
         /\ Append(s, x)[Len(s) + 1] = x
         /\ \A i \in 1 .. Len(s) : Append(s, x)[i] = s[i]
         /\ Append(s, x) # <<>> /\ Len(s) \in Nat
OBVIOUS

LEMMA Shorter ==
  ASSUME NEW S, NEW s \in Seq(S), s # <<>>
  PROVE  /\ Tail(s) \in Seq(S) /\ Len(Tail(s)) = Len(s) - 1 /\ Len(s) \in Nat \ {0}
         /\ \A i \in 1 .. Len(s) - 1 : Tail(s)[i] = s[i + 1]
         /\ Head(s) = s[1] /\ Head(s) \in S
OBVIOUS

LEMMA Part ==
  ASSUME NEW S, NEW s \in Seq(S), NEW m \in Nat \ {0}, NEW n \in 0 .. Len(s)
  PROVE  /\ SubSeq(s, m, n) \in Seq(S)
         /\ Len(SubSeq(s, m, n)) = IF m <= n THEN n - m + 1 ELSE 0
         /\ \A i \in 1 .. n - m + 1 : SubSeq(s, m, n)[i] = s[m + i - 1]
<1>1. Len(s) \in Nat /\ \A i \in 1 .. Len(s) : s[i] \in S
  BY LenProperties, ElementOfSeq
<1>2. \A i \in m .. n : s[i] \in S
  BY <1>1
<1> QED
  BY <1>1, <1>2, SubSeqProperties

(* A part of a sequence stays what it is when the sequence grows, and is   *)
(* the same part, nearer, when others before it are taken.                 *)
LEMMA PartOfLonger ==
  ASSUME NEW S, NEW s \in Seq(S), NEW t \in Seq(S), NEW m \in Nat \ {0}, NEW n \in 0 .. Len(s)
  PROVE  SubSeq(s \o t, m, n) = SubSeq(s, m, n)
<1>1. /\ s \o t \in Seq(S) /\ Len(s \o t) = Len(s) + Len(t) /\ Len(s) \in Nat /\ Len(t) \in Nat
      /\ \A i \in 1 .. Len(s) : (s \o t)[i] = s[i]
  BY LenProperties, ConcatProperties
<1>2. n \in 0 .. Len(s \o t)
  BY <1>1
<1>3. ASSUME NEW i \in 1 .. n - m + 1 PROVE SubSeq(s \o t, m, n)[i] = SubSeq(s, m, n)[i]
  <2>1. m + i - 1 \in 1 .. Len(s)
    BY <1>1
  <2> QED
    BY <1>1, <1>2, <2>1, Part
<1>4. /\ SubSeq(s \o t, m, n) \in Seq(S) /\ SubSeq(s, m, n) \in Seq(S)
      /\ Len(SubSeq(s \o t, m, n)) = Len(SubSeq(s, m, n))
      /\ Len(SubSeq(s, m, n)) = IF m <= n THEN n - m + 1 ELSE 0
  BY <1>1, <1>2, Part
<1>5. \A i \in 1 .. Len(SubSeq(s, m, n)) : i \in 1 .. n - m + 1
  BY <1>4
<1> QED
  BY <1>3, <1>4, <1>5, SeqEqual

LEMMA PartOfPart ==
  ASSUME NEW S, NEW s \in Seq(S), NEW a \in 0 .. Len(s), NEW m \in Nat \ {0}, m > a,
         NEW n \in a .. Len(s)
  PROVE  SubSeq(SubSeq(s, a + 1, Len(s)), m - a, n - a) = SubSeq(s, m, n)
<1> DEFINE t == SubSeq(s, a + 1, Len(s))
           p == SubSeq(t, m - a, n - a)
           q == SubSeq(s, m, n)
<1>1. Len(s) \in Nat
  BY LenProperties
<1>2. /\ t \in Seq(S) /\ Len(t) = Len(s) - a
      /\ \A i \in 1 .. Len(s) - a : t[i] = s[a + i]
  <2>1. a + 1 \in Nat \ {0} /\ Len(s) \in 0 .. Len(s) /\ Len(s) - (a + 1) + 1 = Len(s) - a
    BY <1>1
  <2>2. \A i \in 1 .. Len(s) - a : (a + 1) + i - 1 = a + i
    BY <1>1
  <2>3. /\ t \in Seq(S) /\ Len(t) = IF a + 1 <= Len(s) THEN Len(s) - (a + 1) + 1 ELSE 0
        /\ \A i \in 1 .. Len(s) - (a + 1) + 1 : t[i] = s[(a + 1) + i - 1]
    BY <2>1, Part
  <2> HIDE DEF t
  <2>4. Len(t) = Len(s) - a
    BY <1>1, <2>3
  <2>5. \A i \in 1 .. Len(s) - a : t[i] = s[a + i]
    BY <2>1, <2>2, <2>3
  <2> QED
    BY <2>3, <2>4, <2>5
<1> HIDE DEF t
<1>3. /\ m - a \in Nat \ {0} /\ n - a \in 0 .. Len(t) /\ (n - a) - (m - a) + 1 = n - m + 1
      /\ m <= n <=> m - a <= n - a
  <2>1. a \in Nat /\ n \in Nat /\ m - a > 0 /\ n - a >= 0 /\ n - a <= Len(s) - a
    BY <1>1
  <2> QED
    BY <2>1, <1>2
<1>4. /\ p \in Seq(S) /\ Len(p) = IF m <= n THEN n - m + 1 ELSE 0
      /\ \A i \in 1 .. n - m + 1 : p[i] = t[(m - a) + i - 1]
  BY <1>2, <1>3, Part
<1>5. /\ q \in Seq(S) /\ Len(q) = IF m <= n THEN n - m + 1 ELSE 0
      /\ \A i \in 1 .. n - m + 1 : q[i] = s[m + i - 1]
  <2>1. n \in 0 .. Len(s)
    BY <1>1
  <2> QED
    BY <2>1, Part
<1>6. ASSUME NEW i \in 1 .. n - m + 1 PROVE p[i] = q[i]
  <2>1. (m - a) + i - 1 \in 1 .. Len(s) - a /\ a + ((m - a) + i - 1) = m + i - 1
    BY <1>1
  <2> QED
    BY <2>1, <1>2, <1>4, <1>5
<1>7. \A i \in 1 .. Len(q) : i \in 1 .. n - m + 1
  BY <1>5
<1> QED
  BY <1>4, <1>5, <1>6, <1>7, SeqEqual

-----------------------------------------------------------------------------
(* What is queued, and what it is owed.                                    *)

Data == Seq({0, 1})
Works ==
  [op : {"read", "notify"}] \cup [op : {"write"}, n : Nat]
    \cup [op : {"subscribe"}, handle : Handles]
Owed == [handle : Handles \cup {NoHandle}, bytes : Data]

(* The writes of `queue`, of which the first is the one that is owed after *)
(* `taken` others: `ends` are the places in the buffer that the bytes of   *)
(* each end at, `nth` are how many were owed until then.                   *)
Grows(f, n) == \A i, j \in 0 .. n : i <= j => f[i] <= f[j]
Accounts(queue, list, owes, taken, all, ends, nth) ==
  /\ ends \in [0 .. Len(queue) -> 0 .. Len(list)] /\ nth \in [0 .. Len(queue) -> 0 .. Len(owes)]
  /\ ends[0] = 0 /\ nth[0] = taken /\ nth[Len(queue)] = Len(owes)
  /\ all => ends[Len(queue)] = Len(list)
  /\ Grows(ends, Len(queue)) /\ Grows(nth, Len(queue))
  /\ \A i \in 1 .. Len(queue) :
       IF queue[i].op = "write"
         THEN /\ nth[i] = nth[i - 1] + 1 /\ ends[i] = ends[i - 1] + queue[i].n
              /\ owes[nth[i]].bytes = SubSeq(list, ends[i - 1] + 1, ends[i])
         ELSE nth[i] = nth[i - 1] /\ ends[i] = ends[i - 1]

Ledger(queue, list, owes, taken, all) ==
  \E ends, nth : Accounts(queue, list, owes, taken, all, ends, nth)

LEMMA GrowsOn ==
  ASSUME NEW n \in Nat, NEW f, NEW m \in Nat, f \in [0 .. n -> 0 .. m], Grows(f, n),
         NEW g, \A i \in 0 .. n : g[i] = f[i], g[n + 1] \in Nat, g[n + 1] >= f[n]
  PROVE  Grows(g, n + 1)
<1>1. SUFFICES ASSUME NEW i \in 0 .. n + 1, NEW j \in 0 .. n + 1, i <= j PROVE g[i] <= g[j]
  BY DEF Grows
<1>2. CASE j # n + 1
  <2>1. i \in 0 .. n /\ j \in 0 .. n
    BY <1>1, <1>2
  <2> QED
    BY <2>1, <1>1 DEF Grows
<1>3. CASE j = n + 1 /\ i # n + 1
  <2>1. i \in 0 .. n /\ n \in 0 .. n /\ i <= n
    BY <1>3
  <2>2. f[i] <= f[n] /\ f[i] \in 0 .. m /\ f[n] \in 0 .. m
    BY <2>1 DEF Grows
  <2> QED
    BY <2>1, <2>2, <1>3
<1>4. CASE j = n + 1 /\ i = n + 1
  BY <1>4
<1> QED
  BY <1>2, <1>3, <1>4

(* Other work that is queued, and taken.                                   *)
LEMMA OtherQueued ==
  ASSUME NEW queue \in Seq(Works), NEW list \in Data, NEW owes \in Seq(Owed), NEW taken, NEW all,
         Ledger(queue, list, owes, taken, all), NEW work \in Works, work.op # "write"
  PROVE  Ledger(Append(queue, work), list, owes, taken, all)
<1>1. PICK ends, nth : Accounts(queue, list, owes, taken, all, ends, nth)
  BY DEF Ledger
<1> DEFINE n == Len(queue)
           q == Append(queue, work)
           e == [i \in 0 .. n + 1 |-> IF i <= n THEN ends[i] ELSE ends[n]]
           k == [i \in 0 .. n + 1 |-> IF i <= n THEN nth[i] ELSE nth[n]]
<1>2. /\ Len(q) = n + 1 /\ q[n + 1] = work /\ \A i \in 1 .. n : q[i] = queue[i]
      /\ n \in Nat
  BY Longer
<1> HIDE DEF n, q
<1>3. /\ ends \in [0 .. n -> 0 .. Len(list)] /\ nth \in [0 .. n -> 0 .. Len(owes)]
      /\ ends[0] = 0 /\ nth[0] = taken /\ nth[n] = Len(owes) /\ (all => ends[n] = Len(list))
  BY <1>1 DEF Accounts, n
<1>4. /\ e \in [0 .. n + 1 -> 0 .. Len(list)] /\ k \in [0 .. n + 1 -> 0 .. Len(owes)]
      /\ e[0] = ends[0] /\ k[0] = nth[0] /\ e[n + 1] = ends[n] /\ k[n + 1] = nth[n]
      /\ \A i \in 0 .. n : e[i] = ends[i] /\ k[i] = nth[i]
  BY <1>2, <1>3
<1> HIDE DEF e, k
<1>5. ASSUME NEW i \in 1 .. n + 1
      PROVE  IF q[i].op = "write"
             THEN /\ k[i] = k[i - 1] + 1 /\ e[i] = e[i - 1] + q[i].n
                  /\ owes[k[i]].bytes = SubSeq(list, e[i - 1] + 1, e[i])
             ELSE k[i] = k[i - 1] /\ e[i] = e[i - 1]
  <2>1. CASE i = n + 1
    <3>1. i - 1 = n /\ n \in 0 .. n
      BY <2>1, <1>2
    <3> QED
      BY <2>1, <3>1, <1>2, <1>4
  <2>2. CASE i # n + 1
    <3>1. i \in 1 .. n /\ i \in 0 .. n /\ i - 1 \in 0 .. n
      BY <2>2, <1>2
    <3> QED
      BY <3>1, <1>1, <1>2, <1>4 DEF Accounts, n
  <2> QED
    BY <2>1, <2>2
<1>6. Grows(e, n + 1) /\ Grows(k, n + 1)
  <2>1. Len(list) \in Nat /\ Len(owes) \in Nat
    BY LenProperties DEF Data
  <2>2. Grows(ends, n) /\ Grows(nth, n)
    BY <1>1 DEF Accounts, n
  <2>3. n \in 0 .. n /\ ends[n] \in Nat /\ nth[n] \in Nat
    BY <2>1, <1>2, <1>3
  <2>4. /\ e[n + 1] \in Nat /\ e[n + 1] >= ends[n] /\ k[n + 1] \in Nat /\ k[n + 1] >= nth[n]
        /\ \A i \in 0 .. n : e[i] = ends[i]
        /\ \A i \in 0 .. n : k[i] = nth[i]
    BY <2>3, <1>4
  <2>5. ends \in [0 .. n -> 0 .. Len(list)] /\ nth \in [0 .. n -> 0 .. Len(owes)]
    BY <1>3
  <2>6. Grows(e, n + 1)
    BY <2>1, <2>2, <2>4, <2>5, <1>2, GrowsOn
  <2>7. Grows(k, n + 1)
    BY <2>1, <2>2, <2>4, <2>5, <1>2, GrowsOn
  <2> QED
    BY <2>6, <2>7
<1>7. Accounts(q, list, owes, taken, all, e, k)
  BY <1>2, <1>3, <1>4, <1>5, <1>6 DEF Accounts
<1> QED
  BY <1>7 DEF Ledger, q

LEMMA OtherTaken ==
  ASSUME NEW queue \in Seq(Works), queue # <<>>, NEW list \in Data, NEW owes \in Seq(Owed),
         NEW taken, NEW all, Ledger(queue, list, owes, taken, all), Head(queue).op # "write"
  PROVE  Ledger(Tail(queue), list, owes, taken, all)
<1>1. PICK ends, nth : Accounts(queue, list, owes, taken, all, ends, nth)
  BY DEF Ledger
<1> DEFINE n == Len(queue) - 1
           q == Tail(queue)
           e == [i \in 0 .. n |-> ends[i + 1]]
           k == [i \in 0 .. n |-> nth[i + 1]]
<1>2. /\ Len(q) = n /\ Len(queue) = n + 1 /\ \A i \in 1 .. n : q[i] = queue[i + 1]
      /\ n \in Nat /\ Head(queue) = queue[1]
  BY Shorter
<1> HIDE DEF n, q
<1>3. /\ ends \in [0 .. n + 1 -> 0 .. Len(list)] /\ nth \in [0 .. n + 1 -> 0 .. Len(owes)]
      /\ ends[0] = 0 /\ nth[0] = taken /\ nth[n + 1] = Len(owes)
      /\ (all => ends[n + 1] = Len(list))
      /\ ends[1] = ends[1 - 1] /\ nth[1] = nth[1 - 1]
  BY <1>1, <1>2 DEF Accounts
<1>4. /\ e \in [0 .. n -> 0 .. Len(list)] /\ k \in [0 .. n -> 0 .. Len(owes)]
      /\ e[0] = 0 /\ k[0] = taken /\ e[n] = ends[n + 1] /\ k[n] = nth[n + 1]
      /\ \A i \in 0 .. n : e[i] = ends[i + 1] /\ k[i] = nth[i + 1]
  BY <1>2, <1>3
<1> HIDE DEF e, k
<1>5. ASSUME NEW i \in 1 .. n
      PROVE  IF q[i].op = "write"
             THEN /\ k[i] = k[i - 1] + 1 /\ e[i] = e[i - 1] + q[i].n
                  /\ owes[k[i]].bytes = SubSeq(list, e[i - 1] + 1, e[i])
             ELSE k[i] = k[i - 1] /\ e[i] = e[i - 1]
  <2>1. i + 1 \in 1 .. n + 1 /\ i \in 0 .. n /\ i - 1 \in 0 .. n /\ (i - 1) + 1 = i
        /\ (i + 1) - 1 = i
    BY <1>2
  <2>2. e[i] = ends[i + 1] /\ k[i] = nth[i + 1] /\ e[i - 1] = ends[i] /\ k[i - 1] = nth[i]
    BY <2>1, <1>4
  <2> DEFINE j == i + 1
  <2>3. j \in 1 .. Len(queue) /\ q[i] = queue[j]
    BY <2>1, <1>2
  <2>4. e[i] = ends[j] /\ k[i] = nth[j] /\ e[i - 1] = ends[j - 1] /\ k[i - 1] = nth[j - 1]
    BY <2>1, <2>2
  <2> HIDE DEF j
  <2> QED
    BY <2>3, <2>4, <1>1 DEF Accounts
<1>6. Grows(e, n) /\ Grows(k, n)
  <2>1. SUFFICES ASSUME NEW i \in 0 .. n, NEW j \in 0 .. n, i <= j
                 PROVE  e[i] <= e[j] /\ k[i] <= k[j]
    BY DEF Grows
  <2>2. i + 1 \in 0 .. n + 1 /\ j + 1 \in 0 .. n + 1 /\ i + 1 <= j + 1
    BY <1>2, <2>1
  <2>3. Grows(ends, n + 1) /\ Grows(nth, n + 1)
    BY <1>1, <1>2 DEF Accounts
  <2>4. ends[i + 1] <= ends[j + 1] /\ nth[i + 1] <= nth[j + 1]
    BY <2>2, <2>3 DEF Grows
  <2> QED
    BY <2>4, <1>4
<1>7. Accounts(q, list, owes, taken, all, e, k)
  BY <1>2, <1>3, <1>4, <1>5, <1>6 DEF Accounts
<1> QED
  BY <1>7 DEF Ledger, q

(* A write that is queued: its bytes are the last of the buffer.           *)
LEMMA WriteQueued ==
  ASSUME NEW queue \in Seq(Works), NEW list \in Data, NEW owes \in Seq(Owed), NEW taken,
         Ledger(queue, list, owes, taken, TRUE), NEW bytes \in Data,
         NEW work \in Works, work.op = "write", work.n = Len(bytes),
         NEW debt \in Owed, debt.bytes = bytes
  PROVE  Ledger(Append(queue, work), list \o bytes, Append(owes, debt), taken, TRUE)
<1>1. PICK ends, nth : Accounts(queue, list, owes, taken, TRUE, ends, nth)
  BY DEF Ledger
<1> DEFINE n == Len(queue)
           m == Len(owes)
           l == Len(list)
           b == Len(bytes)
           q == Append(queue, work)
           o == Append(owes, debt)
           d == list \o bytes
           e == [i \in 0 .. n + 1 |-> IF i <= n THEN ends[i] ELSE l + b]
           k == [i \in 0 .. n + 1 |-> IF i <= n THEN nth[i] ELSE m + 1]
<1>2. /\ Len(q) = n + 1 /\ q[n + 1] = work /\ \A i \in 1 .. n : q[i] = queue[i]
      /\ n \in Nat
  BY Longer
<1>3. /\ Len(o) = m + 1 /\ o[m + 1] = debt /\ \A i \in 1 .. m : o[i] = owes[i]
      /\ m \in Nat
  BY Longer
<1>4. /\ d \in Data /\ Len(d) = l + b /\ l \in Nat /\ b \in Nat
      /\ \A i \in 1 .. b : d[l + i] = bytes[i]
  BY ConcatProperties, LenProperties DEF Data
<1>5. SubSeq(d, l + 1, l + b) = bytes
  <2>1. /\ SubSeq(d, l + 1, l + b) \in Data
        /\ Len(SubSeq(d, l + 1, l + b)) = IF l + 1 <= l + b THEN (l + b) - (l + 1) + 1 ELSE 0
        /\ \A i \in 1 .. (l + b) - (l + 1) + 1 : SubSeq(d, l + 1, l + b)[i] = d[(l + 1) + i - 1]
    <3>1. l + 1 \in Nat \ {0} /\ l + b \in 0 .. Len(d)
      BY <1>4
    <3> HIDE DEF l, b, d
    <3> QED
      BY <3>1, <1>4, Part DEF Data
  <2> HIDE DEF l, d
  <2>2. b = Len(bytes)
    OBVIOUS
  <2> HIDE DEF b
  <2>3. Len(SubSeq(d, l + 1, l + b)) = b
    BY <2>1, <1>4
  <2>4. (l + b) - (l + 1) + 1 = b /\ \A i \in 1 .. b : (l + 1) + i - 1 = l + i
    BY <1>4
  <2>5. \A i \in 1 .. b : SubSeq(d, l + 1, l + b)[i] = bytes[i]
    BY <2>1, <2>4, <1>4
  <2> QED
    BY <2>1, <2>2, <2>3, <2>5, SeqEqual DEF Data
<1>6. \A i, j \in 0 .. l : SubSeq(d, i + 1, j) = SubSeq(list, i + 1, j)
  <2>1. list \in Seq({0, 1}) /\ bytes \in Seq({0, 1})
    BY DEF Data
  <2>2. \A i \in 0 .. l : i + 1 \in Nat \ {0}
    BY <1>4
  <2> QED
    BY <2>1, <2>2, PartOfLonger
<1> HIDE DEF n, m, l, b, q, o, d
<1>7. /\ ends \in [0 .. n -> 0 .. l] /\ nth \in [0 .. n -> 0 .. m]
      /\ ends[0] = 0 /\ nth[0] = taken /\ nth[n] = m /\ ends[n] = l
  BY <1>1 DEF Accounts, n, m, l
<1>8. /\ e \in [0 .. n + 1 -> 0 .. l + b] /\ k \in [0 .. n + 1 -> 0 .. m + 1]
      /\ e[0] = ends[0] /\ k[0] = nth[0] /\ e[n + 1] = l + b /\ k[n + 1] = m + 1
      /\ \A i \in 0 .. n : e[i] = ends[i] /\ k[i] = nth[i]
  BY <1>2, <1>3, <1>4, <1>7
<1> HIDE DEF e, k
<1>9. ASSUME NEW i \in 1 .. n + 1
      PROVE  IF q[i].op = "write"
             THEN /\ k[i] = k[i - 1] + 1 /\ e[i] = e[i - 1] + q[i].n
                  /\ o[k[i]].bytes = SubSeq(d, e[i - 1] + 1, e[i])
             ELSE k[i] = k[i - 1] /\ e[i] = e[i - 1]
  <2>1. CASE i = n + 1
    <3>1. i - 1 = n /\ n \in 0 .. n
      BY <2>1, <1>2
    <3>2. e[i - 1] = l /\ e[i] = l + b /\ k[i - 1] = m /\ k[i] = m + 1 /\ q[i].n = b
      BY <2>1, <3>1, <1>2, <1>7, <1>8 DEF b
    <3>3. o[k[i]].bytes = SubSeq(d, e[i - 1] + 1, e[i])
      BY <3>2, <1>3, <1>5
    <3> QED
      BY <2>1, <3>2, <3>3, <1>2
  <2>2. CASE i # n + 1
    <3>1. i \in 1 .. n /\ i \in 0 .. n /\ i - 1 \in 0 .. n
      BY <2>2, <1>2
    <3>2. /\ e[i] = ends[i] /\ k[i] = nth[i] /\ e[i - 1] = ends[i - 1] /\ k[i - 1] = nth[i - 1]
          /\ q[i] = queue[i]
      BY <3>1, <1>2, <1>8
    <3>3. IF queue[i].op = "write"
          THEN /\ nth[i] = nth[i - 1] + 1 /\ ends[i] = ends[i - 1] + queue[i].n
               /\ owes[nth[i]].bytes = SubSeq(list, ends[i - 1] + 1, ends[i])
          ELSE nth[i] = nth[i - 1] /\ ends[i] = ends[i - 1]
      BY <3>1, <1>1 DEF Accounts, n
    <3>4. ends[i] \in 0 .. l /\ ends[i - 1] \in 0 .. l /\ nth[i] \in 0 .. m /\ nth[i - 1] \in 0 .. m
      BY <3>1, <1>7
    <3>5. queue[i].op = "write" => o[nth[i]] = owes[nth[i]]
      BY <3>3, <3>4, <1>3
    <3> QED
      BY <3>2, <3>3, <3>4, <3>5, <1>6
  <2> QED
    BY <2>1, <2>2
<1>10. Grows(e, n + 1) /\ Grows(k, n + 1)
  <2>1. Grows(ends, n) /\ Grows(nth, n)
    BY <1>1 DEF Accounts, n
  <2>2. e[n + 1] >= ends[n] /\ k[n + 1] >= nth[n] /\ e[n + 1] \in Nat /\ k[n + 1] \in Nat
    BY <1>3, <1>4, <1>7, <1>8
  <2>3. /\ \A i \in 0 .. n : e[i] = ends[i]
        /\ \A i \in 0 .. n : k[i] = nth[i]
    BY <1>8
  <2>4. ends \in [0 .. n -> 0 .. l] /\ nth \in [0 .. n -> 0 .. m]
    BY <1>7
  <2>5. Grows(e, n + 1)
    BY <2>1, <2>2, <2>3, <2>4, <1>2, <1>4, GrowsOn
  <2>6. Grows(k, n + 1)
    BY <2>1, <2>2, <2>3, <2>4, <1>2, <1>3, GrowsOn
  <2> QED
    BY <2>5, <2>6
<1>11. Accounts(q, d, o, taken, TRUE, e, k)
  BY <1>2, <1>3, <1>4, <1>7, <1>8, <1>9, <1>10 DEF Accounts
<1> QED
  BY <1>11 DEF Ledger, q, d, o

(* A write that is taken: the buffer has its bytes, at the front.          *)
LEMMA WriteTaken ==
  ASSUME NEW queue \in Seq(Works), queue # <<>>, NEW list \in Data, NEW owes \in Seq(Owed),
         NEW all, Ledger(queue, list, owes, 0, all), Head(queue).op = "write"
  PROVE  LET n == Head(queue).n IN
         /\ n <= Len(list) /\ owes # <<>> /\ owes[1].bytes = SubSeq(list, 1, n)
         /\ Ledger(Tail(queue), SubSeq(list, n + 1, Len(list)), owes, 1, all)
<1>1. PICK ends, nth : Accounts(queue, list, owes, 0, all, ends, nth)
  BY DEF Ledger
<1> DEFINE n == Len(queue) - 1
           m == Len(owes)
           l == Len(list)
           a == Head(queue).n
           q == Tail(queue)
           d == SubSeq(list, a + 1, l)
           e == [i \in 0 .. n |-> ends[i + 1] - a]
           k == [i \in 0 .. n |-> nth[i + 1]]
<1>2. /\ Len(q) = n /\ Len(queue) = n + 1 /\ \A i \in 1 .. n : q[i] = queue[i + 1]
      /\ n \in Nat /\ Head(queue) = queue[1] /\ Head(queue) \in Works
  BY Shorter
<1>3. a \in Nat /\ l \in Nat /\ m \in Nat /\ list \in Seq({0, 1})
  BY <1>2, LenProperties DEF Works, Data
<1> HIDE DEF n, m, l, a, q
<1>4. /\ ends \in [0 .. n + 1 -> 0 .. l] /\ nth \in [0 .. n + 1 -> 0 .. m]
      /\ ends[0] = 0 /\ nth[0] = 0 /\ nth[n + 1] = m
      /\ (all => ends[n + 1] = l)
  BY <1>1, <1>2 DEF Accounts, m, l
<1>5. /\ nth[1] = nth[1 - 1] + 1 /\ ends[1] = ends[1 - 1] + a
      /\ owes[nth[1]].bytes = SubSeq(list, ends[1 - 1] + 1, ends[1])
  <2>1. 1 \in 1 .. n + 1
    BY <1>2
  <2> QED
    BY <2>1, <1>1, <1>2 DEF Accounts, a
<1>6. nth[1] = 1 /\ ends[1] = a /\ owes[1].bytes = SubSeq(list, 1, a) /\ 1 \in 0 .. n + 1
      /\ a <= l /\ m # 0
  <2>1. 1 - 1 = 0 /\ 0 + 1 = 1 /\ 0 + a = a /\ 1 \in 0 .. n + 1
    BY <1>2, <1>3
  <2>2. nth[1] = 1 /\ ends[1] = a /\ owes[1].bytes = SubSeq(list, 1, a)
    BY <2>1, <1>4, <1>5
  <2>3. ends[1] \in 0 .. l /\ nth[1] \in 0 .. m
    BY <2>1, <1>4
  <2> QED
    BY <2>1, <2>2, <2>3, <1>3
<1>7. Grows(ends, n + 1) /\ Grows(nth, n + 1)
  BY <1>1, <1>2 DEF Accounts
<1>8. ASSUME NEW i \in 0 .. n PROVE ends[i + 1] \in a .. l /\ nth[i + 1] \in 1 .. m
  <2>1. 1 \in 0 .. n + 1 /\ i + 1 \in 0 .. n + 1 /\ 1 <= i + 1
    BY <1>2
  <2>2. ends[1] <= ends[i + 1] /\ nth[1] <= nth[i + 1]
    BY <2>1, <1>7 DEF Grows
  <2>3. ends[i + 1] \in 0 .. l /\ nth[i + 1] \in 0 .. m
    BY <2>1, <1>4
  <2> QED
    BY <2>2, <2>3, <1>3, <1>6
<1>9. d \in Data /\ Len(d) = l - a
  <2>1. a + 1 \in Nat \ {0} /\ l \in 0 .. Len(list)
    BY <1>3 DEF l
  <2>2. d \in Seq({0, 1}) /\ Len(d) = IF a + 1 <= l THEN l - (a + 1) + 1 ELSE 0
    BY <2>1, <1>3, Part
  <2> HIDE DEF d
  <2> QED
    BY <2>2, <1>3, <1>6 DEF Data
<1>10. \A i, j \in a .. l : SubSeq(d, (i - a) + 1, j - a) = SubSeq(list, i + 1, j)
  <2>1. SUFFICES ASSUME NEW i \in a .. l, NEW j \in a .. l
                 PROVE  SubSeq(d, (i - a) + 1, j - a) = SubSeq(list, i + 1, j)
    OBVIOUS
  <2>2. /\ a \in 0 .. Len(list) /\ i + 1 \in Nat \ {0} /\ i + 1 > a /\ j \in a .. Len(list)
        /\ (i + 1) - a = (i - a) + 1
    BY <1>3, <1>6 DEF l
  <2> QED
    BY <2>2, <1>3, PartOfPart DEF l
<1> HIDE DEF d
<1>11. /\ e \in [0 .. n -> 0 .. l - a] /\ k \in [0 .. n -> 0 .. m]
       /\ e[0] = 0 /\ k[0] = 1 /\ k[n] = m /\ (all => e[n] = l - a)
       /\ \A i \in 0 .. n : e[i] = ends[i + 1] - a /\ k[i] = nth[i + 1] - 0
  <2>1. 0 \in 0 .. n /\ n \in 0 .. n /\ 0 + 1 = 1
    BY <1>2
  <2>2. \A i \in 0 .. n : ends[i + 1] - a \in 0 .. l - a /\ nth[i + 1] \in 0 .. m
                          /\ nth[i + 1] - 0 = nth[i + 1]
    BY <1>3, <1>8
  <2>3. e \in [0 .. n -> 0 .. l - a] /\ k \in [0 .. n -> 0 .. m]
    BY <2>2
  <2>4. \A i \in 0 .. n : e[i] = ends[i + 1] - a /\ k[i] = nth[i + 1] - 0
    BY <2>2
  <2>5. e[0] = a - a /\ k[0] = 1 /\ k[n] = m /\ (all => e[n] = l - a)
    BY <2>1, <1>4, <1>6
  <2>6. a - a = 0
    BY <1>3
  <2> QED
    BY <2>3, <2>4, <2>5, <2>6
<1> HIDE DEF e, k
<1>12. Grows(e, n) /\ Grows(k, n)
  <2>1. SUFFICES ASSUME NEW i \in 0 .. n, NEW j \in 0 .. n, i <= j
                 PROVE  e[i] <= e[j] /\ k[i] <= k[j]
    BY DEF Grows
  <2>2. i + 1 \in 0 .. n + 1 /\ j + 1 \in 0 .. n + 1 /\ i + 1 <= j + 1
    BY <1>2, <2>1
  <2>3. ends[i + 1] <= ends[j + 1] /\ nth[i + 1] <= nth[j + 1]
    BY <2>2, <1>7 DEF Grows
  <2>4. /\ e[i] = ends[i + 1] - a /\ e[j] = ends[j + 1] - a
        /\ k[i] = nth[i + 1] - 0 /\ k[j] = nth[j + 1] - 0
    BY <1>11
  <2>5. /\ ends[i + 1] \in a .. l /\ ends[j + 1] \in a .. l
        /\ nth[i + 1] \in 1 .. m /\ nth[j + 1] \in 1 .. m
    BY <1>8
  <2> QED
    BY <2>3, <2>4, <2>5, <1>3
<1>13. ASSUME NEW i \in 1 .. n
       PROVE  IF q[i].op = "write"
              THEN /\ k[i] = k[i - 1] + 1 /\ e[i] = e[i - 1] + q[i].n
                   /\ owes[k[i]].bytes = SubSeq(d, e[i - 1] + 1, e[i])
              ELSE k[i] = k[i - 1] /\ e[i] = e[i - 1]
  <2> DEFINE j == i + 1
  <2>1. j \in 1 .. Len(queue) /\ q[i] = queue[j] /\ i \in 0 .. n /\ i - 1 \in 0 .. n
        /\ (i - 1) + 1 = j - 1
    BY <1>2
  <2>2. /\ e[i] = ends[j] - a /\ k[i] = nth[j] - 0
        /\ e[i - 1] = ends[j - 1] - a /\ k[i - 1] = nth[j - 1] - 0
        /\ ends[j] \in a .. l /\ ends[j - 1] \in a .. l
        /\ nth[j] \in 1 .. m /\ nth[j - 1] \in 1 .. m
    BY <2>1, <1>8, <1>11
  <2> HIDE DEF j
  <2>3. IF queue[j].op = "write"
        THEN /\ nth[j] = nth[j - 1] + 1 /\ ends[j] = ends[j - 1] + queue[j].n
             /\ owes[nth[j]].bytes = SubSeq(list, ends[j - 1] + 1, ends[j])
        ELSE nth[j] = nth[j - 1] /\ ends[j] = ends[j - 1]
    BY <2>1, <1>1 DEF Accounts
  <2>4. k[i] = nth[j] /\ k[i - 1] = nth[j - 1]
    BY <2>2, <1>3
  <2>5. SubSeq(d, e[i - 1] + 1, e[i]) = SubSeq(list, ends[j - 1] + 1, ends[j])
    BY <2>2, <1>10
  <2>6. CASE queue[j].op = "write"
    <3>1. queue[j].n = ends[j] - ends[j - 1]
      <4>1. queue[j] \in Works
        BY <2>1
      <4>2. queue[j].n \in Nat
        BY <4>1, <2>6 DEF Works
      <4>3. ends[j] = ends[j - 1] + queue[j].n
        BY <2>3, <2>6
      <4>4. ends[j - 1] \in Nat
        BY <2>2, <1>3
      <4>5. \A x, y \in Nat : (x + y) - x = y
        OBVIOUS
      <4> QED
        BY <4>2, <4>3, <4>4, <4>5
    <3>2. e[i] = e[i - 1] + queue[j].n
      BY <3>1, <2>2, <1>3
    <3> QED
      BY <3>2, <2>1, <2>3, <2>4, <2>5, <2>6
  <2>7. CASE queue[j].op # "write"
    BY <2>1, <2>2, <2>3, <2>4, <2>7
  <2> QED
    BY <2>6, <2>7
<1>14. Accounts(q, d, owes, 1, all, e, k)
  BY <1>2, <1>9, <1>11, <1>12, <1>13 DEF Accounts, m
<1>15. owes # <<>>
  <2>1. Len(<<>>) = 0
    OBVIOUS
  <2> QED
    BY <2>1, <1>6 DEF m
<1> QED
  BY <1>6, <1>14, <1>15 DEF Ledger, q, d, a, l

(* A write that was delivered is owed no longer.                           *)
LEMMA WriteDelivered ==
  ASSUME NEW queue \in Seq(Works), NEW list \in Data, NEW owes \in Seq(Owed), NEW all,
         Ledger(queue, list, owes, 1, all)
  PROVE  owes # <<>> /\ Ledger(queue, list, Tail(owes), 0, all)
<1>1. PICK ends, nth : Accounts(queue, list, owes, 1, all, ends, nth)
  BY DEF Ledger
<1> DEFINE n == Len(queue)
           m == Len(owes)
           o == Tail(owes)
           k == [i \in 0 .. n |-> nth[i] - 1]
<1>2. n \in Nat /\ m \in Nat
  OBVIOUS
<1> HIDE DEF n, m
<1>3. nth \in [0 .. n -> 0 .. m] /\ nth[0] = 1 /\ nth[n] = m /\ Grows(nth, n)
  BY <1>1 DEF Accounts, n, m
<1>4. ASSUME NEW i \in 0 .. n PROVE nth[i] \in 1 .. m
  <2>1. 0 \in 0 .. n /\ 0 <= i
    BY <1>2
  <2>2. nth[0] <= nth[i] /\ nth[i] \in 0 .. m
    BY <2>1, <1>3 DEF Grows
  <2> QED
    BY <2>2, <1>2, <1>3
<1>5. m # 0 /\ owes # <<>>
  <2>1. nth[0] \in 1 .. m
    BY <1>2, <1>4
  <2>2. m # 0 /\ Len(<<>>) = 0
    BY <2>1, <1>2
  <2> QED
    BY <2>2 DEF m
<1>6. Len(o) = m - 1 /\ \A i \in 1 .. m - 1 : o[i] = owes[i + 1]
  BY <1>5, Shorter DEF m
<1> HIDE DEF o
<1>7. /\ k \in [0 .. n -> 0 .. m - 1] /\ k[0] = 0 /\ k[n] = m - 1
      /\ \A i \in 0 .. n : k[i] = nth[i] - 1
  <2>1. \A i \in 0 .. n : nth[i] - 1 \in 0 .. m - 1
    BY <1>2, <1>4
  <2> QED
    BY <2>1, <1>2, <1>3
<1> HIDE DEF k
<1>8. Grows(k, n)
  <2>1. SUFFICES ASSUME NEW i \in 0 .. n, NEW j \in 0 .. n, i <= j PROVE k[i] <= k[j]
    BY DEF Grows
  <2>2. nth[i] <= nth[j] /\ nth[i] \in 1 .. m /\ nth[j] \in 1 .. m
    BY <2>1, <1>3, <1>4 DEF Grows
  <2> QED
    BY <2>2, <1>7
<1>9. ASSUME NEW i \in 1 .. n
      PROVE  IF queue[i].op = "write"
             THEN k[i] = k[i - 1] + 1 /\ o[k[i]] = owes[nth[i]]
             ELSE k[i] = k[i - 1]
  <2>1. i \in 0 .. n /\ i - 1 \in 0 .. n
    BY <1>2
  <2>2. k[i] = nth[i] - 1 /\ k[i - 1] = nth[i - 1] - 1 /\ nth[i] \in 1 .. m /\ nth[i - 1] \in 1 .. m
    BY <2>1, <1>4, <1>7
  <2>3. IF queue[i].op = "write" THEN nth[i] = nth[i - 1] + 1 ELSE nth[i] = nth[i - 1]
    BY <1>1 DEF Accounts, n
  <2>4. queue[i].op = "write" => k[i] \in 1 .. m - 1 /\ k[i] + 1 = nth[i]
    BY <2>2, <2>3, <1>2
  <2> QED
    BY <2>2, <2>3, <2>4, <1>6
<1>10. Accounts(queue, list, o, 0, all, ends, k)
  BY <1>1, <1>3, <1>6, <1>7, <1>8, <1>9 DEF Accounts, n, m
<1> QED
  BY <1>5, <1>10 DEF Ledger, o

-----------------------------------------------------------------------------
(* The invariant.                                                          *)

Values == [handle : Handles, version : Versions]
ReadStates == [readyToSend : BOOLEAN, handle : Handles \cup {NoHandle},
               byteList : Values \cup {NoValue}]
WriteStates == [handle : Handles \cup {NoHandle}, byteList : Data, bufferExceeded : BOOLEAN,
                bytesAccumulated : Nat]
Readers == [op : {"read"}, handle : Handles, offset : Nat,
            from : SUBSET (Values \cup {NoValue}), pending : BOOLEAN, sound : BOOLEAN]
Writers == [op : {"write"}, handle : Handles, bytes : Data,
            mode : {"ACTIVE", "VALIDATE", "EXECUTE", "CANCEL"}]

(* Nothing is owed where the account was lost, and a client that is not    *)
(* connected waits for nothing.                                            *)
TypeInv ==
  /\ handles \in SUBSET Handles /\ connected_ \in BOOLEAN
  /\ readState_ \in ReadStates /\ writeState_ \in WriteStates
  /\ evmQueue \in Seq(Works)
  /\ evm \in {Idle} \cup [op : {"read"}] \cup [op : {"write"}, bytes : Data]
  /\ client \in {Idle} \cup Readers \cup Writers
  /\ writeId \in {0, 1} /\ owed \in Seq(Owed)
  /\ crashed \in BOOLEAN /\ outpaced \in BOOLEAN /\ recounted \in BOOLEAN
  /\ gaveUp \in BOOLEAN
  /\ outpaced \/ recounted => owed = <<>>
  /\ ~connected_ => client = Idle /\ ~canSend

(* Whatever work needs is among the characteristics while it is queued.    *)
Finds(work, read, notify, among) ==
  /\ work.op = "read" => read \in among
  /\ work.op = "notify" => notify \in among
  /\ work.op = "subscribe" => work.handle \in among
AllFind(queue, read, notify, among) ==
  \A i \in 1 .. Len(queue) : Finds(queue[i], read, notify, among)
OwedTo(owes, h) == \A i \in 1 .. Len(owes) : owes[i].handle \in {h, NoHandle}
MapInv ==
  /\ canSend => handle_ \in handles
  /\ AllFind(evmQueue, readState_.handle, handle_, handles)
  /\ evm.op = "read" => readState_.handle \in handles
  /\ client.op # "idle" => client.handle \in handles
  /\ connected_ \/ ~Quiet => writeState_.handle \in handles \cup {NoHandle}
  /\ OwedTo(owed, writeState_.handle)

(* The buffer has the bytes of the writes that wait, in their order, and   *)
(* after them those of a long write that has come so far.                  *)
Taken == IF evm.op = "write" THEN 1 ELSE 0
SoFar == IF client.op = "write" THEN client.bytes ELSE <<>>
Holds(pre, own) ==
  /\ writeState_.byteList = pre \o own
  /\ Ledger(evmQueue, pre, owed, Taken, TRUE)
  /\ connected_ => own = SoFar
WriteInv ==
  /\ \E pre \in Data, own \in Data : Holds(pre, own)
  /\ evm.op = "write" => owed[1].bytes = evm.bytes
  /\ client.op = "write" => writeState_.bytesAccumulated = Len(client.bytes)
  /\ client.op = "write" /\ client.mode \in {"VALIDATE", "EXECUTE"} =>
       writeState_.handle = client.handle

(* One read is asked for at a time, and what is ready to send is what the  *)
(* client reads, from where it has come to; there is nothing ready when    *)
(* nobody reads, unless somebody gave up.                                  *)
HasRead(queue) == \E i \in 1 .. Len(queue) : queue[i].op = "read"
OneRead(queue) ==
  \A i, j \in 1 .. Len(queue) : queue[i].op = "read" /\ queue[j].op = "read" => i = j
Asked == evm.op = "read" \/ HasRead(evmQueue)
Kept ==
  /\ client.from = {} => client.offset = 0
  /\ \A b \in client.from : b \in Values /\ b.handle = client.handle /\ client.offset <= SizeOf(b)
Goes == LET b == readState_.byteList IN
  b \in Values /\ b.handle = client.handle /\ client.from \subseteq {b}
ReadInv ==
  /\ OneRead(evmQueue) /\ (evm.op = "read" => ~HasRead(evmQueue))
  /\ connected_ /\ Asked =>
       client.op = "read" /\ client.pending /\ readState_.handle = client.handle
  /\ connected_ /\ client.op # "read" => ~readState_.readyToSend \/ gaveUp
  /\ client.op = "read" /\ client.sound => Kept
  /\ client.op = "read" /\ client.sound /\ ~client.pending /\ readState_.readyToSend => Goes

(* They hold until something goes wrong.                                   *)
Good == ~crashed /\ ~outpaced
Held ==
  /\ TypeInv /\ NoStrayAccess
  /\ Good => MapInv /\ ReadInv
  /\ Good /\ ~recounted => WriteInv

(* What a value, or none, has of bytes.                                    *)
LEMMA SizeIs ==
  ASSUME NEW b \in Values \cup {NoValue}
  PROVE  SizeOf(b) \in Nat /\ (b \in Values => SizeOf(b) = Length[b.version])
<1>1. b \in Values => b.handle \in Handles /\ b.version \in Versions
  BY DEF Values
<1>2. NoValue.handle \notin Handles
  BY BleGattAssumption DEF NoValue
<1>3. b \in Values => b # NoValue
  BY <1>1, <1>2
<1> QED
  BY <1>1, <1>3, BleGattAssumption DEF SizeOf

LEMMA ClientIs ==
  ASSUME TypeInv
  PROVE  /\ client.op \in {"idle", "read", "write"}
         /\ client.op = "read" => client \in Readers
         /\ client.op = "write" => client \in Writers
         /\ client.op = "idle" <=> client = Idle
         /\ client.op # "idle" => connected_
BY DEF TypeInv, Idle, Readers, Writers

LEMMA EvmIs ==
  ASSUME TypeInv
  PROVE  /\ evm.op \in {"idle", "read", "write"}
         /\ evm.op = "write" => evm.bytes \in Data
         /\ evm.op = "idle" <=> evm = Idle
BY DEF TypeInv, Idle

LEMMA BytesAre ==
  ASSUME TypeInv, NEW n \in Sizes
  PROVE  Bytes(n) \in Data /\ Len(Bytes(n)) = n /\ n \in Nat
<1>1. n \in Nat /\ writeId \in {0, 1}
  BY BleGattAssumption DEF TypeInv
<1>2. Bytes(n) \in [1 .. n -> {0, 1}]
  BY <1>1 DEF Bytes
<1>3. DOMAIN Bytes(n) = 1 .. n
  BY DEF Bytes
<1>4. Bytes(n) \in Seq({0, 1})
  BY <1>1, <1>2, IsASeq DEF Data
<1> QED
  BY <1>1, <1>3, <1>4 DEF Data

(* The writes that wait keep their bytes when their handle is lost.        *)
LEMMA RedirectedIs ==
  ASSUME owed \in Seq(Owed), NEW h
  PROVE  /\ Redirected(h) \in Seq(Owed) /\ Len(Redirected(h)) = Len(owed)
         /\ \A i \in 1 .. Len(owed) : Redirected(h)[i].bytes = owed[i].bytes
         /\ OwedTo(Redirected(h), h)
<1> DEFINE r == Redirected(h)
<1>1. Len(owed) \in Nat /\ DOMAIN owed = 1 .. Len(owed) /\ \A i \in 1 .. Len(owed) : owed[i] \in Owed
  BY LenProperties, ElementOfSeq
<1>2. \A i \in 1 .. Len(owed) :
        r[i] = IF owed[i].handle = h THEN owed[i] ELSE [owed[i] EXCEPT !.handle = NoHandle]
  BY <1>1 DEF Redirected
<1>3. r \in [1 .. Len(owed) -> Owed] /\ DOMAIN r = 1 .. Len(owed)
  <2>1. \A i \in 1 .. Len(owed) : r[i] \in Owed
    BY <1>1, <1>2 DEF Owed
  <2>2. r = [i \in 1 .. Len(owed) |-> r[i]]
    BY <1>1 DEF Redirected
  <2> HIDE DEF r
  <2> QED
    BY <2>1, <2>2
<1>4. r \in Seq(Owed) /\ Len(r) = Len(owed)
  BY <1>1, <1>3, IsASeq
<1>5. \A i \in 1 .. Len(owed) : r[i].bytes = owed[i].bytes /\ r[i].handle \in {h, NoHandle}
  BY <1>1, <1>2 DEF Owed
<1> HIDE DEF r
<1>6. OwedTo(r, h)
  BY <1>4, <1>5 DEF OwedTo
<1> QED
  BY <1>4, <1>5, <1>6 DEF r

-----------------------------------------------------------------------------
(* Types.                                                                  *)

LEMMA TypesInit == Init => TypeInv
<1> SUFFICES ASSUME Init PROVE TypeInv
  OBVIOUS
<1>1. handles \in SUBSET Handles
  BY BleGattAssumption DEF Init
<1>2. <<>> \in Data /\ evmQueue \in Seq(Works) /\ owed \in Seq(Owed)
  BY EmptySeq DEF Init, Data
<1>3. readState_ \in ReadStates /\ writeState_ \in WriteStates
  BY <1>2 DEF Init, ReadState, WriteState, ReadStates, WriteStates
<1> QED
  BY <1>1, <1>2, <1>3 DEF Init, TypeInv, Idle

LEMMA TypesQueue ==
  ASSUME TypeInv, NEW work \in Works, QueueWork(work)
  PROVE  evmQueue' \in Seq(Works) /\ outpaced' \in BOOLEAN
<1>1. evmQueue \in Seq(Works) /\ outpaced \in BOOLEAN
  BY DEF TypeInv
<1>2. CASE evmQueue' = Append(evmQueue, work) /\ outpaced' = outpaced
  BY <1>1, <1>2, Longer
<1>3. CASE outpaced' = TRUE /\ evmQueue' = evmQueue
  BY <1>1, <1>3
<1> QED
  BY <1>2, <1>3 DEF QueueWork

LEMMA TypesOwe ==
  ASSUME NEW writes \in Seq(Owed), Owe(writes)
  PROVE  owed' \in Seq(Owed) /\ (outpaced' \/ recounted' => owed' = <<>>)
BY EmptySeq DEF Owe

LEMMA TypesCommit ==
  ASSUME TypeInv, NEW w \in WriteStates, NEW debt \in Owed, Commit(w, debt)
  PROVE  /\ evmQueue' \in Seq(Works) /\ outpaced' \in BOOLEAN
         /\ owed' \in Seq(Owed) /\ (outpaced' \/ recounted' => owed' = <<>>)
<1>1. owed \in Seq(Owed) /\ Redirected(w.handle) \in Seq(Owed)
  BY RedirectedIs DEF TypeInv
<1>2. CASE w.handle \in handles
  <2>1. [op |-> "write", n |-> w.bytesAccumulated] \in Works
    BY DEF Works, WriteStates
  <2>2. Append(Redirected(w.handle), debt) \in Seq(Owed)
    BY <1>1, Longer
  <2> QED
    BY <1>2, <2>1, <2>2, TypesQueue, TypesOwe DEF Commit
<1>3. CASE w.handle \notin handles
  BY <1>1, <1>3, TypesOwe DEF Commit, TypeInv
<1> QED
  BY <1>2, <1>3

LEMMA TypesAttRead ==
  ASSUME TypeInv, AttRead
  PROVE  TypeInv'
<1>1. client \in Readers /\ client.op = "read" /\ connected_
  BY ClientIs DEF AttRead
<1>2. owed' \in Seq(Owed) /\ (outpaced' \/ recounted' => owed' = <<>>)
  BY TypesOwe DEF AttRead, TypeInv
<1>3. CASE ReadPending
  <2>1. evmQueue' \in Seq(Works) /\ outpaced' \in BOOLEAN
    <3>1. [op |-> "read"] \in Works
      BY DEF Works
    <3> QED
      BY <3>1, <1>3, TypesQueue DEF ReadPending, TypeInv
  <2>2. client' \in Readers /\ readState_' \in ReadStates
    BY <1>1, <1>3 DEF ReadPending, Readers, ReadStates, TypeInv
  <2> QED
    BY <1>1, <1>2, <1>3, <2>1, <2>2 DEF AttRead, ReadPending, TypeInv, writeVars, notifyVars
<1>4. CASE ReadSend
  <2> DEFINE b == readState_.byteList
             ends == ~Ends(client.offset)
  <2>1. b \in Values \cup {NoValue} /\ client.offset + Chunk \in Nat
    BY <1>1, BleGattAssumption DEF TypeInv, ReadStates, Readers
  <2>2. ends \in BOOLEAN
    BY DEF Ends
  <2>3. /\ readState_' = [readState_ EXCEPT !.readyToSend = ends]
        /\ client' = Idle \/ client' = [client EXCEPT !.offset = client.offset + Chunk,
                                                     !.from = client.from \cup {b}]
        /\ gaveUp' = (gaveUp /\ ends)
        /\ UNCHANGED <<evmQueue, outpaced>>
    BY <1>4 DEF ReadSend
  <2> HIDE DEF b, ends
  <2>4. readState_' \in ReadStates
    BY <2>2, <2>3 DEF TypeInv, ReadStates
  <2>5. client' = Idle \/ client' \in Readers
    <3> DEFINE f == client.from \cup {b}
               o == client.offset + Chunk
    <3>1. f \in SUBSET (Values \cup {NoValue}) /\ o \in Nat
      BY <1>1, <2>1 DEF Readers
    <3>2. client' = Idle \/ client' = [client EXCEPT !.offset = o, !.from = f]
      BY <2>3
    <3> HIDE DEF o, f
    <3> QED
      BY <1>1, <3>1, <3>2 DEF Readers
  <2>6. gaveUp' \in BOOLEAN
    BY <2>3
  <2> QED
    BY <1>1, <1>2, <2>3, <2>4, <2>5, <2>6 DEF AttRead, TypeInv, writeVars, notifyVars
<1> QED
  BY <1>3, <1>4 DEF AttRead

LEMMA TypesAttWrite ==
  ASSUME TypeInv, AttWrite
  PROVE  TypeInv'
<1>1. client \in Writers /\ connected_
  BY ClientIs DEF AttWrite
<1>2. writeState_ \in WriteStates /\ owed \in Seq(Owed)
  BY DEF TypeInv
<1>3. ASSUME NEW n \in Sizes, Active(n) PROVE TypeInv'
  <2>1. Bytes(n) \in Data /\ n \in Nat
    BY BytesAre
  <2>2. client.bytes \o Bytes(n) \in Data /\ writeState_.byteList \o Bytes(n) \in Data
    BY <1>1, <1>2, <2>1, ConcatProperties DEF Data, Writers, WriteStates
  <2>3. writeState_' \in WriteStates
    <3>1. CASE Fits(n)
      <4>1. writeState_' = [writeState_ EXCEPT !.handle = client.handle,
                              !.byteList = writeState_.byteList \o Bytes(n),
                              !.bytesAccumulated = writeState_.bytesAccumulated + n]
        BY <1>3, <3>1 DEF Active, StoreOn
      <4>2. client.handle \in Handles /\ writeState_.bytesAccumulated + n \in Nat
        BY <1>1, <1>2, <2>1 DEF Writers, WriteStates
      <4> QED
        BY <1>2, <2>2, <4>1, <4>2 DEF WriteStates
    <3>2. CASE ~Fits(n)
      BY <1>1, <1>2, <1>3, <3>2 DEF Active, WriteStates, Writers
    <3> QED
      BY <3>1, <3>2
  <2>4. client' \in Writers
    <3>1. CASE Fits(n)
      <4>1. PICK m \in {"ACTIVE", "VALIDATE"} :
               client' = [client EXCEPT !.bytes = @ \o Bytes(n), !.mode = m]
        BY <1>3, <3>1 DEF Active
      <4> QED
        BY <4>1, <1>1, <2>2 DEF Writers
    <3>2. CASE ~Fits(n)
      BY <1>1, <1>3, <3>2 DEF Active, Writers
    <3> QED
      BY <3>1, <3>2
  <2>5. owed' \in Seq(Owed) /\ (outpaced' \/ recounted' => owed' = <<>>)
    BY <1>2, <1>3, RedirectedIs, TypesOwe DEF Active
  <2> QED
    BY <1>1, <1>3, <2>3, <2>4, <2>5 DEF AttWrite, Active, TypeInv, readVars, notifyVars
<1>4. CASE Validate
  <2>1. client' \in Writers
    BY <1>1, <1>4 DEF Validate, Writers
  <2> QED
    BY <1>1, <1>4, <2>1 DEF AttWrite, Validate, TypeInv, readVars, notifyVars
<1>5. CASE Execute
  <2>1. [handle |-> client.handle, bytes |-> client.bytes] \in Owed
    BY <1>1 DEF Owed, Writers
  <2>2. /\ evmQueue' \in Seq(Works) /\ outpaced' \in BOOLEAN
        /\ owed' \in Seq(Owed) /\ (outpaced' \/ recounted' => owed' = <<>>)
    BY <1>2, <1>5, <2>1, TypesCommit DEF Execute
  <2> QED
    BY <1>1, <1>5, <2>2 DEF AttWrite, Execute, TypeInv, readVars, notifyVars
<1>6. CASE Cancel
  <2>1. writeState_' \in WriteStates /\ crashed' \in BOOLEAN
    <3>1. CASE writeState_.bytesAccumulated <= Len(writeState_.byteList)
      <4> DEFINE l == Len(writeState_.byteList)
                 k == l - writeState_.bytesAccumulated
      <4>1. l \in Nat /\ writeState_.bytesAccumulated \in Nat /\ writeState_.byteList \in Data
        BY <1>2, LenProperties DEF WriteStates, Data
      <4>2. k \in 0 .. l
        BY <3>1, <4>1
      <4>3. SubSeq(writeState_.byteList, 1, k) \in Data
        BY <4>1, <4>2, Part DEF Data
      <4>4. /\ writeState_' = [WriteState EXCEPT !.byteList = SubSeq(writeState_.byteList, 1, k)]
            /\ UNCHANGED crashed
        BY <1>6, <3>1, <4>1 DEF Cancel
      <4> HIDE DEF k
      <4> QED
        BY <4>3, <4>4 DEF WriteState, WriteStates, TypeInv
    <3>2. CASE writeState_.bytesAccumulated > Len(writeState_.byteList)
      BY <1>2, <1>6, <3>2 DEF Cancel
    <3> QED
      BY <1>2, <3>1, <3>2, LenProperties DEF WriteStates, Data
  <2>2. owed' \in Seq(Owed) /\ (outpaced' \/ recounted' => owed' = <<>>)
    BY <1>2, <1>6, RedirectedIs, TypesOwe DEF Cancel
  <2> QED
    BY <1>1, <1>6, <2>1, <2>2 DEF AttWrite, Cancel, TypeInv, readVars, notifyVars
<1> QED
  BY <1>3, <1>4, <1>5, <1>6 DEF AttWrite

LEMMA TypesWriteSingle ==
  ASSUME TypeInv, NEW h \in handles, NEW n \in Sizes, WriteSingle(h, n)
  PROVE  TypeInv'
<1>1. h \in Handles /\ writeState_ \in WriteStates /\ owed \in Seq(Owed) /\ connected_
  BY DEF TypeInv, WriteSingle
<1>2. Bytes(n) \in Data /\ n \in Nat
  BY BytesAre
<1>3. CASE Fits(n)
  <2>1. writeState_.byteList \o Bytes(n) \in Data
    BY <1>1, <1>2, ConcatProperties DEF Data, WriteStates
  <2>2. /\ writeState_' = StoreSingle(writeState_, h, n)
        /\ Commit(StoreSingle(writeState_, h, n), [handle |-> h, bytes |-> Bytes(n)])
        /\ writeId' = 1 - writeId
    BY <1>3 DEF WriteSingle
  <2>3. writeState_' \in WriteStates /\ StoreSingle(writeState_, h, n) \in WriteStates
    BY <1>1, <1>2, <2>1, <2>2 DEF StoreSingle, WriteStates
  <2>4. [handle |-> h, bytes |-> Bytes(n)] \in Owed
    BY <1>1, <1>2 DEF Owed
  <2>5. /\ evmQueue' \in Seq(Works) /\ outpaced' \in BOOLEAN
        /\ owed' \in Seq(Owed) /\ (outpaced' \/ recounted' => owed' = <<>>)
    BY <2>2, <2>3, <2>4, TypesCommit
  <2>6. writeId' \in {0, 1}
    BY <2>2 DEF TypeInv
  <2> QED
    BY <1>1, <2>3, <2>5, <2>6 DEF WriteSingle, TypeInv, readVars, notifyVars
<1>4. CASE ~Fits(n)
  <2>1. writeState_' \in WriteStates
    BY <1>1, <1>4 DEF WriteSingle, WriteStates
  <2>2. owed' \in Seq(Owed) /\ (outpaced' \/ recounted' => owed' = <<>>)
    BY <1>1, <1>4, RedirectedIs, TypesOwe DEF WriteSingle
  <2> QED
    BY <1>1, <1>4, <2>1, <2>2 DEF WriteSingle, TypeInv, readVars, notifyVars
<1> QED
  BY <1>3, <1>4

LEMMA TypesRunWork ==
  ASSUME TypeInv, RunWork
  PROVE  TypeInv'
<1> DEFINE work == Head(evmQueue)
<1>1. evmQueue # <<>> /\ evmQueue' = Tail(evmQueue) /\ evmQueue \in Seq(Works)
  BY DEF RunWork, TypeInv
<1>2. work \in Works /\ evmQueue' \in Seq(Works)
  BY <1>1, Shorter
<1>3. UNCHANGED <<handles, connected_, gaveUp, writeId, recounted, owed, canSend, outpaced, client>>
  BY DEF RunWork
<1>4. CASE work.op = "read"
  <2>1. RunRead
    BY <1>4 DEF RunWork
  <2>2. readState_' \in ReadStates
    BY <2>1 DEF RunRead, TypeInv, ReadStates
  <2> QED
    BY <2>1, <2>2, <1>2, <1>3 DEF RunRead, TypeInv
<1>5. CASE work.op = "write"
  <2>1. RunWrite(work.n) /\ work.n \in Nat /\ writeState_ \in WriteStates
    BY <1>2, <1>5 DEF RunWork, Works, TypeInv
  <2>2. CASE work.n > Len(writeState_.byteList)
    BY <2>1, <2>2, <1>2, <1>3 DEF RunWrite, TypeInv
  <2>3. CASE work.n <= Len(writeState_.byteList)
    <3> DEFINE n == work.n
               list == writeState_.byteList
    <3>1. list \in Seq({0, 1}) /\ Len(list) \in Nat
      BY <2>1 DEF WriteStates, Data
    <3> HIDE DEF work
    <3>2. n \in 0 .. Len(list) /\ n + 1 \in Nat \ {0} /\ Len(list) \in 0 .. Len(list)
      BY <2>1, <2>3, <3>1
    <3>3. SubSeq(list, 1, n) \in Data /\ SubSeq(list, n + 1, Len(list)) \in Data
      BY <3>1, <3>2, Part DEF Data
    <3>4. /\ evm' = [op |-> "write", bytes |-> SubSeq(list, 1, n)]
          /\ writeState_' = [writeState_ EXCEPT !.byteList = SubSeq(list, n + 1, Len(list))]
          /\ UNCHANGED <<readState_, crashed>>
      BY <2>1, <2>3, <3>1 DEF RunWrite
    <3>5. writeState_' \in WriteStates
      BY <2>1, <3>3, <3>4 DEF WriteStates
    <3> QED
      BY <2>1, <3>3, <3>4, <3>5, <1>2, <1>3 DEF TypeInv
  <2> QED
    BY <2>1, <2>2, <2>3, LenProperties DEF WriteStates, Data
<1>6. CASE work.op = "notify"
  <2>1. RunNotify
    BY <1>6 DEF RunWork
  <2>2. crashed' \in BOOLEAN
    BY <2>1 DEF RunNotify
  <2> QED
    BY <1>2, <1>3, <2>1, <2>2 DEF RunNotify, TypeInv
<1>7. CASE work.op = "subscribe"
  <2>1. RunSubscribe(work.handle)
    BY <1>7 DEF RunWork
  <2>2. crashed' \in BOOLEAN
    BY <2>1 DEF RunSubscribe
  <2> QED
    BY <1>2, <1>3, <2>1, <2>2 DEF RunSubscribe, TypeInv
<1> QED
  BY <1>2, <1>4, <1>5, <1>6, <1>7 DEF Works

LEMMA TypesFinishRead ==
  ASSUME TypeInv, NEW v \in Versions, FinishRead(v)
  PROVE  TypeInv'
<1> DEFINE b == [handle |-> readState_.handle, version |-> v]
<1>1. CASE readState_.handle \in handles
  <2>1. b \in Values
    BY <1>1 DEF Values, TypeInv
  <2>2. readState_' = [readState_ EXCEPT !.byteList = b] /\ Answered(b) /\ UNCHANGED crashed
    BY <1>1 DEF FinishRead
  <2> HIDE DEF b
  <2>3. readState_' \in ReadStates
    BY <2>1, <2>2 DEF ReadStates, TypeInv
  <2>4. client' = client \/ client' \in Readers
    <3>1. CASE client.op = "read"
      <4> DEFINE s == client.sound /\ client.from \subseteq {b}
      <4>1. client \in Readers /\ s \in BOOLEAN
        BY <3>1, ClientIs
      <4>2. client' = [client EXCEPT !.pending = FALSE, !.sound = s]
        BY <2>2, <3>1 DEF Answered
      <4> HIDE DEF s
      <4> QED
        BY <4>1, <4>2 DEF Readers
    <3> QED
      BY <2>2, <3>1 DEF Answered
  <2>5. client = Idle => client' = Idle
    BY <2>2, ClientIs DEF Answered, Idle
  <2> QED
    BY <2>2, <2>3, <2>4, <2>5 DEF FinishRead, TypeInv, writeVars, notifyVars
<1>2. CASE readState_.handle \notin handles
  BY <1>2 DEF FinishRead, TypeInv, writeVars, notifyVars
<1> QED
  BY <1>1, <1>2

LEMMA TypesNext == TypeInv /\ [Next]_vars => TypeInv'
<1> SUFFICES ASSUME TypeInv, [Next]_vars PROVE TypeInv'
  OBVIOUS
<1>1. CASE Connect
  <2>1. ReadState \in ReadStates /\ WriteState \in WriteStates
    BY EmptySeq DEF ReadState, WriteState, ReadStates, WriteStates, Data
  <2>2. owed' \in Seq(Owed) /\ (outpaced' \/ recounted' => owed' = <<>>)
    BY <1>1, TypesOwe DEF Connect, TypeInv
  <2>3. outpaced' \in BOOLEAN /\ recounted' \in BOOLEAN /\ gaveUp' \in BOOLEAN
    BY <1>1 DEF Connect
  <2> QED
    BY <1>1, <2>1, <2>2, <2>3 DEF Connect, OnConnect, TypeInv, notifyVars
<1>2. CASE OnDisconnect
  BY <1>2 DEF OnDisconnect, TypeInv, readVars, writeVars, evmVars
<1>3. CASE DoNotify
  <2>1. [op |-> "notify"] \in Works
    BY DEF Works
  <2>2. evmQueue' \in Seq(Works) /\ outpaced' \in BOOLEAN
    BY <1>3, <2>1, TypesQueue DEF DoNotify
  <2>3. owed' \in Seq(Owed) /\ (outpaced' \/ recounted' => owed' = <<>>)
    BY <1>3, TypesOwe DEF DoNotify, TypeInv
  <2> QED
    BY <1>3, <2>2, <2>3 DEF DoNotify, TypeInv, readVars, writeVars
<1>4. ASSUME NEW h \in handles, ReadRequest(h) PROVE TypeInv'
  <2> DEFINE s == ~gaveUp
  <2>1. h \in Handles /\ s \in BOOLEAN
    BY DEF TypeInv
  <2>2. client' = [op |-> "read", handle |-> h, offset |-> 0, from |-> {}, pending |-> FALSE,
                   sound |-> s] /\ connected_
    BY <1>4 DEF ReadRequest
  <2> HIDE DEF s
  <2>3. client' \in Readers
    BY <2>1, <2>2 DEF Readers
  <2> QED
    BY <1>4, <2>2, <2>3 DEF ReadRequest, TypeInv, readVars, writeVars, notifyVars, evmVars
<1>5. ASSUME NEW h \in handles, LongWrite(h) PROVE TypeInv'
  <2>1. h \in Handles /\ <<>> \in Data
    BY EmptySeq DEF TypeInv, Data
  <2>2. client' \in Writers /\ connected_
    BY <1>5, <2>1 DEF LongWrite, Writers
  <2>3. owed' \in Seq(Owed) /\ (outpaced' \/ recounted' => owed' = <<>>)
    BY <1>5, TypesOwe DEF LongWrite, TypeInv
  <2>4. recounted' \in BOOLEAN
    BY <1>5 DEF LongWrite
  <2> QED
    BY <1>5, <2>2, <2>3, <2>4 DEF LongWrite, TypeInv, readVars, notifyVars
<1>6. ASSUME NEW h \in Notified, WriteSubscription(h) PROVE TypeInv'
  <2>1. [op |-> "subscribe", handle |-> h] \in Works
    BY BleGattAssumption DEF Works
  <2>2. evmQueue' \in Seq(Works) /\ outpaced' \in BOOLEAN
    BY <1>6, <2>1, TypesQueue DEF WriteSubscription
  <2>3. owed' \in Seq(Owed) /\ (outpaced' \/ recounted' => owed' = <<>>)
    BY <1>6, TypesOwe DEF WriteSubscription, TypeInv
  <2> QED
    BY <1>6, <2>2, <2>3 DEF WriteSubscription, TypeInv, readVars, writeVars, notifyVars
<1>7. CASE GiveUp
  <2>1. gaveUp' \in BOOLEAN
    BY <1>7 DEF GiveUp
  <2> QED
    BY <1>7, <2>1 DEF GiveUp, TypeInv, writeVars, notifyVars, evmVars
<1>8. CASE FinishWrite
  <2>1. owed' \in Seq(Owed) /\ (owed = <<>> => owed' = <<>>)
    <3>1. owed = <<>> => owed' = <<>>
      BY <1>8 DEF FinishWrite
    <3>2. owed # <<>> => owed' = Tail(owed) \/ owed' = owed
      BY <1>8 DEF FinishWrite
    <3> QED
      BY <3>1, <3>2, Shorter, EmptySeq DEF TypeInv
  <2>2. evm' \in {Idle, evm} /\ crashed' \in BOOLEAN
    BY <1>8 DEF FinishWrite, TypeInv
  <2> QED
    BY <1>8, <2>1, <2>2 DEF FinishWrite, TypeInv, readVars, writeVars, notifyVars
<1>9. CASE Restart
  <2>1. handles' \in SUBSET Handles
    BY <1>9, BleGattAssumption DEF Restart
  <2>2. outpaced' \in BOOLEAN
    BY <1>9 DEF Restart
  <2>3. owed' \in Seq(Owed) /\ (outpaced' \/ recounted' => owed' = <<>>)
    BY <1>9, TypesOwe DEF Restart, TypeInv
  <2> QED
    BY <1>9, <2>1, <2>2, <2>3 DEF Restart, TypeInv, readVars, writeVars, notifyVars
<1>10. ASSUME NEW h \in Notified, TriggerNotify(h) PROVE TypeInv'
  <2>1. ~connected_ => ~canSend'
    BY <1>10 DEF TriggerNotify, TypeInv
  <2> QED
    BY <1>10, <2>1 DEF TriggerNotify, TypeInv, readVars, writeVars, evmVars
<1>11. CASE UNCHANGED vars
  BY <1>11 DEF vars, readVars, writeVars, notifyVars, evmVars, TypeInv
<1> QED
  BY <1>1, <1>2, <1>3, <1>4, <1>5, <1>6, <1>7, <1>8, <1>9, <1>10, <1>11,
     TypesAttRead, TypesAttWrite, TypesWriteSingle, TypesRunWork, TypesFinishRead
     DEF Next, Interrupt, EvmThread

-----------------------------------------------------------------------------
(* What goes wrong stays wrong, until a connection finds all work done.    *)

LEMMA StillGood ==
  ASSUME TypeInv, Next, Good'
  PROVE  /\ ~crashed /\ (Good \/ (Connect /\ Quiet))
         /\ ~recounted' => ~recounted \/ (Connect /\ Quiet)
<1>1. ~crashed /\ outpaced' = FALSE /\ outpaced \in BOOLEAN
  BY DEF Next, Good, TypeInv
<1>2. CASE Connect
  BY <1>1, <1>2 DEF Connect, Good
<1>3. CASE ~Connect
  <2>1. ~outpaced
    <3>1. ASSUME NEW work, QueueWork(work) PROVE ~outpaced
      BY <1>1, <3>1 DEF QueueWork
    <3>2. ASSUME NEW w, NEW debt, Commit(w, debt) PROVE ~outpaced
      BY <1>1, <3>1, <3>2 DEF Commit
    <3>3. CASE AttRead
      BY <1>1, <3>1, <3>3 DEF AttRead, ReadPending, ReadSend
    <3>4. CASE AttWrite
      BY <1>1, <3>2, <3>4 DEF AttWrite, Active, Validate, Execute, Cancel
    <3>5. ASSUME NEW h, NEW n, WriteSingle(h, n) PROVE ~outpaced
      BY <1>1, <3>2, <3>5 DEF WriteSingle
    <3> QED
      BY <1>1, <1>3, <3>1, <3>3, <3>4, <3>5
         DEF Next, Interrupt, EvmThread, OnDisconnect, GiveUp, DoNotify, ReadRequest, LongWrite,
             WriteSubscription, RunWork, FinishRead, FinishWrite, Restart, TriggerNotify, evmVars
  <2>2. recounted => recounted'
    BY <1>3
       DEF Next, Interrupt, EvmThread, OnDisconnect, GiveUp, AttRead, AttWrite, WriteSingle,
           DoNotify, ReadRequest, LongWrite, WriteSubscription, RunWork, FinishRead, FinishWrite,
           Restart, TriggerNotify, writeVars
  <2> QED
    BY <1>1, <2>1, <2>2 DEF Good
<1> QED
  BY <1>2, <1>3

(* What is queued when nothing goes wrong.                                 *)
LEMMA Queued ==
  ASSUME TypeInv, NEW work, QueueWork(work), ~outpaced'
  PROVE  evmQueue' = Append(evmQueue, work)
BY DEF QueueWork

LEMMA Owes ==
  ASSUME NEW writes, Owe(writes), ~outpaced', ~recounted'
  PROVE  owed' = writes
BY DEF Owe

-----------------------------------------------------------------------------
(* Nothing is looked for in vain.                                          *)

LEMMA AllFindMore ==
  ASSUME NEW queue \in Seq(Works), NEW work \in Works, NEW read, NEW notify, NEW among,
         AllFind(queue, read, notify, among), Finds(work, read, notify, among)
  PROVE  AllFind(Append(queue, work), read, notify, among)
<1> DEFINE q == Append(queue, work)
<1>1. /\ Len(q) = Len(queue) + 1 /\ q[Len(queue) + 1] = work /\ Len(queue) \in Nat
      /\ \A i \in 1 .. Len(queue) : q[i] = queue[i]
  BY Longer
<1> HIDE DEF q
<1>2. \A i \in 1 .. Len(q) : i \in 1 .. Len(queue) \/ i = Len(queue) + 1
  BY <1>1
<1>3. \A i \in 1 .. Len(q) : Finds(q[i], read, notify, among)
  BY <1>1, <1>2 DEF AllFind
<1> QED
  BY <1>3 DEF AllFind, q

LEMMA AllFindRest ==
  ASSUME NEW queue \in Seq(Works), queue # <<>>, NEW read, NEW notify, NEW among,
         AllFind(queue, read, notify, among)
  PROVE  /\ AllFind(Tail(queue), read, notify, among)
         /\ Finds(Head(queue), read, notify, among)
<1> DEFINE q == Tail(queue)
<1>1. /\ Len(q) = Len(queue) - 1 /\ Len(queue) \in Nat \ {0} /\ Head(queue) = queue[1]
      /\ \A i \in 1 .. Len(queue) - 1 : q[i] = queue[i + 1]
  BY Shorter
<1> HIDE DEF q
<1>2. \A i \in 1 .. Len(q) : i + 1 \in 1 .. Len(queue) /\ q[i] = queue[i + 1]
  BY <1>1
<1>3. \A i \in 1 .. Len(q) : Finds(q[i], read, notify, among)
  BY <1>2 DEF AllFind
<1>4. 1 \in 1 .. Len(queue)
  BY <1>1
<1> QED
  BY <1>1, <1>3, <1>4 DEF AllFind, q

LEMMA EmptyFinds ==
  ASSUME NEW read, NEW notify, NEW among
  PROVE  AllFind(<<>>, read, notify, among) /\ OwedTo(<<>>, read)
<1>1. Len(<<>>) = 0
  OBVIOUS
<1> QED
  BY <1>1 DEF AllFind, OwedTo

LEMMA OwedToMore ==
  ASSUME NEW owes \in Seq(Owed), NEW debt \in Owed, NEW h, OwedTo(owes, h), debt.handle = h
  PROVE  OwedTo(Append(owes, debt), h)
<1> DEFINE o == Append(owes, debt)
<1>1. /\ Len(o) = Len(owes) + 1 /\ o[Len(owes) + 1] = debt /\ Len(owes) \in Nat
      /\ \A i \in 1 .. Len(owes) : o[i] = owes[i]
  BY Longer
<1> HIDE DEF o
<1>2. \A i \in 1 .. Len(o) : i \in 1 .. Len(owes) \/ i = Len(owes) + 1
  BY <1>1
<1>3. \A i \in 1 .. Len(o) : o[i].handle \in {h, NoHandle}
  BY <1>1, <1>2 DEF OwedTo
<1> QED
  BY <1>3 DEF OwedTo, o

LEMMA OwedToRest ==
  ASSUME NEW owes \in Seq(Owed), owes # <<>>, NEW h, OwedTo(owes, h)
  PROVE  /\ OwedTo(Tail(owes), h)
         /\ owes[1].handle \in {h, NoHandle} /\ Head(owes) = owes[1]
<1> DEFINE o == Tail(owes)
<1>1. /\ Len(o) = Len(owes) - 1 /\ Len(owes) \in Nat \ {0} /\ Head(owes) = owes[1]
      /\ \A i \in 1 .. Len(owes) - 1 : o[i] = owes[i + 1]
  BY Shorter
<1> HIDE DEF o
<1>2. \A i \in 1 .. Len(o) : i + 1 \in 1 .. Len(owes) /\ o[i] = owes[i + 1]
  BY <1>1
<1>3. \A i \in 1 .. Len(o) : o[i].handle \in {h, NoHandle}
  BY <1>2 DEF OwedTo
<1>4. 1 \in 1 .. Len(owes)
  BY <1>1
<1> QED
  BY <1>1, <1>3, <1>4 DEF OwedTo, o

(* Debts after a write to h, whether or not the account was lost.          *)
LEMMA OwedToWrites ==
  ASSUME owed \in Seq(Owed), NEW h, Owe(Redirected(h))
  PROVE  OwedTo(owed', h)
BY RedirectedIs, EmptyFinds DEF Owe

LEMMA OwedToCommit ==
  ASSUME owed \in Seq(Owed), NEW w \in WriteStates, NEW debt \in Owed, Commit(w, debt),
         debt.handle = w.handle
  PROVE  OwedTo(owed', w.handle)
<1>1. /\ Redirected(w.handle) \in Seq(Owed) /\ OwedTo(Redirected(w.handle), w.handle)
      /\ OwedTo(<<>>, w.handle)
  BY RedirectedIs, EmptyFinds
<1>2. OwedTo(Append(Redirected(w.handle), debt), w.handle)
  BY <1>1, OwedToMore
<1> QED
  BY <1>1, <1>2 DEF Commit, Owe

LEMMA OwedToStays ==
  ASSUME NEW h, OwedTo(owed, h), Owe(owed)
  PROVE  OwedTo(owed', h)
BY EmptyFinds DEF Owe

LEMMA MapMore ==
  ASSUME TypeInv, NEW work \in Works, QueueWork(work), ~outpaced', NEW read,
         AllFind(evmQueue, read, handle_, handles), Finds(work, read, handle_, handles)
  PROVE  AllFind(evmQueue', read, handle_, handles)
<1>1. evmQueue \in Seq(Works) /\ evmQueue' = Append(evmQueue, work)
  BY Queued DEF TypeInv
<1> QED
  BY <1>1, AllFindMore

LEMMA MapAttRead ==
  ASSUME TypeInv, MapInv, AttRead, ~outpaced'
  PROVE  MapInv'
<1>1. client \in Readers /\ client.op = "read" /\ client.handle \in handles /\ connected_
  BY ClientIs DEF AttRead, MapInv
<1>2. OwedTo(owed', writeState_.handle)
  BY OwedToStays DEF AttRead, MapInv
<1>3. CASE ReadPending
  <2>1. /\ readState_' = [readState_ EXCEPT !.handle = client.handle]
        /\ client' = [client EXCEPT !.pending = TRUE]
        /\ QueueWork([op |-> "read"])
        /\ UNCHANGED <<handles, connected_, writeVars, notifyVars, evm>>
    BY <1>1, <1>3 DEF ReadPending, AttRead
  <2>2. readState_'.handle = client.handle /\ client'.op = "read" /\ client'.handle = client.handle
    BY <1>1, <2>1 DEF TypeInv, ReadStates, Readers
  <2>3. /\ AllFind(evmQueue, readState_'.handle, handle_, handles)
        /\ [op |-> "read"] \in Works
        /\ Finds([op |-> "read"], readState_'.handle, handle_, handles)
    BY <1>1, <2>2 DEF MapInv, AllFind, Finds, Works
  <2>4. AllFind(evmQueue', readState_'.handle, handle_, handles)
    BY <2>1, <2>3, MapMore
  <2> QED
    BY <1>1, <1>2, <2>1, <2>2, <2>4 DEF MapInv, writeVars, notifyVars
<1>4. CASE ReadSend
  <2>1. /\ readState_' = [readState_ EXCEPT !.readyToSend = ~Ends(client.offset)]
        /\ \/ client' = Idle
           \/ client' = [client EXCEPT !.offset = client.offset + Chunk,
                                       !.from = client.from \cup {readState_.byteList}]
        /\ UNCHANGED <<handles, connected_, writeVars, notifyVars, evm, evmQueue>>
    BY <1>4 DEF ReadSend, AttRead
  <2>2. readState_'.handle = readState_.handle
    BY <2>1 DEF TypeInv, ReadStates
  <2>3. client'.op # "idle" => client'.handle = client.handle
    <3> DEFINE o == client.offset + Chunk
               f == client.from \cup {readState_.byteList}
    <3>1. client' = Idle \/ client' = [client EXCEPT !.offset = o, !.from = f]
      BY <2>1
    <3> HIDE DEF o, f
    <3>2. CASE client' = Idle
      BY <3>2 DEF Idle
    <3>3. CASE client' = [client EXCEPT !.offset = o, !.from = f]
      BY <1>1, <3>3 DEF Readers
    <3> QED
      BY <3>1, <3>2, <3>3
  <2> QED
    BY <1>1, <1>2, <2>1, <2>2, <2>3 DEF MapInv, writeVars, notifyVars
<1> QED
  BY <1>3, <1>4 DEF AttRead

LEMMA MapAttWrite ==
  ASSUME TypeInv, MapInv, WriteInv \/ recounted, AttWrite, ~outpaced'
  PROVE  MapInv'
<1>1. /\ client \in Writers /\ client.op = "write" /\ client.handle \in handles /\ connected_
      /\ owed \in Seq(Owed) /\ writeState_ \in WriteStates
  BY ClientIs DEF AttWrite, MapInv, TypeInv
<1>2. UNCHANGED <<handles, connected_, readState_, notifyVars, evm, recounted>>
  BY DEF AttWrite, readVars
<1>3. ASSUME NEW n \in Sizes, Active(n) PROVE MapInv'
  <2>1. client'.handle = client.handle /\ evmQueue' = evmQueue
    BY <1>1, <1>3 DEF Active, Writers
  <2>2. writeState_'.handle = client.handle
    BY <1>1, <1>3 DEF Active, StoreOn, WriteStates
  <2>3. OwedTo(owed', client.handle)
    BY <1>1, <1>3, OwedToWrites DEF Active
  <2> QED
    BY <1>1, <1>2, <2>1, <2>2, <2>3 DEF MapInv, notifyVars
<1>4. CASE Validate
  <2>1. client'.handle = client.handle
    BY <1>1, <1>4 DEF Validate, Writers
  <2> QED
    BY <1>1, <1>2, <1>4, <2>1 DEF MapInv, Validate, notifyVars
<1>5. CASE Execute
  <2> DEFINE debt == [handle |-> client.handle, bytes |-> client.bytes]
             work == [op |-> "write", n |-> writeState_.bytesAccumulated]
  <2>1. debt \in Owed /\ debt.handle = client.handle /\ work \in Works
        /\ Finds(work, readState_.handle, handle_, handles)
    BY <1>1 DEF Owed, Writers, Works, WriteStates, Finds
  <2>2. Commit(writeState_, debt) /\ writeState_' = writeState_ /\ client' = Idle
    BY <1>5 DEF Execute
  <2> HIDE DEF debt
  <2>3. AllFind(evmQueue', readState_.handle, handle_, handles)
    BY <2>1, <2>2, MapMore DEF MapInv, Commit
  <2>4. OwedTo(owed', writeState_.handle)
    <3>1. CASE recounted
      <4>1. owed' = <<>>
        BY <1>2, <2>2, <3>1 DEF Commit, Owe
      <4> QED
        BY <4>1, EmptyFinds
    <3>2. CASE WriteInv
      <4>1. debt.handle = writeState_.handle
        BY <1>1, <1>5, <2>1, <3>2 DEF WriteInv, Execute
      <4> QED
        BY <1>1, <2>1, <2>2, <4>1, OwedToCommit
    <3> QED
      BY <3>1, <3>2
  <2> QED
    BY <1>1, <1>2, <2>2, <2>3, <2>4 DEF MapInv, Idle, notifyVars
<1>6. CASE Cancel
  <2>1. client' = Idle /\ evmQueue' = evmQueue
    BY <1>6 DEF Cancel
  <2>2. CASE writeState_' = writeState_
    <3>1. OwedTo(owed', writeState_.handle)
      <4>1. OwedTo(owed', NoHandle)
        BY <1>1, <1>6, OwedToWrites DEF Cancel
      <4> QED
        BY <4>1 DEF OwedTo
    <3> QED
      BY <1>1, <1>2, <2>1, <2>2, <3>1 DEF MapInv, Idle, notifyVars
  <2>3. CASE writeState_'.handle = NoHandle
    <3>1. OwedTo(owed', NoHandle)
      BY <1>1, <1>6, OwedToWrites DEF Cancel
    <3> QED
      BY <1>2, <2>1, <2>3, <3>1 DEF MapInv, Idle, notifyVars
  <2> QED
    BY <1>6, <2>2, <2>3 DEF Cancel, WriteState
<1> QED
  BY <1>3, <1>4, <1>5, <1>6 DEF AttWrite

LEMMA MapWriteSingle ==
  ASSUME TypeInv, MapInv, NEW h \in handles, NEW n \in Sizes, WriteSingle(h, n), ~outpaced'
  PROVE  MapInv'
<1>1. h \in Handles /\ writeState_ \in WriteStates /\ owed \in Seq(Owed) /\ connected_
  BY DEF TypeInv, WriteSingle
<1>2. Bytes(n) \in Data /\ n \in Nat
  BY BytesAre
<1>3. UNCHANGED <<handles, readState_, notifyVars, evm, client>>
  BY DEF WriteSingle, readVars
<1>4. CASE Fits(n)
  <2> DEFINE w == StoreSingle(writeState_, h, n)
             debt == [handle |-> h, bytes |-> Bytes(n)]
             work == [op |-> "write", n |-> n]
  <2>1. writeState_.byteList \o Bytes(n) \in Data
    BY <1>1, <1>2, ConcatProperties DEF Data, WriteStates
  <2>2. w \in WriteStates /\ w.handle = h /\ w.bytesAccumulated = n
    BY <1>1, <1>2, <2>1 DEF StoreSingle, WriteStates
  <2>3. writeState_' = w /\ Commit(w, debt)
    BY <1>4 DEF WriteSingle
  <2>4. debt \in Owed /\ debt.handle = h
    BY <1>1, <1>2 DEF Owed
  <2>5. work \in Works /\ Finds(work, readState_.handle, handle_, handles)
    BY <1>2 DEF Works, Finds
  <2> HIDE DEF w, debt
  <2>6. QueueWork(work)
    BY <2>2, <2>3 DEF Commit
  <2>7. AllFind(evmQueue', readState_.handle, handle_, handles)
    BY <2>5, <2>6, MapMore DEF MapInv
  <2>8. OwedTo(owed', h)
    BY <1>1, <2>2, <2>3, <2>4, OwedToCommit
  <2> QED
    BY <1>3, <2>2, <2>3, <2>7, <2>8 DEF MapInv, notifyVars
<1>5. CASE ~Fits(n)
  <2>1. writeState_'.handle = h /\ evmQueue' = evmQueue
    BY <1>1, <1>5 DEF WriteSingle, WriteStates
  <2>2. OwedTo(owed', h)
    BY <1>1, <1>5, OwedToWrites DEF WriteSingle
  <2> QED
    BY <1>3, <2>1, <2>2 DEF MapInv, notifyVars
<1> QED
  BY <1>4, <1>5

LEMMA MapRunWork ==
  ASSUME TypeInv, MapInv, RunWork
  PROVE  MapInv'
<1> DEFINE work == Head(evmQueue)
<1>1. evmQueue # <<>> /\ evmQueue' = Tail(evmQueue) /\ evmQueue \in Seq(Works) /\ evm = Idle
  BY DEF RunWork, TypeInv
<1>2. /\ work \in Works /\ AllFind(evmQueue', readState_.handle, handle_, handles)
      /\ Finds(work, readState_.handle, handle_, handles)
  BY <1>1, Shorter, AllFindRest DEF MapInv
<1>3. UNCHANGED <<handles, connected_, owed, handle_, canSend, client>> /\ ~Quiet
  BY <1>1 DEF RunWork, Quiet
<1>4. CASE work.op = "read"
  <2>1. /\ readState_' = [readState_ EXCEPT !.readyToSend = TRUE, !.byteList = NoValue]
        /\ writeState_' = writeState_
    BY <1>4 DEF RunWork, RunRead
  <2>2. readState_'.handle = readState_.handle /\ readState_.handle \in handles
    BY <1>2, <1>4, <2>1 DEF TypeInv, ReadStates, Finds
  <2> QED
    BY <1>2, <1>3, <2>1, <2>2 DEF MapInv
<1>5. CASE work.op = "write"
  <2>1. RunWrite(work.n)
    BY <1>5 DEF RunWork
  <2>2. writeState_'.handle = writeState_.handle /\ readState_' = readState_ /\ evm'.op # "read"
    BY <1>1, <2>1 DEF RunWrite, TypeInv, WriteStates, Idle
  <2> QED
    BY <1>2, <1>3, <2>2 DEF MapInv
<1>6. CASE work.op \in {"notify", "subscribe"}
  <2>1. UNCHANGED <<readState_, writeState_, evm>>
    BY <1>6 DEF RunWork, RunNotify, RunSubscribe
  <2> QED
    BY <1>2, <1>3, <2>1 DEF MapInv
<1> QED
  BY <1>2, <1>4, <1>5, <1>6 DEF Works

LEMMA QuietOwesNothing ==
  ASSUME TypeInv, WriteInv, Quiet
  PROVE  owed = <<>>
<1>1. PICK pre \in Data, own \in Data : Holds(pre, own)
  BY DEF WriteInv
<1>2. PICK ends, nth : Accounts(<<>>, pre, owed, 0, TRUE, ends, nth)
  BY <1>1 DEF Holds, Quiet, Ledger, Taken, Idle
<1>3. Len(<<>>) = 0
  OBVIOUS
<1>4. Len(owed) = 0 /\ owed \in Seq(Owed)
  BY <1>2, <1>3 DEF Accounts, TypeInv
<1> QED
  BY <1>4, EmptySeq

(* All is well again when a connection finds all work done.                *)
LEMMA Afresh ==
  ASSUME Held, Connect, Quiet, ~crashed
  PROVE  /\ evmQueue' = <<>> /\ evm' = Idle /\ client' = Idle /\ ~canSend' /\ owed' = <<>>
         /\ connected_' = TRUE /\ readState_' = ReadState /\ writeState_' = WriteState
<1>1. owed = <<>>
  BY QuietOwesNothing DEF Held, TypeInv, Good
<1>2. owed' = <<>>
  BY <1>1 DEF Connect, Owe
<1> QED
  BY <1>2 DEF Held, TypeInv, Connect, OnConnect, Quiet, notifyVars

LEMMA MapNext == Held /\ [Next]_vars /\ Good' => MapInv'
<1> SUFFICES ASSUME Held, [Next]_vars, Good' PROVE MapInv'
  OBVIOUS
<1>1. TypeInv /\ ~outpaced'
  BY DEF Held, Good
<1>2. CASE UNCHANGED vars
  <2>1. MapInv
    BY <1>2 DEF Held, Good, vars, evmVars
  <2> QED
    BY <1>2, <2>1 DEF vars, readVars, writeVars, notifyVars, evmVars, MapInv, Quiet
<1>3. CASE Next /\ Connect /\ Quiet
  <2>1. ~crashed
    BY <1>3 DEF Next
  <2>2. /\ AllFind(<<>>, NoHandle, handle_, handles)' /\ OwedTo(<<>>, NoHandle)
    BY EmptyFinds
  <2> QED
    BY <1>3, <2>1, <2>2, Afresh DEF MapInv, Idle, ReadState, WriteState
<1>4. CASE Next /\ ~(Connect /\ Quiet)
  <2>1. Good /\ MapInv /\ (WriteInv \/ recounted)
    BY <1>1, <1>4, StillGood DEF Held
  <2>2. ~Connect
    BY <1>1, <1>4 DEF Connect
  <2>3. CASE OnDisconnect
    BY <2>1, <2>3 DEF OnDisconnect, MapInv, readVars, writeVars, evmVars, Idle, Quiet
  <2>4. CASE DoNotify
    <3>1. [op |-> "notify"] \in Works /\ Finds([op |-> "notify"], readState_.handle, handle_, handles)
      BY <2>1, <2>4 DEF Works, Finds, DoNotify, MapInv
    <3>2. AllFind(evmQueue', readState_.handle, handle_, handles)
      BY <1>1, <2>1, <2>4, <3>1, MapMore DEF DoNotify, MapInv
    <3>3. OwedTo(owed', writeState_.handle)
      BY <2>1, <2>4, OwedToStays DEF DoNotify, MapInv
    <3>4. connected_
      BY <1>1, <2>4 DEF DoNotify, TypeInv
    <3> QED
      BY <2>1, <2>4, <3>2, <3>3, <3>4 DEF DoNotify, MapInv, readVars, writeVars
  <2>5. ASSUME NEW h \in handles, ReadRequest(h) PROVE MapInv'
    <3>1. client'.handle = h
      BY <2>5 DEF ReadRequest
    <3> QED
      BY <2>1, <2>5, <3>1 DEF ReadRequest, MapInv, readVars, writeVars, notifyVars, evmVars
  <2>6. ASSUME NEW h \in handles, LongWrite(h) PROVE MapInv'
    <3>1. client'.handle = h
      BY <2>6 DEF LongWrite
    <3>2. OwedTo(owed', writeState_.handle)
      BY <2>1, <2>6, OwedToStays DEF LongWrite, MapInv
    <3> QED
      BY <2>1, <2>6, <3>1, <3>2 DEF LongWrite, MapInv, readVars, notifyVars
  <2>7. ASSUME NEW h \in Notified, WriteSubscription(h) PROVE MapInv'
    <3> DEFINE work == [op |-> "subscribe", handle |-> h]
    <3>1. work \in Works /\ Finds(work, readState_.handle, handle_, handles)
      BY <2>7, BleGattAssumption DEF Works, Finds, WriteSubscription
    <3>2. AllFind(evmQueue', readState_.handle, handle_, handles)
      BY <1>1, <2>1, <2>7, <3>1, MapMore DEF WriteSubscription, MapInv
    <3>3. OwedTo(owed', writeState_.handle)
      BY <2>1, <2>7, OwedToStays DEF WriteSubscription, MapInv
    <3> QED
      BY <2>1, <2>7, <3>2, <3>3 DEF WriteSubscription, MapInv, readVars, writeVars, notifyVars
  <2>8. CASE GiveUp
    BY <1>1, <2>1, <2>8, ClientIs DEF GiveUp, MapInv, writeVars, notifyVars, evmVars, Idle
  <2>9. ASSUME NEW v \in Versions, FinishRead(v) PROVE MapInv'
    <3> DEFINE b == [handle |-> readState_.handle, version |-> v]
    <3>1. readState_' = [readState_ EXCEPT !.byteList = b] /\ Answered(b)
      BY <2>1, <2>9 DEF FinishRead, MapInv
    <3>2. readState_'.handle = readState_.handle
      BY <1>1, <3>1 DEF TypeInv, ReadStates
    <3>3. client'.op = client.op /\ (client.op # "idle" => client'.handle = client.handle)
      BY <1>1, <3>1, ClientIs DEF Answered, Readers
    <3> QED
      BY <2>1, <2>9, <3>2, <3>3 DEF FinishRead, MapInv, writeVars, notifyVars, Idle, Quiet
  <2>10. CASE FinishWrite
    <3>1. OwedTo(owed', writeState_.handle)
      <4>1. owed' = owed \/ (owed' = Tail(owed) /\ owed # <<>>)
        BY <2>10 DEF FinishWrite
      <4> QED
        BY <1>1, <2>1, <4>1, OwedToRest DEF MapInv, TypeInv
    <3>2. evm'.op # "read"
      BY <2>10 DEF FinishWrite, Idle
    <3> QED
      BY <2>1, <2>10, <3>1, <3>2 DEF FinishWrite, MapInv, readVars, writeVars, notifyVars, Quiet,
                                           Idle
  <2>11. CASE Restart
    <3>1. Quiet /\ ~connected_ /\ client = Idle /\ ~canSend /\ owed' = <<>>
      <4>1. Quiet /\ ~connected_
        BY <1>1, <2>11 DEF Restart
      <4>2. owed = <<>>
        BY <1>1, <2>1, <4>1, QuietOwesNothing DEF TypeInv
      <4> QED
        BY <1>1, <2>11, <4>1, <4>2 DEF TypeInv, Restart, Owe
    <3>2. AllFind(<<>>, readState_.handle, handle_, handles') /\ OwedTo(<<>>, writeState_.handle)
      BY EmptyFinds
    <3>3. UNCHANGED <<readState_, writeState_, handle_, canSend, evmQueue, evm, client>>
      BY <2>11 DEF Restart, readVars, writeVars, notifyVars
    <3>4. ~connected_' /\ Quiet'
      BY <2>11, <3>1, <3>3 DEF Restart, Quiet
    <3> QED
      BY <3>1, <3>2, <3>3, <3>4 DEF MapInv, Quiet, Idle
  <2>12. ASSUME NEW h \in Notified, TriggerNotify(h) PROVE MapInv'
    <3>1. h \in handles /\ handle_' = h
      BY <2>12 DEF TriggerNotify
    <3>2. AllFind(evmQueue, readState_.handle, h, handles)
      BY <2>1, <3>1 DEF MapInv, AllFind, Finds
    <3>3. canSend' => connected_ \/ canSend
      BY <2>12 DEF TriggerNotify
    <3> QED
      BY <2>1, <2>12, <3>1, <3>2 DEF TriggerNotify, MapInv, readVars, writeVars, evmVars, Quiet
  <2> QED
    BY <1>1, <1>4, <2>1, <2>2, <2>3, <2>4, <2>5, <2>6, <2>7, <2>8, <2>9, <2>10, <2>11, <2>12,
       MapAttRead, MapAttWrite, MapWriteSingle, MapRunWork
       DEF Next, Interrupt, EvmThread
<1> QED
  BY <1>2, <1>3, <1>4

-----------------------------------------------------------------------------
(* Writes.                                                                 *)

LEMMA LedgerEmpty == Ledger(<<>>, <<>>, <<>>, 0, TRUE)
<1> DEFINE zero == [i \in 0 .. 0 |-> 0]
<1>1. zero \in [0 .. 0 -> 0 .. 0] /\ zero[0] = 0 /\ Grows(zero, 0)
  BY DEF Grows
<1>2. Len(<<>>) = 0
  OBVIOUS
<1> HIDE DEF zero
<1>3. Accounts(<<>>, <<>>, <<>>, 0, TRUE, zero, zero)
  BY <1>1, <1>2 DEF Accounts
<1> QED
  BY <1>3 DEF Ledger

(* The ledger is of bytes alone.                                           *)
LEMMA LedgerOfBytes ==
  ASSUME NEW queue \in Seq(Works), NEW list \in Data, NEW owes \in Seq(Owed), NEW taken,
         Ledger(queue, list, owes, taken, TRUE), NEW others \in Seq(Owed),
         Len(others) = Len(owes), \A i \in 1 .. Len(owes) : others[i].bytes = owes[i].bytes
  PROVE  Ledger(queue, list, others, taken, TRUE)
<1>1. PICK ends, nth : Accounts(queue, list, owes, taken, TRUE, ends, nth)
  BY DEF Ledger
<1>2. Len(queue) \in Nat /\ Len(owes) \in Nat
  BY LenProperties
<1>3. ASSUME NEW i \in 1 .. Len(queue), queue[i].op = "write"
      PROVE  others[nth[i]].bytes = owes[nth[i]].bytes
  <2>1. i \in 0 .. Len(queue) /\ i - 1 \in 0 .. Len(queue)
    BY <1>2
  <2>2. nth[i] \in 0 .. Len(owes) /\ nth[i - 1] \in 0 .. Len(owes)
    BY <2>1, <1>1 DEF Accounts
  <2>3. nth[i] = nth[i - 1] + 1
    BY <1>1, <1>3 DEF Accounts
  <2>4. nth[i] \in 1 .. Len(owes)
    BY <1>2, <2>2, <2>3
  <2> QED
    BY <2>4
<1>4. Accounts(queue, list, others, taken, TRUE, ends, nth)
  BY <1>1, <1>3 DEF Accounts
<1> QED
  BY <1>4 DEF Ledger

(* What it takes for the invariant to hold after a step.                   *)
LEMMA WriteHolds ==
  ASSUME NEW pre \in Data, NEW own \in Data,
         writeState_'.byteList = pre \o own, Ledger(evmQueue', pre, owed', Taken', TRUE),
         connected_' => own = SoFar',
         evm'.op = "write" => owed'[1].bytes = evm'.bytes,
         client'.op = "write" => writeState_'.bytesAccumulated = Len(client'.bytes),
         client'.op = "write" /\ client'.mode \in {"VALIDATE", "EXECUTE"} =>
           writeState_'.handle = client'.handle
  PROVE  WriteInv'
<1>1. Holds(pre, own)'
  BY DEF Holds
<1> QED
  BY <1>1 DEF WriteInv

LEMMA LongerBy ==
  ASSUME NEW list \in Data, NEW bytes \in Data
  PROVE  list \o bytes \in Data /\ Len(list \o bytes) = Len(list) + Len(bytes)
         /\ Len(list) \in Nat /\ Len(bytes) \in Nat
BY ConcatProperties, LenProperties DEF Data

LEMMA InParts ==
  ASSUME NEW pre \in Data, NEW list \in Data, NEW bytes \in Data
  PROVE  (pre \o list) \o bytes = pre \o (list \o bytes)
BY DEF Data

LEMMA NoMore ==
  ASSUME NEW list \in Data
  PROVE  list \o <<>> = list /\ <<>> \in Data
BY ConcatEmptySeq, EmptySeq DEF Data

(* Steps that neither write nor deliver.                                   *)
LEMMA WriteStays ==
  ASSUME WriteInv, UNCHANGED <<writeState_, owed>>,
         Taken' = Taken, evm'.op = "write" => evm' = evm,
         \A pre \in Data : Ledger(evmQueue, pre, owed, Taken, TRUE) =>
                           Ledger(evmQueue', pre, owed, Taken, TRUE),
         connected_' => connected_ /\ SoFar' = SoFar,
         client'.op = "write" =>
           \/ client' = client
           \/ client'.mode = "ACTIVE" /\ client'.bytes = <<>> /\ writeState_.bytesAccumulated = 0
  PROVE  WriteInv'
<1>1. PICK pre \in Data, own \in Data : Holds(pre, own)
  BY DEF WriteInv
<1>2. Holds(pre, own)'
  BY <1>1 DEF Holds
<1>3. evm'.op = "write" => owed'[1].bytes = evm'.bytes
  BY DEF WriteInv
<1>4. client'.op = "write" => writeState_'.bytesAccumulated = Len(client'.bytes)
  <2>1. Len(<<>>) = 0
    OBVIOUS
  <2> QED
    BY <2>1 DEF WriteInv
<1>5. client'.op = "write" /\ client'.mode \in {"VALIDATE", "EXECUTE"} =>
        writeState_'.handle = client'.handle
  BY DEF WriteInv
<1> QED
  BY <1>2, <1>3, <1>4, <1>5 DEF WriteInv

LEMMA WriteStaysMore ==
  ASSUME TypeInv, NEW work \in Works, work.op # "write", QueueWork(work), ~outpaced',
         NEW pre \in Data, Ledger(evmQueue, pre, owed, Taken, TRUE)
  PROVE  Ledger(evmQueue', pre, owed, Taken, TRUE)
<1>1. evmQueue \in Seq(Works) /\ owed \in Seq(Owed) /\ evmQueue' = Append(evmQueue, work)
  BY Queued DEF TypeInv
<1> QED
  BY <1>1, OtherQueued

(* A write that is whole goes to the queue with its bytes.                 *)
LEMMA WriteCommitted ==
  ASSUME TypeInv, NEW w \in WriteStates, w.handle \in handles, NEW debt \in Owed,
         Commit(w, debt), ~outpaced', ~recounted',
         NEW pre \in Data, NEW bytes \in Data, Ledger(evmQueue, pre, owed, Taken, TRUE),
         debt.bytes = bytes, w.bytesAccumulated = Len(bytes)
  PROVE  /\ Ledger(evmQueue', pre \o bytes, owed', Taken, TRUE)
         /\ Len(owed) > 0 => owed'[1].bytes = owed[1].bytes
<1> DEFINE work == [op |-> "write", n |-> w.bytesAccumulated]
           r == Redirected(w.handle)
<1>1. evmQueue \in Seq(Works) /\ owed \in Seq(Owed)
  BY DEF TypeInv
<1>2. work \in Works /\ work.op = "write" /\ work.n = Len(bytes)
  BY DEF Works, WriteStates
<1>3. evmQueue' = Append(evmQueue, work) /\ owed' = Append(r, debt)
  BY Queued, Owes DEF Commit
<1>4. /\ r \in Seq(Owed) /\ Len(r) = Len(owed)
      /\ \A i \in 1 .. Len(owed) : r[i].bytes = owed[i].bytes
  BY <1>1, RedirectedIs
<1> HIDE DEF work, r
<1>5. Ledger(evmQueue, pre, r, Taken, TRUE)
  BY <1>1, <1>4, LedgerOfBytes
<1>6. Ledger(evmQueue', pre \o bytes, owed', Taken, TRUE)
  BY <1>1, <1>2, <1>3, <1>4, <1>5, WriteQueued
<1>7. ASSUME Len(owed) > 0 PROVE owed'[1].bytes = owed[1].bytes
  <2>1. 1 \in 1 .. Len(owed)
    BY <1>1, <1>7, LenProperties
  <2> QED
    BY <2>1, <1>3, <1>4, Longer
<1> QED
  BY <1>6, <1>7

(* A write that is delivered was owed.                                     *)
LEMMA WritesAreOwed ==
  ASSUME TypeInv, WriteInv, evm.op = "write"
  PROVE  owed # <<>> /\ Len(owed) > 0
<1>1. PICK pre \in Data, own \in Data : Holds(pre, own)
  BY DEF WriteInv
<1>2. Ledger(evmQueue, pre, owed, 1, TRUE) /\ evmQueue \in Seq(Works) /\ owed \in Seq(Owed)
  BY <1>1 DEF Holds, Taken, TypeInv
<1>3. owed # <<>>
  BY <1>2, WriteDelivered
<1> QED
  BY <1>2, <1>3, Shorter

(* Writes lose their handle, and nothing else.                             *)
LEMMA WriteRedirected ==
  ASSUME TypeInv, NEW h, Owe(Redirected(h)), ~outpaced', ~recounted'
  PROVE  /\ \A pre \in Data : Ledger(evmQueue, pre, owed, Taken, TRUE) =>
                              Ledger(evmQueue, pre, owed', Taken, TRUE)
         /\ Len(owed) > 0 => owed'[1].bytes = owed[1].bytes
<1>1. evmQueue \in Seq(Works) /\ owed \in Seq(Owed) /\ owed' = Redirected(h)
  BY Owes DEF TypeInv
<1>2. /\ owed' \in Seq(Owed) /\ Len(owed') = Len(owed)
      /\ \A i \in 1 .. Len(owed) : owed'[i].bytes = owed[i].bytes
  BY <1>1, RedirectedIs
<1>3. ASSUME NEW pre \in Data, Ledger(evmQueue, pre, owed, Taken, TRUE)
      PROVE  Ledger(evmQueue, pre, owed', Taken, TRUE)
  BY <1>1, <1>2, <1>3, LedgerOfBytes
<1>4. Len(owed) > 0 => 1 \in 1 .. Len(owed)
  BY <1>1, LenProperties
<1> QED
  BY <1>2, <1>3, <1>4

LEMMA WriteAttWrite ==
  ASSUME TypeInv, MapInv, WriteInv, AttWrite, ~outpaced', ~recounted', ~crashed'
  PROVE  WriteInv'
<1>1. /\ client \in Writers /\ client.op = "write" /\ client.handle \in handles /\ connected_
      /\ owed \in Seq(Owed) /\ writeState_ \in WriteStates /\ client.bytes \in Data
  BY ClientIs DEF AttWrite, MapInv, TypeInv, Writers
<1>2. UNCHANGED <<connected_, evm>> /\ Taken' = Taken
  BY DEF AttWrite, Taken
<1>3. PICK pre \in Data, own \in Data : Holds(pre, own)
  BY DEF WriteInv
<1>4. own = client.bytes /\ writeState_.byteList = pre \o client.bytes
      /\ Ledger(evmQueue, pre, owed, Taken, TRUE)
      /\ writeState_.bytesAccumulated = Len(client.bytes)
  BY <1>1, <1>3 DEF Holds, SoFar, WriteInv
<1>5. evm.op = "write" => Len(owed) > 0 /\ owed[1].bytes = evm.bytes
  BY WritesAreOwed DEF WriteInv
<1>6. ASSUME NEW n \in Sizes, Active(n) PROVE WriteInv'
  <2>1. evmQueue' = evmQueue
    BY <1>6 DEF Active
  <2>2. /\ Ledger(evmQueue', pre, owed', Taken', TRUE)
        /\ evm'.op = "write" => owed'[1].bytes = evm'.bytes
    BY <1>2, <1>4, <1>5, <1>6, <2>1, WriteRedirected DEF Active
  <2>3. Bytes(n) \in Data /\ Len(Bytes(n)) = n /\ n \in Nat
    BY BytesAre
  <2>4. CASE Fits(n)
    <3> DEFINE more == client.bytes \o Bytes(n)
    <3>1. /\ writeState_' = [writeState_ EXCEPT !.handle = client.handle,
                               !.byteList = writeState_.byteList \o Bytes(n),
                               !.bytesAccumulated = writeState_.bytesAccumulated + n]
          /\ \E m \in {"ACTIVE", "VALIDATE"} : client' = [client EXCEPT !.bytes = more, !.mode = m]
      BY <1>6, <2>4 DEF Active, StoreOn
    <3>2. more \in Data /\ Len(more) = Len(client.bytes) + n
      BY <1>1, <2>3, LongerBy
    <3>3. (pre \o client.bytes) \o Bytes(n) = pre \o more
      <4> HIDE DEF Bytes
      <4> QED
        BY <1>1, <2>3, InParts
    <3> HIDE DEF more
    <3>4. /\ writeState_'.byteList = pre \o more /\ writeState_'.handle = client.handle
          /\ writeState_'.bytesAccumulated = Len(more)
      BY <1>1, <1>4, <3>1, <3>2, <3>3 DEF WriteStates
    <3>5. /\ client'.op = "write" /\ client'.bytes = more /\ client'.handle = client.handle
          /\ SoFar' = more
      BY <1>1, <3>1 DEF Writers, SoFar
    <3> QED
      BY <2>2, <3>2, <3>4, <3>5, WriteHolds
  <2>5. CASE ~Fits(n)
    <3>1. /\ writeState_' = [writeState_ EXCEPT !.handle = client.handle,
                                                !.bufferExceeded = TRUE]
          /\ client' = [client EXCEPT !.mode = "CANCEL"]
      BY <1>6, <2>5 DEF Active
    <3>2. /\ writeState_'.byteList = writeState_.byteList
          /\ writeState_'.bytesAccumulated = writeState_.bytesAccumulated
      BY <1>1, <3>1 DEF WriteStates
    <3>3. client'.op = "write" /\ client'.bytes = client.bytes /\ client'.mode = "CANCEL"
      BY <1>1, <3>1 DEF Writers
    <3>4. SoFar' = client.bytes
      BY <3>3 DEF SoFar
    <3> QED
      BY <1>1, <1>4, <2>2, <3>2, <3>3, <3>4, WriteHolds
  <2> QED
    BY <2>4, <2>5
<1>7. CASE Validate
  <2>1. /\ UNCHANGED <<writeState_, evmQueue, owed>>
        /\ client' = [client EXCEPT !.mode = IF writeState_.bufferExceeded THEN "CANCEL"
                                                                          ELSE "EXECUTE"]
        /\ client.mode = "VALIDATE"
    BY <1>7 DEF Validate
  <2>2. client'.op = "write" /\ client'.bytes = client.bytes /\ client'.handle = client.handle
    BY <1>1, <2>1 DEF Writers
  <2>3. SoFar' = client.bytes
    BY <2>2 DEF SoFar
  <2>4. writeState_.handle = client.handle
    BY <1>1, <2>1 DEF WriteInv
  <2>5. Ledger(evmQueue', pre, owed', Taken', TRUE)
    BY <1>2, <1>4, <2>1
  <2> QED
    BY <1>1, <1>2, <1>4, <1>5, <2>1, <2>2, <2>3, <2>4, <2>5, WriteHolds
<1>8. CASE Execute
  <2> DEFINE debt == [handle |-> client.handle, bytes |-> client.bytes]
  <2>1. debt \in Owed /\ debt.bytes = client.bytes
    BY <1>1 DEF Owed, Writers
  <2>2. Commit(writeState_, debt) /\ writeState_' = writeState_ /\ client' = Idle
    BY <1>8 DEF Execute
  <2>3. writeState_.handle \in handles
    BY <1>1, <1>8 DEF WriteInv, Execute
  <2> HIDE DEF debt
  <2>4. /\ Ledger(evmQueue', pre \o client.bytes, owed', Taken, TRUE)
        /\ Len(owed) > 0 => owed'[1].bytes = owed[1].bytes
    BY <1>1, <1>4, <2>1, <2>2, <2>3, WriteCommitted
  <2> DEFINE all == pre \o client.bytes
  <2>5. all \in Data /\ <<>> \in Data /\ all \o <<>> = all
    BY <1>1, LongerBy, NoMore
  <2>6. writeState_'.byteList = all \o <<>>
    BY <1>4, <2>2, <2>5
  <2> HIDE DEF all
  <2>7. SoFar' = <<>> /\ client'.op # "write"
    BY <2>2 DEF SoFar, Idle
  <2>8. Ledger(evmQueue', all, owed', Taken', TRUE)
    BY <1>2, <2>4 DEF all
  <2>9. evm'.op = "write" => owed'[1].bytes = evm'.bytes
    BY <1>2, <1>5, <2>4
  <2> QED
    BY <2>5, <2>6, <2>7, <2>8, <2>9, WriteHolds
<1>9. CASE Cancel
  <2> DEFINE l == Len(writeState_.byteList)
  <2>1. /\ Len(pre) \in Nat /\ Len(client.bytes) \in Nat /\ l = Len(pre) + Len(client.bytes)
        /\ pre \in Seq({0, 1}) /\ client.bytes \in Seq({0, 1})
    BY <1>1, <1>4, ConcatProperties, LenProperties DEF Data
  <2>2. l - writeState_.bytesAccumulated = Len(pre) /\ ~(writeState_.bytesAccumulated > l)
    BY <1>4, <2>1
  <2>3. SubSeq(pre \o client.bytes, 1, Len(pre)) = pre
    <3>1. Len(pre) \in 0 .. Len(pre) /\ 1 \in Nat \ {0}
      BY <2>1
    <3>2. SubSeq(pre \o client.bytes, 1, Len(pre)) = SubSeq(pre, 1, Len(pre))
      BY <2>1, <3>1, PartOfLonger
    <3>3. SubSeq(pre, 1, Len(pre)) = pre
      BY <2>1
    <3> QED
      BY <3>2, <3>3
  <2>4. writeState_' = [WriteState EXCEPT !.byteList = pre]
    BY <1>4, <1>9, <2>2, <2>3 DEF Cancel
  <2>5. writeState_'.byteList = pre \o <<>>
    BY <2>1, <2>4, ConcatEmptySeq DEF WriteState
  <2>6. client' = Idle /\ evmQueue' = evmQueue
    BY <1>9 DEF Cancel
  <2>7. /\ Ledger(evmQueue', pre, owed', Taken', TRUE)
        /\ evm'.op = "write" => owed'[1].bytes = evm'.bytes
    BY <1>2, <1>4, <1>5, <1>9, <2>6, WriteRedirected DEF Cancel
  <2>8. SoFar' = <<>> /\ client'.op # "write" /\ <<>> \in Data
    BY <2>6, NoMore DEF SoFar, Idle
  <2> QED
    BY <2>5, <2>7, <2>8, WriteHolds
<1> QED
  BY <1>6, <1>7, <1>8, <1>9 DEF AttWrite

LEMMA WriteWriteSingle ==
  ASSUME TypeInv, WriteInv, NEW h \in handles, NEW n \in Sizes, WriteSingle(h, n),
         ~outpaced', ~recounted'
  PROVE  WriteInv'
<1>1. /\ h \in Handles /\ writeState_ \in WriteStates /\ owed \in Seq(Owed)
      /\ client = Idle /\ connected_
  BY DEF TypeInv, WriteSingle, AtRest
<1>2. UNCHANGED <<connected_, evm, client>> /\ Taken' = Taken
  BY DEF WriteSingle, Taken
<1>3. PICK pre \in Data, own \in Data : Holds(pre, own)
  BY DEF WriteInv
<1>4. /\ writeState_.byteList = pre /\ Ledger(evmQueue, pre, owed, Taken, TRUE)
      /\ SoFar' = <<>> /\ <<>> \in Data
  <2>1. own = <<>> /\ SoFar' = <<>>
    BY <1>1, <1>2, <1>3 DEF Holds, SoFar, Idle
  <2> QED
    BY <1>3, <2>1, ConcatEmptySeq, EmptySeq DEF Holds, Data
<1>5. evm.op = "write" => Len(owed) > 0 /\ owed[1].bytes = evm.bytes
  BY WritesAreOwed DEF WriteInv
<1>6. Bytes(n) \in Data /\ Len(Bytes(n)) = n /\ n \in Nat
  BY BytesAre
<1>7. CASE Fits(n)
  <2> DEFINE w == StoreSingle(writeState_, h, n)
             debt == [handle |-> h, bytes |-> Bytes(n)]
             all == pre \o Bytes(n)
  <2>1. all \in Data /\ all \o <<>> = all
    BY <1>6, LongerBy, NoMore
  <2>2. w \in WriteStates /\ w.handle = h /\ w.bytesAccumulated = n /\ w.byteList = all
    BY <1>1, <1>4, <1>6, <2>1 DEF StoreSingle, WriteStates
  <2>3. writeState_' = w /\ Commit(w, debt)
    BY <1>7 DEF WriteSingle
  <2>4. debt \in Owed /\ debt.bytes = Bytes(n)
    BY <1>1, <1>6 DEF Owed
  <2> HIDE DEF w, debt
  <2>5. /\ Ledger(evmQueue', all, owed', Taken, TRUE)
        /\ Len(owed) > 0 => owed'[1].bytes = owed[1].bytes
    BY <1>4, <1>6, <2>2, <2>3, <2>4, WriteCommitted
  <2> HIDE DEF all
  <2>6. /\ writeState_'.byteList = all \o <<>> /\ client'.op # "write"
        /\ Ledger(evmQueue', all, owed', Taken', TRUE)
        /\ evm'.op = "write" => owed'[1].bytes = evm'.bytes
    BY <1>1, <1>2, <1>5, <2>1, <2>2, <2>3, <2>5 DEF Idle
  <2> QED
    BY <1>4, <2>1, <2>6, WriteHolds
<1>8. CASE ~Fits(n)
  <2>1. writeState_' = [writeState_ EXCEPT !.handle = h] /\ evmQueue' = evmQueue
        /\ Owe(Redirected(h))
    BY <1>8 DEF WriteSingle
  <2>2. writeState_'.byteList = pre \o <<>>
    BY <1>1, <1>4, <2>1, ConcatEmptySeq DEF WriteStates, Data
  <2>3. /\ Ledger(evmQueue', pre, owed', Taken', TRUE)
        /\ evm'.op = "write" => owed'[1].bytes = evm'.bytes
    BY <1>2, <1>4, <1>5, <2>1, WriteRedirected
  <2>4. client'.op # "write"
    BY <1>1, <1>2 DEF Idle
  <2> QED
    BY <1>4, <2>2, <2>3, <2>4, WriteHolds
<1> QED
  BY <1>7, <1>8

LEMMA PartAfter ==
  ASSUME NEW S, NEW s \in Seq(S), NEW t \in Seq(S), NEW n \in 0 .. Len(s)
  PROVE  SubSeq(s \o t, n + 1, Len(s \o t)) = SubSeq(s, n + 1, Len(s)) \o t
<1> DEFINE p == SubSeq(s \o t, n + 1, Len(s \o t))
           r == SubSeq(s, n + 1, Len(s))
<1>1. /\ Len(s) \in Nat /\ Len(t) \in Nat /\ s \o t \in Seq(S) /\ Len(s \o t) = Len(s) + Len(t)
      /\ \A i \in 1 .. Len(s) + Len(t) : (s \o t)[i] = IF i <= Len(s) THEN s[i] ELSE t[i - Len(s)]
  BY LenProperties, ConcatProperties
<1>2. /\ p \in Seq(S) /\ Len(p) = Len(s) + Len(t) - n
      /\ \A i \in 1 .. Len(s) + Len(t) - n : p[i] = (s \o t)[n + i]
  <2>1. n + 1 \in Nat \ {0} /\ Len(s \o t) \in 0 .. Len(s \o t)
    BY <1>1
  <2>2. /\ p \in Seq(S)
        /\ Len(p) = IF n + 1 <= Len(s \o t) THEN Len(s \o t) - (n + 1) + 1 ELSE 0
        /\ \A i \in 1 .. Len(s \o t) - (n + 1) + 1 : p[i] = (s \o t)[(n + 1) + i - 1]
    BY <1>1, <2>1, Part
  <2> HIDE DEF p
  <2>3. /\ Len(s \o t) - (n + 1) + 1 = Len(s) + Len(t) - n
        /\ \A i \in 1 .. Len(s) + Len(t) - n : (n + 1) + i - 1 = n + i
    BY <1>1
  <2>4. Len(p) = Len(s) + Len(t) - n
    BY <1>1, <2>2
  <2> QED
    BY <2>2, <2>3, <2>4
<1>3. /\ r \in Seq(S) /\ Len(r) = Len(s) - n
      /\ \A i \in 1 .. Len(s) - n : r[i] = s[n + i]
  <2>1. n + 1 \in Nat \ {0} /\ Len(s) \in 0 .. Len(s)
    BY <1>1
  <2>2. /\ r \in Seq(S)
        /\ Len(r) = IF n + 1 <= Len(s) THEN Len(s) - (n + 1) + 1 ELSE 0
        /\ \A i \in 1 .. Len(s) - (n + 1) + 1 : r[i] = s[(n + 1) + i - 1]
    BY <2>1, Part
  <2> HIDE DEF r
  <2>3. /\ Len(s) - (n + 1) + 1 = Len(s) - n
        /\ \A i \in 1 .. Len(s) - n : (n + 1) + i - 1 = n + i
    BY <1>1
  <2>4. Len(r) = Len(s) - n
    BY <1>1, <2>2
  <2> QED
    BY <2>2, <2>3, <2>4
<1> HIDE DEF p, r
<1>4. /\ r \o t \in Seq(S) /\ Len(r \o t) = Len(r) + Len(t)
      /\ \A i \in 1 .. Len(r) + Len(t) : (r \o t)[i] = IF i <= Len(r) THEN r[i] ELSE t[i - Len(r)]
  BY <1>3, ConcatProperties
<1>5. ASSUME NEW i \in 1 .. Len(p) PROVE p[i] = (r \o t)[i]
  <2>1. /\ i \in 1 .. Len(s) + Len(t) - n /\ n + i \in 1 .. Len(s) + Len(t)
        /\ i \in 1 .. Len(r) + Len(t)
    BY <1>1, <1>2, <1>3
  <2>2. CASE i <= Len(r)
    <3>1. i \in 1 .. Len(s) - n /\ n + i <= Len(s)
      BY <1>1, <1>3, <2>1, <2>2
    <3> QED
      BY <1>1, <1>2, <1>3, <1>4, <2>1, <2>2, <3>1
  <2>3. CASE ~(i <= Len(r))
    <3>1. ~(n + i <= Len(s)) /\ (n + i) - Len(s) = i - Len(r)
      BY <1>1, <1>3, <2>1, <2>3
    <3> QED
      BY <1>1, <1>2, <1>4, <2>1, <2>3, <3>1
  <2> QED
    BY <2>2, <2>3
<1>6. Len(p) = Len(r \o t)
  <2>1. Len(p) \in Nat /\ Len(r) \in Nat
    BY <1>2, <1>3, LenProperties
  <2> QED
    BY <1>1, <1>2, <1>3, <1>4, <2>1
<1> QED
  BY <1>2, <1>4, <1>5, <1>6, SeqEqual DEF p, r

(* Work that writes has its bytes in the buffer.                           *)
LEMMA WritesAreThere ==
  ASSUME TypeInv, WriteInv, evm = Idle, evmQueue # <<>>, Head(evmQueue).op = "write"
  PROVE  LET n == Head(evmQueue).n
             list == writeState_.byteList
         IN  /\ n <= Len(list) /\ owed # <<>> /\ owed[1].bytes = SubSeq(list, 1, n)
             /\ \E pre \in Data, own \in Data :
                  /\ SubSeq(list, n + 1, Len(list)) = pre \o own
                  /\ Ledger(Tail(evmQueue), pre, owed, 1, TRUE)
                  /\ connected_ => own = SoFar
<1> DEFINE n == Head(evmQueue).n
           list == writeState_.byteList
<1>1. PICK pre \in Data, own \in Data : Holds(pre, own)
  BY DEF WriteInv
<1>2. evmQueue \in Seq(Works) /\ owed \in Seq(Owed) /\ Ledger(evmQueue, pre, owed, 0, TRUE)
  BY <1>1 DEF TypeInv, Holds, Taken, Idle
<1>3. /\ n <= Len(pre) /\ owed # <<>> /\ owed[1].bytes = SubSeq(pre, 1, n)
      /\ Ledger(Tail(evmQueue), SubSeq(pre, n + 1, Len(pre)), owed, 1, TRUE)
  BY <1>2, WriteTaken
<1>4. n \in Nat
  <2>1. Head(evmQueue) \in Works
    BY <1>2, Shorter
  <2> QED
    BY <2>1 DEF Works
<1>5. list = pre \o own /\ pre \in Seq({0, 1}) /\ own \in Seq({0, 1}) /\ (connected_ => own = SoFar)
  BY <1>1 DEF Holds, Data
<1> HIDE DEF n, list
<1>6. /\ Len(pre) \in Nat /\ Len(own) \in Nat /\ Len(pre \o own) = Len(pre) + Len(own)
      /\ n \in 0 .. Len(pre)
  BY <1>3, <1>4, <1>5, ConcatProperties, LenProperties
<1>7. n <= Len(list)
  BY <1>4, <1>5, <1>6
<1>8. SubSeq(list, 1, n) = SubSeq(pre, 1, n)
  <2>1. 1 \in Nat \ {0}
    OBVIOUS
  <2> QED
    BY <1>5, <1>6, <2>1, PartOfLonger
<1>9. SubSeq(list, n + 1, Len(list)) = SubSeq(pre, n + 1, Len(pre)) \o own
  BY <1>5, <1>6, PartAfter
<1>10. SubSeq(pre, n + 1, Len(pre)) \in Data
  <2>1. n + 1 \in Nat \ {0} /\ Len(pre) \in 0 .. Len(pre)
    BY <1>6
  <2> QED
    BY <1>5, <2>1, Part DEF Data
<1> QED
  BY <1>3, <1>5, <1>7, <1>8, <1>9, <1>10 DEF n, list

LEMMA WriteRunWork ==
  ASSUME TypeInv, WriteInv, RunWork, ~crashed'
  PROVE  WriteInv'
<1> DEFINE work == Head(evmQueue)
<1>1. /\ evm = Idle /\ evmQueue # <<>> /\ evmQueue' = Tail(evmQueue) /\ evmQueue \in Seq(Works)
      /\ UNCHANGED <<connected_, client, owed>> /\ owed \in Seq(Owed)
  BY DEF RunWork, TypeInv
<1>2. work \in Works
  BY <1>1, Shorter
<1>3. CASE work.op # "write"
  <2>1. writeState_' = writeState_ /\ (evm' = Idle \/ evm' = [op |-> "read"])
    BY <1>1, <1>2, <1>3 DEF RunWork, RunRead, RunNotify, RunSubscribe, Works
  <2>2. Taken' = Taken /\ evm'.op # "write"
    BY <1>1, <2>1 DEF Taken, Idle
  <2>3. ASSUME NEW pre \in Data, Ledger(evmQueue, pre, owed, Taken, TRUE)
        PROVE  Ledger(evmQueue', pre, owed, Taken, TRUE)
    BY <1>1, <1>3, <2>3, OtherTaken
  <2> QED
    BY <1>1, <2>1, <2>2, <2>3, WriteStays DEF SoFar
<1>4. CASE work.op = "write"
  <2> DEFINE n == work.n
             list == writeState_.byteList
             rest == SubSeq(list, n + 1, Len(list))
  <2>1. n <= Len(list) /\ owed # <<>> /\ owed[1].bytes = SubSeq(list, 1, n)
    BY <1>1, <1>4, WritesAreThere
  <2>2. PICK pre \in Data, own \in Data :
               /\ rest = pre \o own /\ Ledger(Tail(evmQueue), pre, owed, 1, TRUE)
               /\ connected_ => own = SoFar
    BY <1>1, <1>4, WritesAreThere
  <2>3. n \in Nat /\ Len(list) \in Nat
    BY <1>2, <1>4, LenProperties DEF Works, TypeInv, WriteStates, Data
  <2>4. RunWrite(n)
    BY <1>4 DEF RunWork
  <2> HIDE DEF work
  <2>5. /\ evm' = [op |-> "write", bytes |-> SubSeq(list, 1, n)]
        /\ writeState_' = [writeState_ EXCEPT !.byteList = rest]
    BY <2>1, <2>3, <2>4 DEF RunWrite
  <2> HIDE DEF rest
  <2>6. /\ writeState_'.byteList = rest /\ writeState_'.handle = writeState_.handle
        /\ writeState_'.bytesAccumulated = writeState_.bytesAccumulated
    BY <2>5 DEF TypeInv, WriteStates
  <2>7. Taken' = 1 /\ SoFar' = SoFar
    BY <1>1, <2>5 DEF Taken, SoFar
  <2>8. Holds(pre, own)'
    BY <1>1, <2>2, <2>6, <2>7 DEF Holds
  <2>9. evm'.op = "write" => owed'[1].bytes = evm'.bytes
    BY <1>1, <2>1, <2>5
  <2>10. /\ client'.op = "write" => writeState_'.bytesAccumulated = Len(client'.bytes)
         /\ client'.op = "write" /\ client'.mode \in {"VALIDATE", "EXECUTE"} =>
              writeState_'.handle = client'.handle
    BY <1>1, <2>6 DEF WriteInv
  <2> QED
    BY <2>8, <2>9, <2>10 DEF WriteInv
<1> QED
  BY <1>3, <1>4

LEMMA WriteFinishWrite ==
  ASSUME TypeInv, WriteInv, FinishWrite, ~crashed'
  PROVE  WriteInv'
<1>1. /\ evm.op = "write" /\ evm' = Idle /\ owed # <<>> /\ owed' = Tail(owed)
      /\ UNCHANGED <<connected_, writeState_, evmQueue, client>>
      /\ owed \in Seq(Owed) /\ evmQueue \in Seq(Works)
  BY WritesAreOwed DEF FinishWrite, TypeInv, writeVars
<1>2. PICK pre \in Data, own \in Data : Holds(pre, own)
  BY DEF WriteInv
<1>3. Ledger(evmQueue, pre, Tail(owed), 0, TRUE)
  BY <1>1, <1>2, WriteDelivered DEF Holds, Taken
<1>4. Holds(pre, own)'
  BY <1>1, <1>2, <1>3 DEF Holds, Taken, SoFar, Idle
<1> QED
  BY <1>1, <1>4 DEF WriteInv, Idle

LEMMA WriteNext == Held /\ [Next]_vars /\ Good' /\ ~recounted' => WriteInv'
<1> SUFFICES ASSUME Held, [Next]_vars, Good', ~recounted' PROVE WriteInv'
  OBVIOUS
<1>1. TypeInv /\ ~outpaced' /\ ~crashed'
  BY DEF Held, Good
<1>2. CASE UNCHANGED vars
  <2>1. WriteInv
    BY <1>2 DEF Held, Good, vars, writeVars, evmVars
  <2> QED
    BY <1>2, <2>1 DEF vars, writeVars, evmVars, WriteInv, Holds, Taken, SoFar
<1>3. CASE Next /\ Connect /\ Quiet
  <2>1. ~crashed
    BY <1>3 DEF Next
  <2>2. <<>> \in Data /\ <<>> \o <<>> = <<>>
    BY EmptySeq DEF Data
  <2>3. /\ evmQueue' = <<>> /\ evm' = Idle /\ owed' = <<>> /\ writeState_' = WriteState
        /\ client' = Idle
    BY <1>1, <1>3, <2>1, Afresh
  <2>4. writeState_'.byteList = <<>> /\ Taken' = 0 /\ SoFar' = <<>>
    BY <2>3 DEF WriteState, Taken, SoFar, Idle
  <2>5. evm'.op # "write" /\ client'.op # "write"
    BY <2>3 DEF Idle
  <2>6. Ledger(evmQueue', <<>>, owed', Taken', TRUE)
    BY <2>3, <2>4, LedgerEmpty
  <2> QED
    BY <2>2, <2>4, <2>5, <2>6, WriteHolds
<1>4. CASE Next /\ ~(Connect /\ Quiet)
  <2>1. Good /\ MapInv /\ WriteInv
    BY <1>1, <1>4, StillGood DEF Held
  <2>2. ~Connect
    BY <1>1, <1>4 DEF Connect
  <2>3. CASE OnDisconnect
    BY <2>1, <2>3, WriteStays DEF OnDisconnect, writeVars, evmVars, Taken, Idle
  <2>4. CASE DoNotify
    <3>1. [op |-> "notify"] \in Works /\ [op |-> "notify"].op # "write"
      BY DEF Works
    <3>2. UNCHANGED <<connected_, writeState_, client, evm, owed>> /\ QueueWork([op |-> "notify"])
      BY <1>1, <2>4, Owes DEF DoNotify, writeVars
    <3> QED
      BY <1>1, <2>1, <3>1, <3>2, WriteStays, WriteStaysMore DEF Taken, SoFar
  <2>5. ASSUME NEW h \in handles, ReadRequest(h) PROVE WriteInv'
    <3>1. SoFar' = <<>> /\ SoFar = <<>> /\ client'.op = "read"
      BY <2>5 DEF ReadRequest, AtRest, SoFar, Idle
    <3> QED
      BY <2>1, <2>5, <3>1, WriteStays DEF ReadRequest, writeVars, evmVars, Taken
  <2>6. ASSUME NEW h \in handles, LongWrite(h) PROVE WriteInv'
    <3>1. SoFar' = <<>> /\ SoFar = <<>>
      BY <2>6 DEF LongWrite, AtRest, SoFar, Idle
    <3>2. /\ client'.mode = "ACTIVE" /\ client'.bytes = <<>> /\ writeState_.bytesAccumulated = 0
          /\ owed' = owed
      BY <1>1, <2>6, Owes DEF LongWrite
    <3> QED
      BY <2>1, <2>6, <3>1, <3>2, WriteStays DEF LongWrite, Taken
  <2>7. ASSUME NEW h \in Notified, WriteSubscription(h) PROVE WriteInv'
    <3> DEFINE work == [op |-> "subscribe", handle |-> h]
    <3>1. work \in Works /\ work.op # "write"
      BY <2>7, BleGattAssumption DEF Works
    <3>2. UNCHANGED <<connected_, writeState_, client, evm, owed>> /\ QueueWork(work)
      BY <1>1, <2>7, Owes DEF WriteSubscription, writeVars
    <3> HIDE DEF work
    <3> QED
      BY <1>1, <2>1, <3>1, <3>2, WriteStays, WriteStaysMore DEF Taken, SoFar
  <2>8. CASE GiveUp
    <3>1. SoFar' = <<>> /\ SoFar = <<>> /\ client'.op # "write"
      BY <2>8 DEF GiveUp, SoFar, Idle
    <3>2. UNCHANGED <<connected_, writeState_, owed, evm, evmQueue>> /\ Taken' = Taken
      BY <2>8 DEF GiveUp, writeVars, evmVars, Taken
    <3> QED
      BY <2>1, <3>1, <3>2, WriteStays
  <2>9. ASSUME NEW v \in Versions, FinishRead(v) PROVE WriteInv'
    <3>1. SoFar' = SoFar /\ (client'.op = "write" => client' = client)
      <4>1. client' = client \/ (client.op = "read" /\ client'.op = "read")
        BY <1>1, <2>9, ClientIs DEF FinishRead, Answered, Readers
      <4> QED
        BY <4>1 DEF SoFar
    <3>2. Taken' = Taken /\ evm'.op # "write"
      BY <2>9 DEF FinishRead, Taken, Idle
    <3> QED
      BY <2>1, <2>9, <3>1, <3>2, WriteStays DEF FinishRead, writeVars
  <2>10. CASE AttRead
    <3>1. UNCHANGED <<connected_, writeState_, evm, owed>>
      BY <1>1, <2>10, Owes DEF AttRead, writeVars
    <3>2. SoFar = <<>> /\ SoFar' = <<>> /\ client'.op # "write"
      <4>1. client \in Readers /\ client.op = "read"
        BY <1>1, <2>10, ClientIs DEF AttRead
      <4>2. ASSUME ReadPending PROVE client'.op # "write"
        BY <4>1, <4>2 DEF ReadPending, Readers
      <4>3. ASSUME ReadSend PROVE client'.op # "write"
        <5> DEFINE f == client.from \cup {readState_.byteList}
                   o == client.offset + Chunk
        <5>1. client' = Idle \/ client' = [client EXCEPT !.offset = o, !.from = f]
          BY <4>3 DEF ReadSend
        <5> HIDE DEF o, f
        <5>2. [client EXCEPT !.offset = o, !.from = f].op = client.op
          BY <4>1 DEF Readers
        <5>3. Idle.op = "idle"
          BY DEF Idle
        <5>4. CASE client' = Idle
          BY <5>3, <5>4
        <5>5. CASE client' = [client EXCEPT !.offset = o, !.from = f]
          BY <4>1, <5>2, <5>5
        <5> QED
          BY <5>1, <5>4, <5>5
      <4>4. client'.op # "write"
        BY <2>10, <4>2, <4>3 DEF AttRead
      <4> QED
        BY <4>1, <4>4 DEF SoFar
    <3>3. ASSUME NEW pre \in Data, Ledger(evmQueue, pre, owed, Taken, TRUE)
          PROVE  Ledger(evmQueue', pre, owed, Taken, TRUE)
      <4>1. [op |-> "read"] \in Works /\ [op |-> "read"].op # "write"
        BY DEF Works
      <4>2. QueueWork([op |-> "read"]) \/ evmQueue' = evmQueue
        BY <2>10 DEF AttRead, ReadPending, ReadSend
      <4> QED
        BY <1>1, <3>3, <4>1, <4>2, WriteStaysMore
    <3> QED
      BY <2>1, <3>1, <3>2, <3>3, WriteStays DEF Taken
  <2>11. CASE Restart
    <3>1. owed' = owed
      BY <1>1, <2>11, Owes DEF Restart
    <3> QED
      BY <2>1, <2>11, <3>1, WriteStays DEF Restart, writeVars, Taken, SoFar
  <2>12. ASSUME NEW h \in Notified, TriggerNotify(h) PROVE WriteInv'
    BY <2>1, <2>12, WriteStays DEF TriggerNotify, writeVars, evmVars, Taken, SoFar
  <2> QED
    BY <1>1, <1>4, <2>1, <2>2, <2>3, <2>4, <2>5, <2>6, <2>7, <2>8, <2>9, <2>10, <2>11, <2>12,
       WriteAttWrite, WriteWriteSingle, WriteRunWork, WriteFinishWrite
       DEF Next, Interrupt, EvmThread
<1> QED
  BY <1>2, <1>3, <1>4

-----------------------------------------------------------------------------
(* Reads.                                                                  *)

LEMMA OtherReads ==
  ASSUME NEW queue \in Seq(Works), NEW work \in Works, OneRead(queue),
         work.op # "read" \/ ~HasRead(queue)
  PROVE  OneRead(Append(queue, work)) /\ (work.op # "read" /\ ~HasRead(queue) =>
                                            ~HasRead(Append(queue, work)))
<1> DEFINE q == Append(queue, work)
<1>1. /\ Len(q) = Len(queue) + 1 /\ q[Len(queue) + 1] = work /\ Len(queue) \in Nat
      /\ \A i \in 1 .. Len(queue) : q[i] = queue[i]
  BY Longer
<1> HIDE DEF q
<1>2. \A i \in 1 .. Len(q) : i \in 1 .. Len(queue) \/ i = Len(queue) + 1
  BY <1>1
<1>3. \A i \in 1 .. Len(q) : q[i].op = "read" =>
         \/ i \in 1 .. Len(queue) /\ queue[i].op = "read" /\ HasRead(queue)
         \/ i = Len(queue) + 1 /\ work.op = "read"
  BY <1>1, <1>2 DEF HasRead
<1>4. OneRead(q)
  BY <1>3 DEF OneRead
<1>5. work.op # "read" /\ ~HasRead(queue) => ~HasRead(q)
  BY <1>3 DEF HasRead
<1> QED
  BY <1>4, <1>5 DEF q

LEMMA FewerReads ==
  ASSUME NEW queue \in Seq(Works), queue # <<>>, OneRead(queue)
  PROVE  /\ OneRead(Tail(queue)) /\ (HasRead(Tail(queue)) => HasRead(queue))
         /\ Head(queue).op = "read" => HasRead(queue) /\ ~HasRead(Tail(queue))
<1> DEFINE q == Tail(queue)
<1>1. /\ Len(q) = Len(queue) - 1 /\ Len(queue) \in Nat \ {0} /\ Head(queue) = queue[1]
      /\ \A i \in 1 .. Len(queue) - 1 : q[i] = queue[i + 1]
  BY Shorter
<1> HIDE DEF q
<1>2. \A i \in 1 .. Len(q) : i + 1 \in 1 .. Len(queue) /\ q[i] = queue[i + 1] /\ i + 1 # 1
  BY <1>1
<1>3. 1 \in 1 .. Len(queue)
  BY <1>1
<1>4. OneRead(q)
  <2>1. SUFFICES ASSUME NEW i \in 1 .. Len(q), NEW j \in 1 .. Len(q),
                        q[i].op = "read", q[j].op = "read"
                 PROVE  i = j
    BY DEF OneRead
  <2>2. i + 1 = j + 1
    BY <1>2, <2>1 DEF OneRead
  <2> QED
    BY <1>1, <2>2
<1>5. HasRead(q) => HasRead(queue)
  BY <1>2 DEF HasRead
<1>6. Head(queue).op = "read" => HasRead(queue)
  BY <1>1, <1>3 DEF HasRead
<1>7. Head(queue).op = "read" => ~HasRead(q)
  BY <1>1, <1>2, <1>3 DEF HasRead, OneRead
<1> QED
  BY <1>4, <1>5, <1>6, <1>7 DEF q

LEMMA NoReads == OneRead(<<>>) /\ ~HasRead(<<>>)
<1>1. Len(<<>>) = 0
  OBVIOUS
<1> QED
  BY <1>1 DEF OneRead, HasRead

LEMMA ReadStays ==
  ASSUME ReadInv, UNCHANGED <<connected_, readState_, client, gaveUp>>,
         evm' = evm \/ evm'.op # "read",
         OneRead(evmQueue'), HasRead(evmQueue') => HasRead(evmQueue)
  PROVE  ReadInv'
<1>1. Asked' => Asked
  BY DEF Asked
<1>2. evm'.op = "read" => ~HasRead(evmQueue')
  BY DEF ReadInv
<1>3. (Kept => Kept') /\ (Goes => Goes')
  BY DEF Kept, Goes
<1> QED
  BY <1>1, <1>2, <1>3 DEF ReadInv

LEMMA ReadStaysMore ==
  ASSUME TypeInv, ReadInv, UNCHANGED <<connected_, readState_, client, gaveUp, evm>>,
         NEW work \in Works, work.op # "read", QueueWork(work), ~outpaced'
  PROVE  ReadInv'
<1>1. evmQueue \in Seq(Works) /\ evmQueue' = Append(evmQueue, work)
  BY Queued DEF TypeInv
<1>2. OneRead(evmQueue') /\ (HasRead(evmQueue') => HasRead(evmQueue))
  BY <1>1, OtherReads DEF ReadInv
<1> QED
  BY <1>2, ReadStays

LEMMA ReadAttRead ==
  ASSUME TypeInv, ReadInv, AttRead, ~outpaced'
  PROVE  ReadInv'
<1>1. /\ client \in Readers /\ client.op = "read" /\ ~client.pending /\ connected_
      /\ readState_ \in ReadStates /\ evmQueue \in Seq(Works) /\ UNCHANGED <<connected_, evm>>
  BY ClientIs DEF AttRead, TypeInv
<1>2. evm.op # "read" /\ ~HasRead(evmQueue) /\ OneRead(evmQueue)
  BY <1>1 DEF ReadInv, Asked
<1>3. CASE ReadPending
  <2>1. /\ readState_' = [readState_ EXCEPT !.handle = client.handle]
        /\ client' = [client EXCEPT !.pending = TRUE] /\ ~readState_.readyToSend
    BY <1>3 DEF ReadPending
  <2>2. /\ readState_'.handle = client.handle /\ client'.handle = client.handle
        /\ client'.pending /\ client'.op = "read" /\ client'.from = client.from
        /\ client'.offset = client.offset /\ client'.sound = client.sound
    BY <1>1, <2>1 DEF ReadStates, Readers
  <2>3. OneRead(evmQueue')
    <3>1. [op |-> "read"] \in Works
      BY DEF Works
    <3>2. evmQueue' = evmQueue \/ evmQueue' = Append(evmQueue, [op |-> "read"])
      BY <1>3, <3>1, Queued DEF ReadPending
    <3> QED
      BY <1>1, <1>2, <3>1, <3>2, OtherReads
  <2>4. client'.sound => Kept'
    BY <1>1, <2>2 DEF ReadInv, Kept
  <2> QED
    BY <1>1, <1>2, <2>2, <2>3, <2>4 DEF ReadInv
<1>4. CASE ReadSend
  <2> DEFINE b == readState_.byteList
             o == client.offset + Chunk
             f == client.from \cup {b}
             ends == Ends(client.offset)
  <2>1. /\ b \in Values \cup {NoValue} /\ client.offset \in Nat /\ Chunk \in Nat \ {0}
        /\ client.from \in SUBSET (Values \cup {NoValue})
    BY <1>1, BleGattAssumption DEF ReadStates, Readers
  <2>2. SizeOf(b) \in Nat
    BY <2>1, SizeIs
  <2>3. /\ readState_.readyToSend /\ evmQueue' = evmQueue
        /\ readState_' = [readState_ EXCEPT !.readyToSend = ~ends]
        /\ client' = IF SizeOf(b) - client.offset < Chunk
                       THEN Idle ELSE [client EXCEPT !.offset = o, !.from = f]
    BY <1>4 DEF ReadSend
  <2>4. ends <=> SizeOf(b) <= o
    BY DEF Ends
  <2>5. ~Asked'
    BY <1>1, <1>2, <2>3 DEF Asked
  <2> HIDE DEF b, o, f, ends
  <2>6. readState_'.readyToSend = ~ends /\ readState_'.byteList = b
    BY <1>1, <2>3 DEF ReadStates, b
  <2>7. CASE SizeOf(b) - client.offset < Chunk
    <3>1. ends
      BY <2>1, <2>2, <2>4, <2>7 DEF o
    <3>2. client'.op = "idle" /\ ~readState_'.readyToSend
      BY <2>3, <2>6, <2>7, <3>1 DEF Idle
    <3> QED
      BY <1>1, <1>2, <2>3, <2>5, <3>2 DEF ReadInv
  <2>8. CASE ~(SizeOf(b) - client.offset < Chunk)
    <3>1. client' = [client EXCEPT !.offset = o, !.from = f]
      BY <2>3, <2>8
    <3>2. /\ client'.offset = o /\ client'.from = f /\ client'.op = "read"
          /\ client'.handle = client.handle /\ client'.sound = client.sound
      BY <1>1, <3>1 DEF Readers
    <3>3. o <= SizeOf(b)
      BY <2>1, <2>2, <2>8 DEF o
    <3>4. ASSUME client.sound PROVE Kept' /\ Goes'
      <4>1. b \in Values /\ b.handle = client.handle /\ client.from \subseteq {b}
        BY <1>1, <2>3, <3>4 DEF ReadInv, Goes, b
      <4>2. f = {b}
        BY <4>1 DEF f
      <4> QED
        BY <2>6, <3>2, <3>3, <4>1, <4>2 DEF Kept, Goes
    <3> QED
      BY <1>1, <1>2, <2>3, <2>5, <3>2, <3>4 DEF ReadInv
  <2> QED
    BY <2>7, <2>8
<1> QED
  BY <1>3, <1>4 DEF AttRead

LEMMA ReadAttWrite ==
  ASSUME TypeInv, ReadInv, AttWrite, ~outpaced'
  PROVE  ReadInv'
<1>1. /\ client \in Writers /\ client.op = "write" /\ connected_
      /\ UNCHANGED <<connected_, readState_, gaveUp, evm>> /\ evmQueue \in Seq(Works)
  BY ClientIs DEF AttWrite, TypeInv, readVars
<1>2. /\ evm.op # "read" /\ ~HasRead(evmQueue) /\ OneRead(evmQueue)
      /\ ~readState_.readyToSend \/ gaveUp
  BY <1>1 DEF ReadInv, Asked
<1>3. client'.op # "read"
  <2>1. PICK y, m : \/ client' = Idle
                    \/ client' = [client EXCEPT !.bytes = y, !.mode = m]
                    \/ client' = [client EXCEPT !.mode = m]
    BY DEF AttWrite, Active, Validate, Execute, Cancel
  <2>2. CASE client' = Idle
    BY <2>2 DEF Idle
  <2>3. CASE client' = [client EXCEPT !.bytes = y, !.mode = m]
    BY <1>1, <2>3 DEF Writers
  <2>4. CASE client' = [client EXCEPT !.mode = m]
    BY <1>1, <2>4 DEF Writers
  <2> QED
    BY <2>1, <2>2, <2>3, <2>4
<1>4. OneRead(evmQueue') /\ ~HasRead(evmQueue')
  <2> DEFINE work == [op |-> "write", n |-> writeState_.bytesAccumulated]
  <2>1. work \in Works /\ work.op # "read"
    BY DEF Works, TypeInv, WriteStates
  <2>2. evmQueue' = evmQueue \/ QueueWork(work)
    BY DEF AttWrite, Active, Validate, Execute, Commit, Cancel
  <2> HIDE DEF work
  <2>3. evmQueue' = evmQueue \/ evmQueue' = Append(evmQueue, work)
    BY <2>2, Queued
  <2> QED
    BY <1>1, <1>2, <2>1, <2>3, OtherReads
<1> QED
  BY <1>1, <1>2, <1>3, <1>4 DEF ReadInv, Asked

LEMMA ReadWriteSingle ==
  ASSUME TypeInv, ReadInv, NEW h \in handles, NEW n \in Sizes, WriteSingle(h, n), ~outpaced'
  PROVE  ReadInv'
<1>1. UNCHANGED <<connected_, readState_, gaveUp, evm, client>>
  BY DEF WriteSingle, readVars
<1>2. CASE evmQueue' = evmQueue
  BY <1>1, <1>2, ReadStays DEF ReadInv
<1>3. CASE evmQueue' # evmQueue
  <2> DEFINE w == StoreSingle(writeState_, h, n)
             work == [op |-> "write", n |-> n]
  <2>1. w.bytesAccumulated = n /\ n \in Nat
    BY BytesAre DEF StoreSingle, TypeInv, WriteStates
  <2>2. QueueWork([op |-> "write", n |-> w.bytesAccumulated])
    BY <1>3 DEF WriteSingle, Commit
  <2> HIDE DEF w
  <2>3. work \in Works /\ work.op # "read" /\ QueueWork(work)
    BY <2>1, <2>2 DEF Works
  <2> HIDE DEF work
  <2> QED
    BY <1>1, <2>3, ReadStaysMore
<1> QED
  BY <1>2, <1>3

LEMMA ReadRunWork ==
  ASSUME TypeInv, ReadInv, RunWork
  PROVE  ReadInv'
<1> DEFINE work == Head(evmQueue)
<1>1. /\ evmQueue # <<>> /\ evmQueue' = Tail(evmQueue) /\ evmQueue \in Seq(Works) /\ evm = Idle
      /\ UNCHANGED <<connected_, client, gaveUp>> /\ readState_ \in ReadStates
  BY DEF RunWork, TypeInv
<1>2. work \in Works
  BY <1>1, Shorter
<1>3. /\ OneRead(evmQueue') /\ (HasRead(evmQueue') => HasRead(evmQueue))
      /\ work.op = "read" => HasRead(evmQueue) /\ ~HasRead(evmQueue')
  BY <1>1, FewerReads DEF ReadInv
<1>4. ASSUME UNCHANGED readState_, evm' = evm \/ evm'.op # "read" PROVE ReadInv'
  BY <1>1, <1>3, <1>4, ReadStays
<1>5. CASE work.op = "read"
  <2>1. RunRead
    BY <1>5 DEF RunWork
  <2>2. readState_'.handle = readState_.handle /\ evm'.op = "read"
    BY <1>1, <2>1 DEF RunRead, ReadStates
  <2>3. connected_ => client.op = "read" /\ client.pending /\ readState_.handle = client.handle
    BY <1>3, <1>5 DEF ReadInv, Asked
  <2>4. client.op = "read" => connected_
    BY ClientIs
  <2>5. Kept => Kept'
    BY <1>1 DEF Kept
  <2> QED
    BY <1>1, <1>3, <1>5, <2>2, <2>3, <2>4, <2>5 DEF ReadInv
<1>6. CASE work.op = "write"
  <2>1. RunWrite(work.n)
    BY <1>6 DEF RunWork
  <2>2. UNCHANGED readState_ /\ (evm' = evm \/ evm'.op # "read")
    BY <2>1 DEF RunWrite
  <2> QED
    BY <1>4, <2>2
<1>7. CASE work.op = "notify"
  BY <1>4, <1>7 DEF RunWork, RunNotify
<1>8. CASE work.op = "subscribe"
  BY <1>4, <1>8 DEF RunWork, RunSubscribe
<1> QED
  BY <1>2, <1>5, <1>6, <1>7, <1>8 DEF Works

LEMMA ReadFinishRead ==
  ASSUME TypeInv, MapInv, ReadInv, NEW v \in Versions, FinishRead(v)
  PROVE  ReadInv'
<1> DEFINE b == [handle |-> readState_.handle, version |-> v]
<1>1. /\ evm.op = "read" /\ evm' = Idle /\ readState_.handle \in handles
      /\ UNCHANGED <<connected_, evmQueue, gaveUp>> /\ readState_ \in ReadStates
      /\ readState_.handle \in Handles /\ b \in Values
  BY DEF FinishRead, MapInv, TypeInv, Values
<1>2. readState_' = [readState_ EXCEPT !.byteList = b] /\ Answered(b)
  BY <1>1 DEF FinishRead
<1>3. b.handle = readState_.handle
  OBVIOUS
<1> HIDE DEF b
<1>4. readState_'.byteList = b /\ readState_'.readyToSend = readState_.readyToSend
  BY <1>1, <1>2 DEF ReadStates
<1>5. OneRead(evmQueue') /\ ~Asked' /\ evm'.op # "read"
  BY <1>1 DEF ReadInv, Asked, Idle
<1>6. CASE client.op = "read"
  <2>1. connected_ /\ readState_.handle = client.handle /\ client \in Readers
    BY <1>1, <1>6, ClientIs DEF ReadInv, Asked
  <2> DEFINE s == client.sound /\ client.from \subseteq {b}
  <2>2. client' = [client EXCEPT !.pending = FALSE, !.sound = s]
    BY <1>2, <1>6 DEF Answered
  <2> HIDE DEF s
  <2>3. /\ client'.op = "read" /\ client'.from = client.from /\ client'.offset = client.offset
        /\ client'.handle = client.handle /\ client'.sound = s
    BY <1>6, <2>1, <2>2 DEF Readers
  <2>4. client'.sound => Kept' /\ Goes'
    <3> SUFFICES ASSUME s PROVE Kept' /\ Goes'
      BY <2>3
    <3>1. client.sound /\ client.from \subseteq {b}
      BY DEF s
    <3> QED
      BY <1>1, <1>3, <1>4, <1>6, <2>1, <2>3, <3>1 DEF ReadInv, Kept, Goes
  <2> QED
    BY <1>5, <2>3, <2>4 DEF ReadInv
<1>7. CASE client.op # "read"
  <2>1. client' = client /\ ~connected_
    BY <1>1, <1>2, <1>7 DEF Answered, ReadInv, Asked
  <2> QED
    BY <1>1, <1>5, <1>7, <2>1 DEF ReadInv
<1> QED
  BY <1>6, <1>7

LEMMA ReadNext == Held /\ [Next]_vars /\ Good' => ReadInv'
<1> SUFFICES ASSUME Held, [Next]_vars, Good' PROVE ReadInv'
  OBVIOUS
<1>1. TypeInv /\ ~outpaced'
  BY DEF Held, Good
<1>2. CASE UNCHANGED vars
  <2>1. ReadInv
    BY <1>2 DEF Held, Good, vars, evmVars
  <2> QED
    BY <1>2, <2>1, ReadStays DEF vars, readVars, evmVars, ReadInv
<1>3. CASE Next /\ Connect /\ Quiet
  <2>1. ~crashed
    BY <1>3 DEF Next
  <2>2. evmQueue' = <<>> /\ evm' = Idle /\ client' = Idle /\ readState_' = ReadState
    BY <1>3, <2>1, Afresh
  <2>3. OneRead(evmQueue') /\ ~Asked'
    BY <2>2, NoReads DEF Asked, Idle
  <2>4. client'.op # "read" /\ evm'.op # "read" /\ ~readState_'.readyToSend
    BY <2>2 DEF Idle, ReadState
  <2> QED
    BY <2>3, <2>4 DEF ReadInv
<1>4. CASE Next /\ ~(Connect /\ Quiet)
  <2>1. Good /\ MapInv /\ ReadInv
    BY <1>1, <1>4, StillGood DEF Held
  <2>2. ~Connect
    BY <1>1, <1>4 DEF Connect
  <2>3. CASE OnDisconnect
    BY <2>1, <2>3 DEF OnDisconnect, ReadInv, evmVars, Idle
  <2>4. CASE DoNotify
    <3>1. [op |-> "notify"] \in Works /\ [op |-> "notify"].op # "read"
      BY DEF Works
    <3> QED
      BY <1>1, <2>1, <2>4, <3>1, ReadStaysMore DEF DoNotify, readVars
  <2>5. ASSUME NEW h \in handles, ReadRequest(h) PROVE ReadInv'
    <3>1. /\ client.op # "read" /\ connected_ /\ UNCHANGED <<connected_, evm, evmQueue>>
          /\ readState_' = readState_
      BY <2>5 DEF ReadRequest, AtRest, Idle, evmVars, readVars
    <3>2. /\ client'.op = "read" /\ client'.offset = 0 /\ client'.from = {}
          /\ client'.sound = ~gaveUp
      BY <2>5 DEF ReadRequest
    <3>3. ~Asked /\ (~readState_.readyToSend \/ gaveUp)
      BY <2>1, <3>1 DEF ReadInv
    <3>4. ~Asked' /\ OneRead(evmQueue') /\ (evm'.op = "read" => ~HasRead(evmQueue'))
      BY <2>1, <3>1, <3>3 DEF Asked, ReadInv
    <3>5. Kept'
      BY <3>2 DEF Kept
    <3> QED
      BY <3>1, <3>2, <3>3, <3>4, <3>5 DEF ReadInv
  <2>6. ASSUME NEW h \in handles, LongWrite(h) PROVE ReadInv'
    <3>1. /\ client.op # "read" /\ client'.op = "write"
          /\ UNCHANGED <<connected_, evm, evmQueue, readState_, gaveUp>>
      BY <2>6 DEF LongWrite, AtRest, Idle, readVars
    <3>2. Asked' = Asked
      BY <3>1 DEF Asked
    <3> QED
      BY <2>1, <3>1, <3>2 DEF ReadInv
  <2>7. ASSUME NEW h \in Notified, WriteSubscription(h) PROVE ReadInv'
    <3> DEFINE work == [op |-> "subscribe", handle |-> h]
    <3>1. work \in Works /\ work.op # "read"
      BY <2>7, BleGattAssumption DEF Works
    <3>2. QueueWork(work) /\ UNCHANGED <<connected_, readState_, client, gaveUp, evm>>
      BY <2>7 DEF WriteSubscription, readVars
    <3> HIDE DEF work
    <3> QED
      BY <1>1, <2>1, <3>1, <3>2, ReadStaysMore
  <2>8. CASE GiveUp
    <3>1. /\ connected_ /\ client.op = "read" /\ ~client.pending /\ client' = Idle
          /\ UNCHANGED <<connected_, readState_, evm, evmQueue>>
          /\ gaveUp' = (gaveUp \/ readState_.readyToSend)
      BY <1>1, <2>8, ClientIs DEF GiveUp, evmVars
    <3>2. ~Asked /\ Asked' = Asked /\ client'.op = "idle"
      BY <2>1, <3>1 DEF ReadInv, Asked, Idle
    <3>3. ~readState_'.readyToSend \/ gaveUp'
      BY <3>1
    <3> QED
      BY <2>1, <3>1, <3>2, <3>3 DEF ReadInv
  <2>9. CASE FinishWrite
    BY <2>1, <2>9, ReadStays DEF FinishWrite, readVars, Idle, ReadInv
  <2>10. CASE Restart
    BY <2>1, <2>10, ReadStays DEF Restart, readVars, ReadInv
  <2>11. ASSUME NEW h \in Notified, TriggerNotify(h) PROVE ReadInv'
    BY <2>1, <2>11, ReadStays DEF TriggerNotify, readVars, evmVars, ReadInv
  <2> QED
    BY <1>1, <1>4, <2>1, <2>2, <2>3, <2>4, <2>5, <2>6, <2>7, <2>8, <2>9, <2>10, <2>11,
       ReadAttRead, ReadAttWrite, ReadWriteSingle, ReadRunWork, ReadFinishRead
       DEF Next, Interrupt, EvmThread
<1> QED
  BY <1>2, <1>3, <1>4

-----------------------------------------------------------------------------
(* The theorems.                                                           *)

LEMMA NoStrayNext == Held /\ [Next]_vars => NoStrayAccess'
<1> SUFFICES ASSUME Held, [Next]_vars, crashed', ~outpaced', ~recounted'
             PROVE  evm'.op = "write" /\ writeState_'.handle = NoHandle
  BY DEF NoStrayAccess
<1>1. TypeInv /\ NoStrayAccess
  BY DEF Held
<1>2. CASE UNCHANGED vars
  BY <1>1, <1>2 DEF NoStrayAccess, vars, writeVars, evmVars
<1>3. CASE Next
  <2>1. ~crashed /\ ((Cancel /\ AttWrite) \/ RunWork \/ FinishWrite \/ \E v \in Versions : FinishRead(v))
    BY <1>3 DEF Next, Interrupt, EvmThread, Connect, OnDisconnect, GiveUp, AttRead, AttWrite,
       Active, Validate, Execute, DoNotify, ReadRequest, LongWrite, WriteSingle,
       WriteSubscription, Restart, TriggerNotify
  <2>2. outpaced' = outpaced /\ recounted' = recounted
    BY <2>1 DEF Cancel, AttWrite, RunWork, FinishWrite, FinishRead, writeVars
  <2>3. MapInv /\ WriteInv
    BY <2>1, <2>2 DEF Held, Good
  <2>4. ASSUME Cancel, AttWrite PROVE FALSE
    <3>1. PICK pre \in Data, own \in Data : Holds(pre, own)
      BY <2>3 DEF WriteInv
    <3>2. client.op = "write" /\ connected_
      BY <1>1, <2>4, ClientIs DEF AttWrite
    <3>3. writeState_.byteList = pre \o own /\ writeState_.bytesAccumulated = Len(own)
      BY <2>3, <3>1, <3>2 DEF Holds, WriteInv, SoFar
    <3>4. Len(writeState_.byteList) = Len(pre) + Len(own) /\ Len(pre) \in Nat /\ Len(own) \in Nat
      BY <3>3, LongerBy
    <3>5. ~(writeState_.bytesAccumulated > Len(writeState_.byteList))
      BY <3>3, <3>4
    <3>6. crashed' = crashed
      BY <2>4, <3>5 DEF Cancel
    <3> QED
      BY <2>1, <3>6
  <2>5. ASSUME RunWork PROVE FALSE
    <3> DEFINE work == Head(evmQueue)
    <3>1. evm = Idle /\ evmQueue # <<>> /\ evmQueue \in Seq(Works)
      BY <1>1, <2>5 DEF RunWork, TypeInv
    <3>2. work \in Works /\ Finds(work, readState_.handle, handle_, handles)
      BY <2>3, <3>1, Shorter, AllFindRest DEF MapInv
    <3>3. CASE work.op = "write"
      <4>1. work.n <= Len(writeState_.byteList)
        BY <1>1, <2>3, <3>1, <3>3, WritesAreThere
      <4>2. work.n \in Nat /\ Len(writeState_.byteList) \in Nat
        BY <1>1, <3>2, <3>3, LenProperties DEF Works, TypeInv, WriteStates, Data
      <4>3. ~(work.n > Len(writeState_.byteList))
        BY <4>1, <4>2
      <4>4. RunWrite(work.n)
        BY <2>5, <3>3 DEF RunWork
      <4> HIDE DEF work
      <4>5. crashed' = crashed
        BY <4>3, <4>4 DEF RunWrite
      <4> QED
        BY <2>1, <4>5
    <3>4. CASE work.op # "write"
      BY <2>1, <2>5, <3>2, <3>4
         DEF RunWork, RunRead, RunNotify, RunSubscribe, Finds, Works
    <3> QED
      BY <3>3, <3>4
  <2>6. ASSUME NEW v \in Versions, FinishRead(v) PROVE FALSE
    BY <2>1, <2>3, <2>6 DEF FinishRead, MapInv
  <2>7. CASE FinishWrite
    <3>1. evm.op = "write" /\ writeState_' = writeState_
      BY <2>7 DEF FinishWrite, writeVars
    <3>2. writeState_.handle \notin handles /\ evm' = evm
      BY <2>1, <2>7 DEF FinishWrite
    <3>3. ~Quiet
      BY <3>1 DEF Quiet, Idle
    <3> QED
      BY <2>3, <3>1, <3>2, <3>3 DEF MapInv
  <2> QED
    BY <2>1, <2>4, <2>5, <2>6, <2>7
<1> QED
  BY <1>2, <1>3

LEMMA HeldInit == Init => Held
<1> SUFFICES ASSUME Init PROVE Held
  OBVIOUS
<1>1. TypeInv
  BY TypesInit
<1>2. NoStrayAccess
  BY DEF Init, NoStrayAccess
<1>3. MapInv
  BY EmptyFinds DEF Init, MapInv, Quiet, Idle
<1>4. ReadInv
  BY NoReads DEF Init, ReadInv, Asked, Idle
<1>5. WriteInv
  <2>1. <<>> \in Data /\ <<>> \o <<>> = <<>>
    BY EmptySeq DEF Data
  <2>2. Taken = 0 /\ SoFar = <<>>
    BY DEF Init, Taken, SoFar, Idle
  <2>3. Holds(<<>>, <<>>)
    BY <2>1, <2>2, LedgerEmpty DEF Init, Holds, WriteState
  <2> QED
    BY <2>1, <2>3 DEF Init, WriteInv, Idle
<1> QED
  BY <1>1, <1>2, <1>3, <1>4, <1>5 DEF Held

LEMMA HeldNext == Held /\ [Next]_vars => Held'
<1> SUFFICES ASSUME Held, [Next]_vars PROVE Held'
  OBVIOUS
<1>1. TypeInv'
  BY TypesNext DEF Held
<1>2. NoStrayAccess'
  BY NoStrayNext
<1>3. Good' => MapInv' /\ ReadInv'
  BY MapNext, ReadNext
<1>4. Good' /\ ~recounted' => WriteInv'
  BY WriteNext
<1> QED
  BY <1>1, <1>2, <1>3, <1>4 DEF Held

(* Whatever work needs is among the characteristics while it is queued,    *)
(* the buffer has the bytes of the writes that wait in their order, and    *)
(* what is ready to send is what the client reads: as long as interrupts   *)
(* do not outpace Evm, and, for writes, no long write counts the bytes of  *)
(* another.                                                                *)
THEOREM GattInvariant == Spec => []Held
<1>1. Init => Held
  BY HeldInit
<1>2. Held /\ [Next]_vars => Held'
  BY HeldNext
<1> QED
  BY <1>1, <1>2, PTL DEF Spec

(* However connections, requests and the work they queue follow each       *)
(* other, work never looks for a characteristic that is not there, nor     *)
(* takes more from the buffer than it has, unless interrupts outpaced Evm  *)
(* or a long write counted the bytes of another: except that a write       *)
(* which waits while another is cancelled finds its handle trashed.        *)
THEOREM WorkFindsItsCharacteristic == Spec => []NoStrayAccess
<1>1. Held => NoStrayAccess
  BY DEF Held
<1> QED
  BY <1>1, GattInvariant, PTL

(* A write's callback has the bytes that came in this write and no others, *)
(* in the order of the writes, whatever was written or cancelled before it *)
(* ran.                                                                    *)
THEOREM WritesArriveInOrder == Spec => WritesDelivered
<1>1. Held /\ [Next]_vars =>
        [FinishWrite /\ ~crashed' /\ ~outpaced /\ ~recounted => Delivered(owed)]_vars
  <2> SUFFICES ASSUME Held, Next, FinishWrite, ~outpaced, ~recounted
               PROVE  Delivered(owed)
    OBVIOUS
  <2>1. ~crashed
    BY DEF Next
  <2>2. TypeInv /\ MapInv /\ WriteInv /\ owed \in Seq(Owed) /\ evm.op = "write"
    BY <2>1 DEF Held, Good, TypeInv, FinishWrite
  <2>3. owed # <<>> /\ owed[1].bytes = evm.bytes
    BY <2>2, WritesAreOwed DEF WriteInv
  <2>4. Head(owed) = owed[1] /\ owed[1].handle \in {writeState_.handle, NoHandle}
    BY <2>2, <2>3, OwedToRest DEF MapInv
  <2> QED
    BY <2>3, <2>4 DEF Delivered
<1>2. Held => (Quiet => owed = <<>>)
  <2> SUFFICES ASSUME Held, Quiet PROVE owed = <<>>
    OBVIOUS
  <2>1. CASE outpaced \/ recounted
    BY <2>1 DEF Held, TypeInv
  <2>2. CASE ~outpaced /\ ~recounted
    <3>1. ~crashed
      BY <2>2 DEF Held, NoStrayAccess, Quiet, Idle
    <3> QED
      BY <2>2, <3>1, QuietOwesNothing DEF Held, Good
  <2> QED
    BY <2>1, <2>2
<1> QED
  BY <1>1, <1>2, GattInvariant, PTL DEF Spec, WritesDelivered

(* The answers to a client's requests make up one value of what it asked   *)
(* for, all of it, however the value changes meanwhile, unless it began    *)
(* after a value whose rest nobody asked for, or a value filled its last   *)
(* blob and then changed.                                                  *)
THEOREM ReadsComeWhole == Spec => ReadsAreWhole
<1>1. Held /\ [Next]_vars =>
        [AttRead /\ client' = Idle /\ client.sound /\ ~outpaced => Whole(readState_.byteList)]_vars
  <2> SUFFICES ASSUME Held, Next, AttRead, client' = Idle, client.sound, ~outpaced
               PROVE  Whole(readState_.byteList)
    OBVIOUS
  <2> DEFINE b == readState_.byteList
             o == client.offset + Chunk
             f == client.from \cup {b}
  <2>1. ~crashed /\ TypeInv
    BY DEF Next, Held
  <2>2. /\ ReadInv /\ client.op = "read" /\ ~client.pending /\ client \in Readers
        /\ readState_ \in ReadStates
    BY <2>1, ClientIs DEF Held, Good, AttRead, TypeInv
  <2>3. client'.op = "idle"
    BY DEF Idle
  <2>4. ReadSend
    <3>1. ASSUME ReadPending PROVE FALSE
      <4>1. client' = [client EXCEPT !.pending = TRUE]
        BY <3>1 DEF ReadPending
      <4> QED
        BY <2>2, <2>3, <4>1 DEF Readers
    <3> QED
      BY <3>1 DEF AttRead
  <2>5. /\ readState_.readyToSend
        /\ client' = IF SizeOf(b) - client.offset < Chunk
                       THEN Idle ELSE [client EXCEPT !.offset = o, !.from = f]
    BY <2>4 DEF ReadSend
  <2> HIDE DEF o, f
  <2>6. SizeOf(b) - client.offset < Chunk
    <3>1. SUFFICES ASSUME client' = [client EXCEPT !.offset = o, !.from = f] PROVE FALSE
      BY <2>5
    <3> QED
      BY <2>2, <2>3, <3>1 DEF Readers
  <2>7. Goes /\ Kept
    BY <2>2, <2>5 DEF ReadInv
  <2>8. b \in Values /\ b.handle = client.handle /\ client.from \subseteq {b}
    BY <2>7 DEF Goes
  <2>9. /\ SizeOf(b) \in Nat /\ client.offset \in Nat /\ Chunk \in Nat \ {0}
    BY <2>2, <2>8, SizeIs, BleGattAssumption DEF Readers
  <2> HIDE DEF b
  <2>10. client.offset <= SizeOf(b)
    <3>1. CASE client.from = {}
      BY <2>7, <2>9, <3>1 DEF Kept
    <3>2. CASE client.from # {}
      BY <2>7, <2>8, <3>2 DEF Kept
    <3> QED
      BY <3>1, <3>2
  <2>11. SizeOf(b) - client.offset \in 0 .. Chunk - 1
    BY <2>6, <2>9, <2>10
  <2> QED
    BY <2>8, <2>11 DEF Whole, b
<1> QED
  BY <1>1, GattInvariant, PTL DEF Spec, ReadsAreWhole
================================================================================
